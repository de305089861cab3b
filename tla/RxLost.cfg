\* After a neutral timeout a stale read acknowledges the next word.
CONSTANTS
  g1a = g1a
  g1b = g1b
  g2a = g2a
  g2b = g2b
  Words <- MCWords
  Skew = FALSE
  ValidTimeout = FALSE
  NeutralTimeout = TRUE
  RbSlots = 1
  StatMod = 1
SPECIFICATION Spec
PROPERTIES
  AckMeansLatched
