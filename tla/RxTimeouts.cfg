\* Both timeouts are on and may expire at every test.
CONSTANTS
  g1a = g1a
  g1b = g1b
  g2a = g2a
  g2b = g2b
  Words <- MCWords
  Skew = TRUE
  ValidTimeout = TRUE
  NeutralTimeout = TRUE
  RbSlots = 1
  StatMod = 2
SPECIFICATION Spec
INVARIANTS
  WordsAccounted
  DuplicateOnlyAfterTimeout
