\* Wires rise and fall one at a time.
CONSTANTS
  Words <- MCWords
  NumGroups = 2
  GroupWidth = 2
  IndexSpan = 2
  Rows = 2
  Cols = 2
  CounterMod = 1
  Skew = TRUE
  ValidTimeout = FALSE
  NeutralTimeout = FALSE
  RbSlots = 1
  StatMod = 1
SPECIFICATION FwSpec
PROPERTIES
  IntactBurstsAreExact
