\* Wires rise one at a time, and a ROW or a TAIL is garbled.
CONSTANTS
  Words <- MCWords
  NumGroups = 2
  GroupWidth = 2
  IndexSpan = 2
  Rows = 2
  Cols = 2
  CounterMod = 1
  Skew = TRUE
  ValidTimeout = FALSE
  NeutralTimeout = FALSE
  RbSlots = 1
  StatMod = 1
SPECIFICATION FwSpec
PROPERTIES
  NoPhantomEvents
