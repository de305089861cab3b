\* A sensor whose wires switch together and that completes its words.
CONSTANTS
  Words <- MCWords
  NumGroups = 2
  GroupWidth = 2
  IndexSpan = 2
  Rows = 2
  Cols = 2
  CounterMod = 1
  Skew = FALSE
  ValidTimeout = FALSE
  NeutralTimeout = FALSE
  RbSlots = 1
  StatMod = 2
SPECIFICATION FwSpec
INVARIANTS
  MainNeverDrops
PROPERTIES
  ReportsEveryBurst
  BurstsAreReported
  KeepsServicingUsb
