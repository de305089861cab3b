\* Packets of both record types, a short write, and a port that is reopened.
CONSTANTS
  MaxEvents = 3
  MaxExtras = 1
  MaxCuts = 1
  CutPoints = {0, 2, 5}
  ReadSizes = {5, 64}
  Programs = {"view", "print"}
  ExtrasAt = {1}
SPECIFICATION Spec
INVARIANTS
  CountersAgree
  ShownAreSent
  CutCostsItsLength
PROPERTIES
  PrinterCatchesUp
  WindowIsServed
