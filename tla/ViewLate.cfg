\* Two packets arrive together, none is ever cut.
CONSTANTS
  MaxEvents = 2
  MaxExtras = 0
  MaxCuts = 0
  CutPoints = {}
  ReadSizes = {3, 64}
  Programs = {"view"}
  ExtrasAt = {}
SPECIFICATION Spec
PROPERTIES
  ViewerCatchesUp
