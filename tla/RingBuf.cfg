\* A buffer of 4 elements, 3 usable, so that both indices wrap several times.
CONSTANTS
  Capacity = 4
  Values = {v1, v2}
  Nothing = nothing
SPECIFICATION Spec
INVARIANTS
  NoSlotRace
  AnswersArePromises
PROPERTIES
  ImplementsFifo
