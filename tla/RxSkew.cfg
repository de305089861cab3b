\* Wires rise and fall one at a time, the valid timeout is on, the neutral
\* timeout off; the ring buffer holds 2 words, the counters wrap at 2.
CONSTANTS
  g1a = g1a
  g1b = g1b
  g2a = g2a
  g2b = g2b
  Words <- MCWords
  Skew = TRUE
  ValidTimeout = TRUE
  NeutralTimeout = FALSE
  RbSlots = 2
  StatMod = 2
SPECIFICATION Spec
INVARIANTS
  InStep
  SkewNeverForges
PROPERTIES
  ImplementsChannel
  AckFollowsData
  EveryWordCompletes
