\* The configuration of aer_cfg.h: 5 index bits, 1 pad bit, 12 wires, and one
\* bit above the bus; all 8192 raw words are visited.  The clocks of the HAL
\* have 3 and 4 bits in place of 32 and 64.
CONSTANTS
  AER_INDEX_BITS = 5
  AER_PAYLOAD_BITS = 6
  RawBits = 13
  GpioCfgs <- MCGpioCfgs
  DataWords <- MCDataWords
  Word = 8
  Long = 16
  Million = 2
  DefaultHz = 6
  ClockHz = {0, 2}
  Waits = {0, 2, 7}
  MaxGap = 2
  g1a = g1a
  Words <- MCWords
  Skew = FALSE
  ValidTimeout = TRUE
  NeutralTimeout = TRUE
  RbSlots = 1
  StatMod = 1
  ValidUs = 1
  NeutralUs = 2
  Calls <- MCCalls
  MaxDelay = 1
  ClockEnd = 13
SPECIFICATION MCSpec
INVARIANTS
  BitsMatchSets
  RoundTrip
  DeadlinesHold
  SpinsAsAsked
  ReturnAccounts
  ServiceIsPrompt
PROPERTIES
  AckEdgesFollowData
  PinsComplete
  NeverTimesOutEarly
  ServiceReturns
