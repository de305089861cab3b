\* A 3 x 2 sensor: 2 index bits, so that row 3 and columns 2, 3 are out of
\* range, and 2 pad bits: payloads 0..15, of which 15 is the TAIL.  A burst may
\* carry three columns, one too many; the counters wrap at 3.
CONSTANTS
  Rows = 3
  Cols = 2
  IndexSpan = 4
  CounterMod = 3
  PayloadSpan = 16
  MaxHeard = 4
SPECIFICATION Spec
INVARIANTS
  TypeOK
  BufferIsHistory
  FlagsAreAnomalies
  NoColumnUnaccounted
PROPERTIES
  EmitsTheBurst
