\* Two runs over a waveform of up to four words, with every fault injector.
CONSTANTS
  TxWords <- MCWords
  Timings <- MCTimings
  Cfgs <- MCCfgs
  Lines <- MCLines
  MaxLines = 3
  Faults <- MCFaults
  NumGroups = 2
  GroupWidth = 2
  IndexSpan = 2
  Rows = 2
  Cols = 1
  CounterMod = 3
  MaxWords = 4
  MaxRuns = 2
SPECIFICATION Spec
CHECK_DEADLOCK FALSE
INVARIANTS
  WaveformIsFourPhase
  ReplaysTheWords
  StuckAckStops
  EventsAreOfThisRun
  StatsAddUp
