CONSTANTS
  WordBits = 2
  NumWords = 3
  Counters <- MCCounters
SPECIFICATION Spec
INVARIANTS
  AcceptedAtMostOnce
  WindowExact
  LoopsComputeShiftWindow
PROPERTY ImplementsFilter
