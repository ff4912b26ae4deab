CONSTANTS
  IndexBytes = 2
  CounterBytes = 3
  Node = {"a", "b"}
  Index = {255, 256, 65535}
  Counter = {1, 255, 256, 16777215}
  Respond = {"a", "b"}
  Known <- MCKnown
  MaxSends = 2
SPECIFICATION Spec
INVARIANT ActsOnWhatWasSent
PROPERTY Quiesces
CHECK_DEADLOCK FALSE
