SPECIFICATION Spec
CONSTANTS
  TIMES_FAST = 4
  POW2SIZE = 4
  nTimes = 2
  nRepeatTimes = 2
  nMinThread = 2
  nMaxThread = 4
  MaxTicks = 2
  WaitSize = 1
  MaxPushTime = 5
INVARIANTS
  RoundsSucceed
  ReceiveInBounds
PROPERTIES
  BenchmarkEnds
\* main ends.
CHECK_DEADLOCK FALSE
