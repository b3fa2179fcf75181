SPECIFICATION FairSpec
CONSTANTS
  WordSize = 64
  ThreadWriteIndexModeIndex = 1
  BlockDefaultPerSize = 1
  Pushers = {p1}
  Poppers = {c1}
  CCLockfreeQueueStartIndex = 0
  CirclePointNumber = 4
  MaxPush = 5
PROPERTIES
  PopReturns
\* Calls stop at MaxPush.
CHECK_DEADLOCK FALSE
