SPECIFICATION EmptySpec
CONSTANTS
  WordSize = 64
  ThreadWriteIndexModeIndex = 1
  BlockDefaultPerSize = 1
  Pushers = {p1}
  Poppers = {c1, c2}
  CCLockfreeQueueStartIndex = 0
  CirclePointNumber = 4
  MaxPush = 1
INVARIANTS
  EmptyIsHonest
\* Calls stop at MaxPush.
CHECK_DEADLOCK FALSE
