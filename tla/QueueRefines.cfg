SPECIFICATION QueueSpec
CONSTANTS
  WordSize = 64
  ThreadWriteIndexModeIndex = 2
  BlockDefaultPerSize = 1
  Pushers = {p1, p2}
  Poppers = {c1, c2}
  CCLockfreeQueueStartIndex = 62
  CirclePointNumber = 4
  MaxPush = 3
INVARIANTS
  NeverOvertake
  SizeSane
PROPERTIES
  ImplementsMicroQueue
\* Calls stop at MaxPush.
CHECK_DEADLOCK FALSE
