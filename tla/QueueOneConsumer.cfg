SPECIFICATION EmptyFairSpec
CONSTANTS
  WordSize = 64
  ThreadWriteIndexModeIndex = 1
  BlockDefaultPerSize = 1
  Pushers = {p1, p2}
  Poppers = {c1}
  CCLockfreeQueueStartIndex = 0
  CirclePointNumber = 4
  MaxPush = 3
INVARIANTS
  EmptyIsHonest
PROPERTIES
  EveryPushDelivered
  PopReturns
\* Calls stop at MaxPush.
CHECK_DEADLOCK FALSE
