SPECIFICATION TeamSpec
CONSTANTS
  WordSize = 64
  ThreadWriteIndexModeIndex = 1
  BlockDefaultPerSize = 1
  Pushers = {p1, p2}
  Poppers = {c1, c2}
  CCLockfreeQueueStartIndex = 60
  CirclePointNumber = 4
  MaxPush = 9
  MaxTeamPush = 6
INVARIANTS
  TypeOK
  DeliveredInOrder
  SlidOverRead
  LoneProducerSafe
  OneCloser
  SlotsSound
  Chained
  GrowerStores
  FreshCloseSafe
SYMMETRY Interchangeable
\* Calls stop at MaxPush.
CHECK_DEADLOCK FALSE
