SPECIFICATION Spec
CONSTANTS
  Threads = {t1, t2}
  nullptr = nullptr
  SHOULD_BE_ON_FREELIST = 8
  InitialBlocks = 1
  Capacity = 1
  BASICQUEUE_MAX_ALLOCTIMES = 2
  BASICLOCFREEQUEUE_ALLOCMULTYTIMES = 1
  MaxCreate = 1
  MaxAdds = 3
  Blocks <- PoolBlocks
INVARIANTS NoNullPool
CHECK_DEADLOCK FALSE
