SPECIFICATION MCSpec
CONSTANTS
  Threads = {t1, t2, t3}
  nullptr = nullptr
  SHOULD_BE_ON_FREELIST = 16
  InitialBlocks = 1
  Capacity = 1
  BASICQUEUE_MAX_ALLOCTIMES = 2
  BASICLOCFREEQUEUE_ALLOCMULTYTIMES = 1
  MaxCreate = 1
  MaxAdds = 3
  MaxGrowAdds = 2
  Blocks <- PoolBlocks
INVARIANTS NoBlockLost RefsAccount
PROPERTIES GrownOnce ImplementsFreeBlocks
SYMMETRY Symmetry
CHECK_DEADLOCK FALSE
