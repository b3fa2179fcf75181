SPECIFICATION MCSpec
CONSTANTS
  Enqueuers = {t1, t2}
  Consumers = {c1, c2}
  INITIAL_IMPLICIT_PRODUCER_HASH_SIZE = 1
  EXPLICIT_CONSUMER_CONSUMPTION_QUOTA_BEFORE_ROTATE = 2
  MaxBulk = 2
  MaxElements = 3
  MaxProducers = 2
  MaxRaced = 2
INVARIANTS OneProducerPerThread TablesHaveRoom WakeupsOwed UnitsBacked
PROPERTIES ImplementsSemaphore
SYMMETRY Symmetry
CHECK_DEADLOCK FALSE
