SPECIFICATION Spec
CONSTANTS
  Consumers = {c1, c2}
  Blocks = {b1, b2, b3}
  nullptr = nullptr
  BLOCK_SIZE = 2
  MAX_SUBQUEUE_SIZE = 4
  MaxBulk = 3
  MaxElements = 5
  MaxOvercommit = 1
  MayThrow = TRUE
  EXPLICIT_INITIAL_INDEX_SIZE = 2
  IMPLICIT_INITIAL_INDEX_SIZE = 2
INVARIANTS ReadsOwn ClaimsBacked AssertionsHold BlocksAccounted DestroysWhatIsLeft
PROPERTIES ImplementsSubQueue
SYMMETRY Symmetry
CHECK_DEADLOCK FALSE
