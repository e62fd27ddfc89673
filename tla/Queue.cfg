SPECIFICATION Spec
CONSTANTS
  chunk_cap = 3
  MaxPush = 7
INVARIANTS FifoAndLifo
CHECK_DEADLOCK FALSE
