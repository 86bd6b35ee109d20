SPECIFICATION FairSpec
CONSTANTS
  BUFFER_SIZE = 3
  NR_ITERATIONS = 10
  Runs = 3
  MaxSpurious = 2
INVARIANTS
  LockInv
  ItemsConserved
  NoLostWakeup
PROPERTIES
  RunsEnd
CHECK_DEADLOCK FALSE
