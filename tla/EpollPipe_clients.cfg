SPECIFICATION Spec
CONSTANTS
  CLIENT_COUNT = 4
  MAGIC_MASK = 3
  Wide = 16
INVARIANTS
  ReadBeforeClosed
PROPERTIES
  ServerEnds
CHECK_DEADLOCK FALSE
