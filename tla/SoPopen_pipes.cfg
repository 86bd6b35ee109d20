SPECIFICATION Spec
CHECK_DEADLOCK FALSE
CONSTANTS
  Streams = 3
  PipeSize = 1
  Output = 2
PROPERTIES CallsReturn LifoCloses
