SPECIFICATION Spec
CONSTANTS
  BUFFER_SIZE = 3
  Byte = {0, 1}
  Uninit = Uninit
  Modes = {"r+", "a+"}
  Ops = {"fgetc", "fputc", "fflush", "fseek"}
  Whences = {"SEEK_SET", "SEEK_CUR", "SEEK_END"}
  Disciplined = TRUE
  FreadAnywhere = FALSE
  ShortReads = FALSE
  Faults = FALSE
  MaxRequest = 2
  MaxSize = 4
  Contents <- EmptyOrNot
INVARIANTS
  TypeOK
  BufferUsedInBounds
  WritesLandWherePut
  SizeCoversContent
PROPERTIES
  EofOnlyAtEnd
  KeepsPromise
