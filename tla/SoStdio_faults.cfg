SPECIFICATION FairSpec
CONSTANTS
  BUFFER_SIZE = 2
  Byte = {0, 1}
  Uninit = Uninit
  Modes = {"r", "w+"}
  Ops = {"fgetc", "fwrite", "fread", "fseek", "fflush"}
  Whences = {"SEEK_SET"}
  Disciplined = TRUE
  FreadAnywhere = FALSE
  ShortReads = FALSE
  Faults = TRUE
  MaxRequest = 2
  MaxSize = 3
  Contents <- OneChunk
INVARIANTS
  FailureIsReported
PROPERTIES
  KeepsPromise
  CallsReturn
