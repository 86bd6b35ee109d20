SPECIFICATION Spec
CHECK_DEADLOCK FALSE
CONSTANTS
  Client = {c1, c2, c3}
  Service <- Services
  Short <- Shorts
  Unprintable = {"sq"}
  MaxCaches = 2
  MaxCalls = 1
  NULL = NULL
INVARIANTS TypeOK AnswersMatch OneCachePerService DownOnlyAfterRefusal
PROPERTIES CallsReturn
