SPECIFICATION Spec
CONSTANTS
  Thread = {t1, t2}
  NoThread = NoThread
INVARIANTS InitOnce
CHECK_DEADLOCK FALSE
