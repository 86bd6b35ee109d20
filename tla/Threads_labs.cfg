SPECIFICATION ThreadsSpec
CONSTANTS
  Thread = {t1, t2, t3, t4}
  NoThread = NoThread
  Rounds = 2
  MAX_STUDENTS = 3
  wild_party = 1
  Surely = 2
INVARIANTS WorkOnlyWhenReady InitsMatchDeinits BarrierInv RoomInv PartyIsOver
PROPERTIES BarrierPasses RoomTestsEnd
CHECK_DEADLOCK FALSE
