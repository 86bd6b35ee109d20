------------------------------ MODULE MCThreads ------------------------------
(***************************************************************************)
(* The three programs of the labs whose threads share a mutex, for model   *)
(* checking: one of them is run at a time.                                 *)
(***************************************************************************)
EXTENDS Once, Barrier, DormRoom

VARIABLE program   \* the program that is run: "once", "barrier" or "dorm"

programs == <<vars, barrier, party, program>>

Started == Init /\ CreateThresholdBarrier /\ EmptyRoom /\ program \in {"once", "barrier", "dorm"}

OnceStep   == program = "once" /\ Next /\ UNCHANGED <<barrier, party, program>>
RunBarrier(act) == program = "barrier" /\ act /\ UNCHANGED <<vars, party, program>>
RunRoom(act)    == program = "dorm" /\ act /\ UNCHANGED <<vars, barrier, program>>

\* The fairness of FairBarrier and FairRoom, for the program that is run.
ThreadsSpec ==
  /\ Started
  /\ [][OnceStep \/ RunBarrier(ThreadFunc) \/ RunRoom(RoomNext)]_programs
  /\ \A t \in Thread : WF_programs(RunBarrier(WaitThresholdBarrier(t)))
  /\ WF_programs(RunRoom(Main))
  /\ \A t \in Person : /\ SF_programs(RunRoom(TakeStud(t)))
                       /\ WF_programs(RunRoom(TakeDean(t) \/ Decision(t) \/ FreeStud(t)))

-----------------------------------------------------------------------------
\* barrier.c: AllPassInTime of the run of the barrier.
BarrierPasses == program = "barrier" => AllPassInTime

\* dorm_room.c: TestsEnd of the run of the room.
RoomTestsEnd == program = "dorm" => TestsEnd
=============================================================================
