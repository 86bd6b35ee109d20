---------------------------- MODULE ThreadProofs ----------------------------
(***************************************************************************)
(* The one-time initialisation and the threshold barrier, for any number   *)
(* of threads: nobody works without the one-time state, set-up and         *)
(* tear-down alternate; nobody leaves the barrier early in any number of   *)
(* rounds, although one counter and one event serve every round; the       *)
(* dormitory room stays consistent for any number of students, any size of *)
(* a wild party and any chance of the dean to start.                       *)
(***************************************************************************)
EXTENDS Once, Barrier, DormRoom, FiniteSetTheorems, TLAPS

-----------------------------------------------------------------------------
(* one_time_init and one_time_deinit *)

\* The threads refcount counts.
Counted == {t \in Thread : pc[t] \in {"unlock_init", "work", "deinit"}}

Inside == {"init", "count", "unlock_init", "deinit", "last", "unlock_deinit"}

MutexInv == \A t \in Thread : pc[t] \in Inside <=> mutex = t

CountInv == refcount = Cardinality(Counted)

\* The state is there while somebody is counted, from just before the first is
\* counted until just after the last is not.
ReadyInv == ready <=> (refcount > 0 \/ \E t \in Thread : pc[t] \in {"count", "last"})

AlternateInv == inits - deinits = IF ready THEN 1 ELSE 0

IInv == TypeOK /\ MutexInv /\ CountInv /\ ReadyInv /\ AlternateInv

-----------------------------------------------------------------------------
\* The threads that refcount counts are finitely many.
LEMMA CountedFinite == IsFiniteSet(Counted) /\ Cardinality(Counted) \in Nat
  BY ThreadAssumption, FS_Subset, FS_CardinalityType DEF Counted

\* Before the threads start nobody is counted and nothing was set up.
THEOREM InitIInv == Init => IInv
  <1> SUFFICES ASSUME Init PROVE IInv
    OBVIOUS
  <1> USE DEF Init
  <1>1. TypeOK
    BY DEF TypeOK, Steps
  <1>2. MutexInv
    BY ThreadAssumption DEF MutexInv, Inside
  <1>3. CountInv
    <2>1. Counted = {}
      BY DEF Counted
    <2> QED
      BY <2>1, FS_EmptySet DEF CountInv
  <1>4. ReadyInv /\ AlternateInv
    BY DEF ReadyInv, AlternateInv
  <1> QED
    BY <1>1, <1>2, <1>3, <1>4 DEF IInv

\* A step that keeps refcount keeps the set of threads it counts.
LEMMA SameCounted ==
  ASSUME IInv, NEW t \in Thread, Lock(t) \/ CallInit(t) \/ CallDeinit(t) \/ Unlock(t)
  PROVE  CountInv'
  <1>1. Counted' = Counted
    BY DEF IInv, TypeOK, Counted, Lock, CallInit, CallDeinit, Unlock, Goto
  <1>2. refcount' = refcount
    BY DEF Lock, CallInit, CallDeinit, Unlock
  <1> QED
    BY <1>1, <1>2 DEF IInv, CountInv

\* The mutex has one holder.
LEMMA LockKeeps == ASSUME IInv, NEW t \in Thread, Lock(t) PROVE IInv'
  <1> USE ThreadAssumption DEF IInv, Lock, Goto
  <1>1. TypeOK'
    BY DEF TypeOK, Steps
  <1>2. MutexInv'
    BY DEF TypeOK, MutexInv, Inside
  <1>3. CountInv'
    BY SameCounted
  <1>4. ReadyInv'
    BY DEF TypeOK, ReadyInv
  <1>5. AlternateInv'
    BY DEF AlternateInv
  <1> QED
    BY <1>1, <1>2, <1>3, <1>4, <1>5

\* init_func runs exactly when nobody is counted.
LEMMA CallInitKeeps == ASSUME IInv, NEW t \in Thread, CallInit(t) PROVE IInv'
  <1> USE DEF IInv, CallInit, Goto
  <1>1. TypeOK'
    BY DEF TypeOK, Steps
  <1>2. MutexInv'
    BY DEF TypeOK, MutexInv, Inside
  <1>3. CountInv'
    BY SameCounted
  <1>a. /\ refcount \in Nat /\ refcount' = refcount /\ pc'[t] = "count"
        /\ \A u \in Thread : pc[u] \notin {"count", "last"}
        /\ ready \in BOOLEAN /\ ready' \in BOOLEAN
    BY <1>1 DEF TypeOK, MutexInv, Inside
  <1>b. ready <=> refcount # 0
    BY <1>a DEF ReadyInv
  <1>c. ready'
    BY <1>b, Zenon
  <1>4. ReadyInv'
    BY <1>a, <1>c DEF ReadyInv
  <1>5. AlternateInv'
    <2>1. CASE refcount = 0
      <3>1. ~ready /\ inits' = inits + 1 /\ deinits' = deinits
        BY <1>b, <2>1
      <3> QED
        BY <1>c, <3>1 DEF TypeOK, AlternateInv
    <2>2. CASE refcount # 0
      BY <1>b, <1>c, <2>2 DEF AlternateInv
    <2> QED
      BY <2>1, <2>2
  <1> QED
    BY <1>1, <1>2, <1>3, <1>4, <1>5

\* refcount++ counts the thread.
LEMMA CountKeeps == ASSUME IInv, NEW t \in Thread, Count(t) PROVE IInv'
  <1> USE DEF IInv, Count, Goto
  <1>1. TypeOK'
    BY DEF TypeOK, Steps
  <1>2. MutexInv'
    BY DEF TypeOK, MutexInv, Inside
  <1>3. CountInv'
    <2>1. Counted' = Counted \cup {t} /\ t \notin Counted
      BY DEF TypeOK, Counted
    <2> QED
      BY <2>1, CountedFinite, FS_AddElement DEF CountInv
  <1>4. ReadyInv'
    BY DEF TypeOK, ReadyInv
  <1>5. AlternateInv'
    BY DEF AlternateInv
  <1> QED
    BY <1>1, <1>2, <1>3, <1>4, <1>5

\* refcount-- takes back the thread's own count.
LEMMA UncountKeeps == ASSUME IInv, NEW t \in Thread, Uncount(t) PROVE IInv'
  <1> USE DEF IInv, Uncount, Goto
  <1>0. /\ Counted' = Counted \ {t} /\ t \in Counted
        /\ Cardinality(Counted') = Cardinality(Counted) - 1
        /\ Cardinality(Counted') \in Nat
    <2>1. Counted' = Counted \ {t} /\ t \in Counted
      BY DEF TypeOK, Counted
    <2>2. Cardinality(Counted \ {t}) = Cardinality(Counted) - 1
      BY <2>1, CountedFinite, FS_RemoveElement
    <2>3. Cardinality(Counted \ {t}) \in Nat
      BY CountedFinite, FS_RemoveElement, FS_CardinalityType
    <2> QED
      BY <2>1, <2>2, <2>3
  <1>1. TypeOK'
    BY <1>0 DEF TypeOK, Steps, CountInv
  <1>2. MutexInv'
    BY DEF TypeOK, MutexInv, Inside
  <1>3. CountInv'
    BY <1>0 DEF CountInv
  <1>4. ReadyInv'
    <2>1. ready
      BY <1>0 DEF TypeOK, CountInv, ReadyInv
    <2> QED
      BY <2>1 DEF TypeOK, ReadyInv
  <1>5. AlternateInv'
    BY DEF AlternateInv
  <1> QED
    BY <1>1, <1>2, <1>3, <1>4, <1>5

\* deinit_func runs exactly when the last count was taken back.
LEMMA CallDeinitKeeps == ASSUME IInv, NEW t \in Thread, CallDeinit(t) PROVE IInv'
  <1> USE DEF IInv, CallDeinit, Goto
  <1>1. TypeOK'
    BY DEF TypeOK, Steps
  <1>2. MutexInv'
    BY DEF TypeOK, MutexInv, Inside
  <1>3. CountInv'
    BY SameCounted
  <1>a. /\ refcount \in Nat /\ refcount' = refcount
        /\ \A u \in Thread : pc'[u] \notin {"count", "last"}
        /\ ready \in BOOLEAN /\ ready' \in BOOLEAN
    BY <1>1 DEF TypeOK, MutexInv, Inside
  <1>b. ready
    BY DEF ReadyInv
  <1>c. ready' <=> refcount # 0
    BY <1>b, Zenon
  <1>4. ReadyInv'
    BY <1>a, <1>c DEF ReadyInv
  <1>5. AlternateInv'
    <2>1. CASE refcount = 0
      <3>1. ~ready' /\ deinits' = deinits + 1 /\ inits' = inits
        BY <1>c, <2>1
      <3> QED
        BY <1>b, <3>1 DEF TypeOK, AlternateInv
    <2>2. CASE refcount # 0
      BY <1>b, <1>c, <2>2 DEF AlternateInv
    <2> QED
      BY <2>1, <2>2
  <1> QED
    BY <1>1, <1>2, <1>3, <1>4, <1>5

\* The mutex is given back by the thread that has it.
LEMMA UnlockKeeps == ASSUME IInv, NEW t \in Thread, Unlock(t) PROVE IInv'
  <1> USE ThreadAssumption DEF IInv, Unlock, Goto
  <1>1. TypeOK'
    BY DEF TypeOK, Steps
  <1>2. MutexInv'
    BY DEF TypeOK, MutexInv, Inside
  <1>3. CountInv'
    BY SameCounted
  <1>4. ReadyInv'
    BY DEF TypeOK, ReadyInv
  <1>5. AlternateInv'
    BY DEF AlternateInv
  <1> QED
    BY <1>1, <1>2, <1>3, <1>4, <1>5

-----------------------------------------------------------------------------
\* Every step of every thread keeps the invariant.
THEOREM StepKeepsIInv == IInv /\ [Next]_vars => IInv'
  <1>1. ASSUME IInv, Next PROVE IInv'
    BY <1>1, LockKeeps, CallInitKeeps, CountKeeps, UncountKeeps, CallDeinitKeeps, UnlockKeeps
       DEF Next
  <1>2. ASSUME IInv, UNCHANGED vars PROVE IInv'
    BY <1>2 DEF IInv, vars, TypeOK, MutexInv, CountInv, Counted, ReadyInv, AlternateInv
  <1> QED
    BY <1>1, <1>2

\* thread_work never runs before init_func or after deinit_func.
THEOREM WorkIsSafe == Spec => []WorkOnlyWhenReady
  <1>1. ASSUME IInv PROVE WorkOnlyWhenReady
    <2>1. SUFFICES ASSUME NEW t \in Counted PROVE ready
      BY DEF WorkOnlyWhenReady, Counted
    <2>2. Cardinality(Counted) # 0
      BY CountedFinite, FS_EmptySet
    <2> QED
      BY <1>1, <2>2, CountedFinite DEF IInv, CountInv, ReadyInv
  <1> QED
    BY <1>1, InitIInv, StepKeepsIInv, PTL DEF Spec

\* init_func and deinit_func alternate, and the last thread tears down.
THEOREM InitsAlternate == Spec => []InitsMatchDeinits
  <1>1. ASSUME IInv PROVE InitsMatchDeinits
    <2>1. ASSUME \A t \in Thread : pc[t] = "end" PROVE ~ready
      <3>1. Counted = {}
        BY <2>1 DEF Counted
      <3>2. refcount = 0
        BY <1>1, <3>1, FS_EmptySet DEF IInv, CountInv
      <3> QED
        BY <1>1, <2>1, <3>2 DEF IInv, ReadyInv
    <2> QED
      BY <1>1, <2>1 DEF IInv, AlternateInv, InitsMatchDeinits
  <1> QED
    BY <1>1, InitIInv, StepKeepsIInv, PTL DEF Spec

-----------------------------------------------------------------------------
(* The barrier *)

AtBarrier == {"signal", "towait", "wait", "pulse"}

\* hGuard protects dwCount from the arrival to the release.
GuardInv ==
  /\ \A t \in Thread : at[t] \in {"arrive", "signal", "pulse", "release"} => hGuard = t
  /\ \A t \in Thread : at[t] # "work" => passed[t] < Rounds

\* The threads dwCount counts in the round after r pulses.
Held(r) == {t \in Thread : at[t] \in AtBarrier /\ passed[t] = r}

\* After r pulses a thread outside the barrier has passed it r times, or is leaving
\* round r.  A thread at the barrier is held in the round after, or has missed a
\* pulse; then no later pulse comes, because dwCount never counts it again.
RoundInv(r) ==
  /\ dwCount = Cardinality(Held(r))
  /\ \A t \in Thread :
       /\ at[t] \in {"work", "arrive"} => passed[t] = r
       /\ at[t] \in {"release", "leave"} => passed[t] + 1 = r
       /\ at[t] \in AtBarrier => passed[t] = r \/ passed[t] + 1 = r
       /\ at[t] = "pulse" => dwCount = dwThreshold

BarrierIInv == BarrierTypeOK /\ GuardInv /\ \E r \in Nat : RoundInv(r)

-----------------------------------------------------------------------------
\* The threads held are finitely many, and all of them when as many as there are.
LEMMA HeldFinite ==
  ASSUME NEW r
  PROVE  /\ IsFiniteSet(Held(r)) /\ Cardinality(Held(r)) \in Nat
         /\ dwThreshold \in Nat /\ Cardinality(Held(r)) <= dwThreshold
         /\ Cardinality(Held(r)) = dwThreshold => Held(r) = Thread
  <1>1. Held(r) \in SUBSET Thread
    BY DEF Held
  <1> QED
    BY <1>1, ThreadAssumption, FS_Subset, FS_CardinalityType DEF dwThreshold

\* At the start no thread has reached the barrier.
THEOREM InitBarrierIInv == ASSUME CreateThresholdBarrier PROVE BarrierIInv
  <1> USE DEF CreateThresholdBarrier
  <1>1. BarrierTypeOK
    BY ThreadAssumption, BarrierAssumption, HeldFinite DEF BarrierTypeOK
  <1>2. GuardInv
    BY DEF GuardInv
  <1>3. RoundInv(0)
    <2>1. Held(0) = {}
      BY DEF Held, AtBarrier
    <2> QED
      BY <2>1, FS_EmptySet DEF RoundInv, AtBarrier
  <1> QED
    BY <1>1, <1>2, <1>3 DEF BarrierIInv

\* Entering and waiting leave who is held as it is.
LEMMA StayKeeps ==
  ASSUME BarrierIInv, NEW t \in Thread,
         Enter(t) \/ SignalObject(t) \/ StartWaiting(t) \/ ReleaseGuard(t)
  PROVE  BarrierIInv'
  <1> USE DEF BarrierIInv, Enter, SignalObject, StartWaiting, ReleaseGuard
  <1>1. BarrierTypeOK'
    BY DEF BarrierTypeOK
  <1>2. GuardInv'
    BY ThreadAssumption, BarrierAssumption DEF BarrierTypeOK, GuardInv
  <1>3. PICK r \in Nat : RoundInv(r)
    OBVIOUS
  <1>4. Held(r)' = Held(r)
    BY DEF BarrierTypeOK, Held, AtBarrier
  <1>5. RoundInv(r)'
    BY <1>3, <1>4 DEF BarrierTypeOK, RoundInv, AtBarrier
  <1> QED
    BY <1>1, <1>2, <1>5

\* A thread that arrives is counted once; the last one to be counted pulses.
LEMMA ArriveKeeps == ASSUME BarrierIInv, NEW t \in Thread, Arrive(t) PROVE BarrierIInv'
  <1> USE DEF BarrierIInv, Arrive
  <1>1. PICK r \in Nat : RoundInv(r)
    OBVIOUS
  <1>2. at'[t] \in {"signal", "pulse"} /\ at' = [at EXCEPT ![t] = at'[t]] /\ at[t] = "arrive"
    BY DEF BarrierTypeOK
  <1>3. Held(r)' = Held(r) \cup {t} /\ t \notin Held(r)
    BY <1>1, <1>2 DEF BarrierTypeOK, Held, RoundInv, AtBarrier
  <1>4. /\ dwCount' = Cardinality(Held(r)') /\ dwCount' \in 0..dwThreshold
        /\ dwThreshold \in Nat /\ dwCount' = dwCount + 1
    <2>1. Cardinality(Held(r) \cup {t}) = Cardinality(Held(r)) + 1
      BY <1>3, HeldFinite, FS_AddElement
    <2>2. Cardinality(Held(r)) # dwThreshold
      BY <1>3, HeldFinite
    <2> QED
      BY <1>1, <1>3, <2>1, <2>2, HeldFinite DEF RoundInv
  <1>5. at'[t] = "pulse" => dwCount' = dwThreshold
    BY <1>4 DEF BarrierTypeOK
  <1>6. \A u \in Thread : at[u] # "pulse"
    BY <1>2 DEF GuardInv
  <1>7. BarrierTypeOK'
    BY <1>2, <1>4 DEF BarrierTypeOK
  <1>8. GuardInv'
    BY <1>2 DEF BarrierTypeOK, GuardInv
  <1>9. RoundInv(r)'
    BY <1>1, <1>2, <1>4, <1>5, <1>6 DEF BarrierTypeOK, RoundInv, AtBarrier, dwThreshold
  <1> QED
    BY <1>7, <1>8, <1>9

\* A pulse comes when every thread is held: those that wait leave the round, and
\* nobody is held in the next.
LEMMA PulseKeeps == ASSUME BarrierIInv, NEW t \in Thread, Pulse(t) PROVE BarrierIInv'
  <1> USE DEF BarrierIInv, Pulse
  <1>1. PICK r \in Nat : RoundInv(r)
    OBVIOUS
  <1>2. Held(r) = Thread
    BY <1>1, HeldFinite DEF RoundInv
  <1>3. \A u \in Thread : at[u] \in AtBarrier /\ passed[u] = r
    BY <1>2 DEF Held
  <1>4. BarrierTypeOK'
    BY HeldFinite DEF BarrierTypeOK
  <1>5. GuardInv'
    BY DEF GuardInv
  <1>6. RoundInv(r + 1)'
    <2>1. \A u \in Thread : at'[u] \in AtBarrier \cup {"release", "leave"} /\ passed'[u] = r
      BY <1>3 DEF AtBarrier
    <2>2. Held(r + 1)' = {}
      BY <2>1 DEF Held
    <2>3. \A u \in Thread : at'[u] # "pulse"
      BY DEF GuardInv
    <2> QED
      BY <2>1, <2>2, <2>3, FS_EmptySet DEF RoundInv, AtBarrier
  <1> QED
    BY <1>4, <1>5, <1>6

\* Leaving ends the thread's part in the round.
LEMMA LeaveKeeps == ASSUME BarrierIInv, NEW t \in Thread, Leave(t) PROVE BarrierIInv'
  <1> USE DEF BarrierIInv, Leave
  <1>1. BarrierTypeOK'
    BY ThreadAssumption, BarrierAssumption DEF BarrierTypeOK, GuardInv
  <1>2. GuardInv'
    BY DEF BarrierTypeOK, GuardInv
  <1>3. PICK r \in Nat : RoundInv(r)
    OBVIOUS
  <1>4. Held(r)' = Held(r)
    BY DEF BarrierTypeOK, Held, AtBarrier
  <1>5. RoundInv(r)'
    BY <1>3, <1>4 DEF BarrierTypeOK, RoundInv, AtBarrier
  <1> QED
    BY <1>1, <1>2, <1>5

-----------------------------------------------------------------------------
\* Every step of every thread keeps the invariant.
THEOREM StepKeepsBarrierIInv == BarrierIInv /\ [ThreadFunc]_barrier => BarrierIInv'
  <1>1. ASSUME BarrierIInv, ThreadFunc PROVE BarrierIInv'
    BY <1>1, StayKeeps, ArriveKeeps, PulseKeeps, LeaveKeeps DEF ThreadFunc, WaitThresholdBarrier
  <1>2. ASSUME BarrierIInv, UNCHANGED barrier PROVE BarrierIInv'
    BY <1>2 DEF BarrierIInv, barrier, BarrierTypeOK, GuardInv, RoundInv, Held
  <1> QED
    BY <1>1, <1>2

\* No thread leaves a round before every thread has reached it, and dwCount counts
\* only threads that are held at the barrier.
THEOREM RoundsKeptApart == BarrierSpec => []BarrierInv
  <1>1. ASSUME BarrierIInv PROVE BarrierInv
    <2>1. PICK r \in Nat : RoundInv(r)
      BY <1>1 DEF BarrierIInv
    <2>2. CountIsHeld
      <3> DEFINE H == {t \in Thread : at[t] \in AtBarrier}
      <3>1. Held(r) \in SUBSET H /\ H \in SUBSET Thread
        BY DEF Held
      <3>2. IsFiniteSet(H)
        BY <3>1, ThreadAssumption, FS_Subset
      <3>3. Cardinality(Held(r)) <= Cardinality(H)
        BY <3>1, <3>2, FS_Subset
      <3> QED
        BY <2>1, <3>3 DEF RoundInv, CountIsHeld, AtBarrier
    <2>3. NobodyLeavesEarly
      <3>1. ASSUME NEW t \in Thread
            PROVE  /\ passed[t] \in Nat /\ Arrived(t) \in Nat /\ Arrived(t) >= r
                   /\ passed[t] + (IF at[t] \in {"release", "leave"} THEN 1 ELSE 0) <= r
        BY <1>1, <2>1 DEF BarrierIInv, BarrierTypeOK, RoundInv, AtBarrier, Arrived
      <3> QED
        BY <3>1 DEF NobodyLeavesEarly
    <2> QED
      BY <1>1, <2>2, <2>3 DEF BarrierIInv, BarrierInv
  <1> QED
    BY <1>1, InitBarrierIInv, StepKeepsBarrierIInv, PTL DEF BarrierSpec

-----------------------------------------------------------------------------
(* The dormitory room *)

\* Both mutexes have one holder; a thread that was not created has none of them.
LockInv ==
  \A t \in Person :
    /\ doing[t][2] # "sleep" <=> stud_mutex = t
    /\ doing[t][2] = "both" <=> dean_mutex = t
    /\ doing[t][1] = "none" => doing[t][2] = "sleep"

PartyOf(p) == {s \in Student : p[s][1] = "party"}

\* Once the dean clears the room he stays in it, so nobody else comes.
DeanInv ==
  /\ \A s \in Student : doing[s][1] \notin {"look", "clear"}
  /\ doing[Dean][1] \notin {"enter", "party"}
  /\ doing[Dean][1] \in {"clear", "end"} => dean_in_room = 1
  /\ doing[Dean][1] = "end" => students_at_party = 0

\* How many student threads the test has created: the start of the dean repeats an
\* index in test2.
Started == idx + (IF test = 2 /\ dean_started THEN 1 ELSE 0)

\* Student threads are created in order, and test1 keeps every handle.
StartInv ==
  /\ \A s \in Student : doing[s][1] = "none" <=> s >= Started
  /\ doing[Dean][1] = "none" <=> ~dean_started
  /\ test = 1 => \A j \in 0..idx-1 : hStudent[j] = j
  /\ main # "start" => idx = MAX_STUDENTS
  /\ main = "clean" => test = 1
  /\ main = "exit" => test = 2

\* When the room is cleaned for test2 no thread of test1 is left.
CleanInv ==
  main = "clean" =>
    \A t \in Person : doing[t][1] \in {"none", "end"} /\ doing[t][2] = "sleep"

RoomIInv ==
  /\ RoomTypeOK /\ LockInv /\ CountIsParty /\ DeanInv
  /\ StartInv /\ CleanInv /\ OnlyOverwrittenLeft

-----------------------------------------------------------------------------
Place == (Loops \cup {"none"}) \X {"sleep", "one", "both", "left"}

\* The students at the party are finitely many, at most the threads there are.
LEMMA PartyFinite ==
  ASSUME NEW p
  PROVE  /\ IsFiniteSet(PartyOf(p)) /\ Cardinality(PartyOf(p)) \in 0..MAX_STUDENTS+1
         /\ Cardinality(PartyOf(p)) = 0 <=> PartyOf(p) = {}
  <1>1. IsFiniteSet(Student) /\ Cardinality(Student) = MAX_STUDENTS + 1
    BY DormRoomAssumption, FS_Interval DEF Student
  <1>2. PartyOf(p) \in SUBSET Student
    BY DEF PartyOf
  <1>3. /\ IsFiniteSet(PartyOf(p)) /\ Cardinality(PartyOf(p)) \in Nat
        /\ Cardinality(PartyOf(p)) <= MAX_STUDENTS + 1
    BY <1>1, <1>2, FS_Subset, FS_CardinalityType
  <1> QED
    BY <1>3, DormRoomAssumption, FS_EmptySet

\* The tests begin with an empty room and no thread.
THEOREM EmptyRoomIInv == EmptyRoom => RoomIInv
  <1> SUFFICES ASSUME EmptyRoom PROVE RoomIInv
    OBVIOUS
  <1> USE DormRoomAssumption DEF EmptyRoom
  <1>1. RoomTypeOK
    <2>1. <<"none", "sleep">> \in (Loops \cup {"none"}) \X {"sleep", "one", "both", "left"}
      OBVIOUS
    <2>2. [t \in Person |-> <<"none", "sleep">>]
            \in [Person -> (Loops \cup {"none"}) \X {"sleep", "one", "both", "left"}]
      BY <2>1
    <2> QED
      <3>1. hStudent \in [0..MAX_STUDENTS-1 -> Student \cup {-1}]
        OBVIOUS
      <3>2. students_at_party \in 0..MAX_STUDENTS+1 /\ idx \in 0..MAX_STUDENTS
        OBVIOUS
      <3>3. /\ dean_in_room \in {0, 1} /\ dean_started \in BOOLEAN /\ test \in {1, 2}
            /\ main \in {"start", "wait", "clean", "exit"}
            /\ stud_mutex \in Person \cup {Free} /\ dean_mutex \in Person \cup {Free}
        OBVIOUS
      <3> QED
        BY <2>2, <3>1, <3>2, <3>3 DEF RoomTypeOK
  <1>2. LockInv
    BY DEF LockInv, Person, Student, Dean, Free
  <1>3. CountIsParty
    <2>1. {s \in Student : doing[s][1] = "party"} = {}
      BY DEF Person
    <2> QED
      BY <2>1, FS_EmptySet DEF CountIsParty
  <1>4. DeanInv /\ StartInv /\ CleanInv /\ OnlyOverwrittenLeft
    BY DEF DeanInv, StartInv, CleanInv, OnlyOverwrittenLeft, Started, Person, Student, Dean
  <1> QED
    BY <1>1, <1>2, <1>3, <1>4 DEF RoomIInv

-----------------------------------------------------------------------------
\* Taking and releasing the mutexes moves no thread from its loop.
LEMMA MutexKeeps ==
  ASSUME RoomIInv, NEW t \in Person, TakeStud(t) \/ TakeDean(t) \/ FreeStud(t)
  PROVE  RoomIInv'
  <1> USE DEF RoomIInv, TakeStud, TakeDean, FreeStud, room, tests
  <1>0. doing \in [Person -> Place] /\ t # Free /\ Free \notin Person
    BY DormRoomAssumption DEF RoomTypeOK, Place, Person, Student, Dean, Free
  <1>1. PICK l \in {"sleep", "one", "both"} :
          /\ doing' = [doing EXCEPT ![t][2] = l]
          /\ l = "one" => doing[t][2] = "sleep" /\ doing[t][1] # "none"
          /\ l = "both" => doing[t][2] = "one"
          /\ l = "sleep" => doing[t][2] = "left"
          /\ doing[t][1] # "end" \/ doing[t][2] # "sleep"
    OBVIOUS
  <1>2. /\ doing' \in [Person -> Place] /\ doing'[t][1] = doing[t][1] /\ doing'[t][2] = l
        /\ \A u \in Person \ {t} : doing'[u] = doing[u]
    <2>1. [doing[t] EXCEPT ![2] = l] = <<doing[t][1], l>> /\ <<doing[t][1], l>> \in Place
      BY <1>0 DEF Place
    <2>2. doing'[t] = [doing[t] EXCEPT ![2] = l] /\ \A u \in Person \ {t} : doing'[u] = doing[u]
      BY <1>0, <1>1
    <2>3. doing' \in [Person -> Place]
      BY <1>0, <1>1, <2>1, <2>2
    <2> QED
      BY <2>1, <2>2, <2>3
  <1>3. \A u \in Person : doing'[u][1] = doing[u][1]
    BY <1>2
  <1>4. RoomTypeOK'
    BY <1>2 DEF RoomTypeOK, Place
  <1>5. LockInv'
    BY <1>0, <1>1, <1>2 DEF RoomTypeOK, LockInv
  <1>6. CountIsParty'
    <2>1. PartyOf(doing') = PartyOf(doing)
      BY <1>3 DEF PartyOf, Person
    <2> QED
      BY <2>1 DEF CountIsParty, PartyOf
  <1>7. DeanInv'
    BY <1>3 DEF DeanInv, Person
  <1>8. StartInv'
    BY <1>3 DEF StartInv, Started, Person
  <1>9. CleanInv'
    BY <1>1, <1>2 DEF CleanInv, LockInv
  <1>10. OnlyOverwrittenLeft'
    BY <1>3 DEF OnlyOverwrittenLeft, Person
  <1> QED
    BY <1>4, <1>5, <1>6, <1>7, <1>8, <1>9, <1>10

\* What a decision does to the mutexes, whatever it is.
LEMMA DecideKeeps ==
  ASSUME RoomIInv, NEW t \in Person, NEW next \in Loops, Decide(t, next), doing[t][1] # "none"
  PROVE  /\ doing' \in [Person -> Place] /\ doing'[t] = <<next, "left">>
         /\ doing'[t][1] = next /\ doing[t][2] = "both"
         /\ \A u \in Person \ {t} : doing'[u] = doing[u]
         /\ LockInv' /\ CleanInv' /\ StartInv'
  <1> USE DEF RoomIInv, Decide, tests
  <1>0. doing \in [Person -> Place] /\ Free \notin Person
    BY DormRoomAssumption DEF RoomTypeOK, Place, Person, Student, Dean, Free
  <1>1. /\ <<next, "left">> \in Place
    BY DEF Place
  <1>2. /\ doing' \in [Person -> Place] /\ doing'[t] = <<next, "left">> /\ doing[t][2] = "both"
        /\ doing'[t][1] = next /\ doing'[t][2] = "left"
        /\ \A u \in Person \ {t} : doing'[u] = doing[u]
    BY <1>0, <1>1
  <1>3. LockInv'
    BY <1>0, <1>2 DEF LockInv, Loops
  <1>4. CleanInv'
    BY <1>2 DEF CleanInv
  <1>5. StartInv'
    BY <1>2 DEF StartInv, Started, Person, Loops
  <1> QED
    BY <1>2, <1>3, <1>4, <1>5

\* A student enters only a room without the dean, and is counted.
LEMMA EnterRoomKeeps == ASSUME RoomIInv, NEW s \in Student, EnterRoom(s) PROVE RoomIInv'
  <1> USE DEF RoomIInv, EnterRoom
  <1>1. PICK next \in {"party", "end"} :
          /\ Decide(s, next)
          /\ next = "party" <=> dean_in_room = 0
    OBVIOUS
  <1>2. /\ next \in Loops /\ s \in Person /\ s # Dean /\ doing[s][1] = "enter"
    BY DormRoomAssumption DEF Loops, Person, Student, Dean
  <1>3. /\ doing' \in [Person -> Place] /\ doing'[s][1] = next /\ LockInv' /\ CleanInv' /\ StartInv'
        /\ \A u \in Person \ {s} : doing'[u] = doing[u]
    BY <1>1, <1>2, DecideKeeps
  <1>4. PartyOf(doing') = IF next = "party" THEN PartyOf(doing) \cup {s} ELSE PartyOf(doing)
    BY <1>2, <1>3 DEF PartyOf, Person
  <1>5. students_at_party' = Cardinality(PartyOf(doing'))
    <2>1. s \notin PartyOf(doing)
      BY <1>2 DEF PartyOf
    <2>2. students_at_party = Cardinality(PartyOf(doing))
      BY DEF CountIsParty, PartyOf
    <2>3. Cardinality(PartyOf(doing) \cup {s}) = Cardinality(PartyOf(doing)) + 1
      BY <2>1, PartyFinite, FS_AddElement
    <2>4. students_at_party' = students_at_party + (IF next = "party" THEN 1 ELSE 0)
      BY <1>1
    <2> QED
      BY <1>4, <2>2, <2>3, <2>4, PartyFinite
  <1>6. CountIsParty' /\ students_at_party' \in 0..MAX_STUDENTS+1
    BY <1>5, PartyFinite DEF CountIsParty, PartyOf
  <1>7. RoomTypeOK'
    BY <1>3, <1>6 DEF RoomTypeOK, Place, Decide, tests
  <1>8. DeanInv'
    BY <1>1, <1>2, <1>3 DEF DeanInv, Person, Decide
  <1>9. OnlyOverwrittenLeft'
    BY <1>1, <1>2, <1>3 DEF OnlyOverwrittenLeft, Decide, tests, Person
  <1> QED
    BY <1>3, <1>6, <1>7, <1>8, <1>9

\* A student that leaves is counted out once.
LEMMA PartyKeeps == ASSUME RoomIInv, NEW s \in Student, Party(s) PROVE RoomIInv'
  <1> USE DEF RoomIInv, Party
  <1>1. PICK next \in {"party", "end"} :
          /\ Decide(s, next)
          /\ next = "end" <=> dean_in_room # 0
    OBVIOUS
  <1>2. /\ next \in Loops /\ s \in Person /\ s # Dean /\ doing[s][1] = "party"
    BY DormRoomAssumption DEF Loops, Person, Student, Dean
  <1>3. /\ doing' \in [Person -> Place] /\ doing'[s][1] = next /\ LockInv' /\ CleanInv' /\ StartInv'
        /\ \A u \in Person \ {s} : doing'[u] = doing[u]
    BY <1>1, <1>2, DecideKeeps
  <1>4. PartyOf(doing') = IF next = "end" THEN PartyOf(doing) \ {s} ELSE PartyOf(doing)
    BY <1>2, <1>3 DEF PartyOf, Person
  <1>5. students_at_party' = Cardinality(PartyOf(doing')) /\ students_at_party > 0
    <2>1. s \in PartyOf(doing)
      BY <1>2 DEF PartyOf
    <2>2. students_at_party = Cardinality(PartyOf(doing))
      BY DEF CountIsParty, PartyOf
    <2>3. Cardinality(PartyOf(doing) \ {s}) = Cardinality(PartyOf(doing)) - 1
      BY <2>1, PartyFinite, FS_RemoveElement
    <2>4. students_at_party' = students_at_party - (IF next = "end" THEN 1 ELSE 0)
      BY <1>1
    <2>5. Cardinality(PartyOf(doing)) # 0
      BY <2>1, PartyFinite
    <2> QED
      BY <1>4, <2>2, <2>3, <2>4, <2>5, PartyFinite
  <1>6. CountIsParty' /\ students_at_party' \in 0..MAX_STUDENTS+1
    BY <1>5, PartyFinite DEF CountIsParty, PartyOf
  <1>7. RoomTypeOK'
    BY <1>3, <1>6 DEF RoomTypeOK, Place, Decide, tests
  <1>8. DeanInv'
    BY <1>1, <1>2, <1>3, <1>5 DEF DeanInv, Person, Decide
  <1>9. OnlyOverwrittenLeft'
    BY <1>1, <1>2, <1>3 DEF OnlyOverwrittenLeft, Decide, tests, Person
  <1> QED
    BY <1>3, <1>6, <1>7, <1>8, <1>9

\* The dean's decisions change nobody's count; he ends when he sees nobody.
LEMMA DeanKeeps == ASSUME RoomIInv, BreakParty \/ PartyOver PROVE RoomIInv'
  <1> USE DEF RoomIInv, BreakParty, PartyOver, room
  <1>1. PICK next \in {"look", "clear", "end"} :
          /\ Decide(Dean, next)
          /\ next \in {"clear", "end"} =>
               dean_in_room' = 1 \/ (doing[Dean][1] = "clear" /\ dean_in_room' = dean_in_room)
          /\ next = "end" => students_at_party = 0
    OBVIOUS
  <1>2. /\ next \in Loops /\ Dean \in Person /\ Dean \notin Student
        /\ doing[Dean][1] \in {"look", "clear"}
        /\ students_at_party' = students_at_party /\ dean_in_room' \in {dean_in_room, 1}
    BY DormRoomAssumption DEF Loops, Person, Student, Dean
  <1>3. /\ doing' \in [Person -> Place] /\ doing'[Dean][1] = next
        /\ LockInv' /\ CleanInv' /\ StartInv'
        /\ \A u \in Person \ {Dean} : doing'[u] = doing[u]
    BY <1>1, <1>2, DecideKeeps
  <1>4. \A s \in Student : doing'[s] = doing[s]
    BY <1>2, <1>3 DEF Person
  <1>5. CountIsParty'
    <2>1. PartyOf(doing') = PartyOf(doing)
      BY <1>4 DEF PartyOf
    <2> QED
      BY <1>2, <2>1 DEF CountIsParty, PartyOf
  <1>6. RoomTypeOK'
    BY <1>1, <1>2, <1>3 DEF RoomTypeOK, Place, Decide, tests
  <1>7. DeanInv'
    BY <1>1, <1>2, <1>3, <1>4 DEF DeanInv
  <1>8. OnlyOverwrittenLeft'
    BY <1>1, <1>4 DEF OnlyOverwrittenLeft, Decide, tests
  <1> QED
    BY <1>3, <1>5, <1>6, <1>7, <1>8

-----------------------------------------------------------------------------
\* The next student thread is the one after those created.
LEMMA CreatedIsStarted ==
  ASSUME RoomIInv, main = "start", idx < MAX_STUDENTS
  PROVE  Created = Started /\ Started \in Student
  <1>1. Started \in 0..MAX_STUDENTS
    BY DormRoomAssumption DEF RoomIInv, RoomTypeOK, Started
  <1>2. {s \in Student : doing[s][1] # "none"} = 0..Started-1
    BY <1>1, DormRoomAssumption DEF RoomIInv, StartInv, Student
  <1>3. Cardinality(0..Started-1) = Started
    BY <1>1, FS_Interval
  <1> QED
    BY <1>1, <1>2, <1>3 DEF Created, Student

\* A new thread takes the place of the first that was not created, and with it the
\* dean may start.
LEMMA StartStudentKeeps == ASSUME RoomIInv, NEW d \in BOOLEAN, StartStudent(d) PROVE RoomIInv'
  <1> DEFINE new == Started
  <1> USE DEF RoomIInv, StartStudent, room, locks
  <1>1. /\ Created = new /\ new \in Student /\ new \in Person /\ new # Dean /\ Dean \in Person
        /\ Dean \notin Student /\ new \in Int /\ new >= Started
    BY CreatedIsStarted, DormRoomAssumption DEF Person, Student, Dean
  <1>2. doing[new][1] = "none" /\ doing[new][2] = "sleep"
    BY <1>1 DEF StartInv, LockInv
  <1>3. d => ~dean_started /\ test = 2 /\ doing[Dean][1] = "none" /\ doing[Dean][2] = "sleep"
    BY <1>1 DEF StartInv, LockInv, RoomTypeOK
  <1>a. <<"enter", "sleep">> \in Place /\ <<"look", "sleep">> \in Place
    BY DEF Place, Loops
  <1>4. /\ doing' \in [Person -> Place]
        /\ doing'[new] = <<"enter", "sleep">>
        /\ doing'[Dean] = IF d THEN <<"look", "sleep">> ELSE doing[Dean]
        /\ \A u \in Person \ {new, Dean} : doing'[u] = doing[u]
    <2>1. doing \in [Person -> Place]
      BY DEF RoomTypeOK, Place
    <2>2. doing' = [doing EXCEPT ![new] = <<"enter", "sleep">>,
                           ![Dean] = IF d THEN <<"look", "sleep">> ELSE @]
      BY <1>1
    <2> HIDE DEF new
    <2> QED
      BY <1>1, <1>a, <2>1, <2>2
  <1>5. Started' = new + 1
    BY <1>3 DEF Started, RoomTypeOK
  <1>6. RoomTypeOK'
    <2>1. hStudent' \in [0..MAX_STUDENTS-1 -> Student \cup {-1}] /\ idx' \in 0..MAX_STUDENTS
      BY <1>1, DormRoomAssumption DEF RoomTypeOK
    <2> QED
      BY <1>4, <2>1 DEF RoomTypeOK, Place
  <1>7. LockInv'
    BY <1>1, <1>2, <1>3, <1>4 DEF LockInv
  <1>8. CountIsParty'
    <2>1. PartyOf(doing') = PartyOf(doing)
      BY <1>1, <1>2, <1>4 DEF PartyOf, Person
    <2> QED
      BY <2>1 DEF CountIsParty, PartyOf
  <1>9. DeanInv'
    BY <1>1, <1>4 DEF DeanInv, Person
  <1>10. StartInv'
    <2>1. \A s \in Student : doing'[s][1] = "none" <=> s >= Started'
      <3>1. \A s \in Student : s \in Int /\ new \in Int
        BY <1>1 DEF Student
      <3>2. \A s \in Student \ {new} : doing'[s][1] = "none" <=> s >= new
        BY <1>1, <1>4 DEF StartInv, Person
      <3>3. ASSUME NEW s \in Student \ {new} PROVE s >= new <=> s >= new + 1
        <4> HIDE DEF new
        <4> QED
          BY <3>1, <3>3
      <3>4. doing'[new][1] # "none" /\ ~(new >= new + 1)
        BY <1>1, <1>4
      <3> HIDE DEF new
      <3> QED
        BY <1>5, <3>2, <3>3, <3>4
    <2>2. doing'[Dean][1] = "none" <=> ~dean_started'
      BY <1>4 DEF StartInv, RoomTypeOK
    <2>3. test' = 1 => \A j \in 0..idx'-1 : hStudent'[j] = j
      <3>1. test = 1 => ~d /\ new = idx
        BY <1>3 DEF Started, RoomTypeOK
      <3>2. ASSUME test = 1 PROVE idx' = idx + 1 /\ hStudent' = [hStudent EXCEPT ![idx] = idx]
        BY <1>1, <3>1, <3>2
      <3> QED
        BY <3>2, DormRoomAssumption DEF StartInv, RoomTypeOK
    <2> QED
      BY <2>1, <2>2, <2>3 DEF StartInv
  <1>11. CleanInv' /\ OnlyOverwrittenLeft'
    BY DEF CleanInv, OnlyOverwrittenLeft
  <1> QED
    BY <1>6, <1>7, <1>8, <1>9, <1>10, <1>11

\* The dean of test1 is started first, and a test that has started all waits.
LEMMA MainGoesOnKeeps == ASSUME RoomIInv, StartDean \/ AllStarted \/ WaitAll PROVE RoomIInv'
  <1> USE DEF RoomIInv, room, locks
  <1>1. CASE StartDean
    <2> USE <1>1 DEF StartDean
    <2>0. /\ Dean \in Person /\ Dean \notin Student /\ <<"look", "sleep">> \in Place
          /\ doing[Dean][1] = "none" /\ doing[Dean][2] = "sleep"
      BY DormRoomAssumption DEF Person, Student, Dean, Place, Loops, StartInv, LockInv
    <2>1. /\ doing' \in [Person -> Place] /\ doing'[Dean] = <<"look", "sleep">>
          /\ \A u \in Person \ {Dean} : doing'[u] = doing[u]
      BY <2>0 DEF RoomTypeOK, Place
    <2>2. \A s \in Student : doing'[s] = doing[s]
      BY <2>0, <2>1 DEF Person
    <2>3. RoomTypeOK' /\ LockInv'
      BY <2>0, <2>1 DEF RoomTypeOK, Place, LockInv
    <2>4. CountIsParty'
      <3>1. PartyOf(doing') = PartyOf(doing)
        BY <2>2 DEF PartyOf
      <3> QED
        BY <3>1 DEF CountIsParty, PartyOf
    <2>5. DeanInv' /\ StartInv' /\ CleanInv' /\ OnlyOverwrittenLeft'
      BY <2>1, <2>2 DEF DeanInv, StartInv, Started, CleanInv, OnlyOverwrittenLeft
    <2> QED
      BY <2>3, <2>4, <2>5
  <1>2. CASE AllStarted
    BY <1>2 DEF AllStarted, RoomTypeOK, LockInv, CountIsParty, DeanInv, StartInv, Started,
                CleanInv, OnlyOverwrittenLeft
  <1>3. CASE WaitAll
    <2> USE <1>3 DEF WaitAll
    <2>1. RoomTypeOK' /\ LockInv' /\ CountIsParty' /\ DeanInv'
      BY DEF RoomTypeOK, LockInv, CountIsParty, DeanInv
    <2>2. StartInv'
      BY DEF RoomTypeOK, StartInv, Started
    <2>3. test = 1 => \A s \in Student : s < MAX_STUDENTS => hStudent[s] = s
      BY DormRoomAssumption DEF StartInv, Student
    <2>4. test = 1 => \A t \in Person : doing[t][1] \in {"none", "end"} /\ doing[t][2] = "sleep"
      <3>1. SUFFICES ASSUME test = 1, NEW t \in Person
                     PROVE  doing[t][1] \in {"none", "end"} /\ doing[t][2] = "sleep"
        OBVIOUS
      <3>2. CASE t \in Awaited
        BY <3>2
      <3>3. CASE t \notin Awaited
        <4>1. t \in Student /\ t >= MAX_STUDENTS
          BY <2>3, <3>1, <3>3, DormRoomAssumption DEF Awaited, Person, Student
        <4>2. doing[t][1] = "none"
          <5>1. Started = MAX_STUDENTS
            BY <3>1, DormRoomAssumption DEF StartInv, Started
          <5> QED
            BY <4>1, <5>1 DEF StartInv
        <4> QED
          BY <4>2 DEF LockInv
      <3> QED
        BY <3>2, <3>3
    <2>5. CleanInv'
      BY <2>2, <2>4 DEF CleanInv, StartInv
    <2>6. OnlyOverwrittenLeft'
      <3>1. CASE test = 1
        BY <2>4, <3>1 DEF OnlyOverwrittenLeft, Person
      <3>2. CASE test # 1
        <4>1. \A s \in Student : s \in Awaited => doing[s][1] = "end"
          OBVIOUS
        <4>2. \A s \in Student : s \notin Awaited => \A n \in 0..MAX_STUDENTS-1 : hStudent[n] # s
          BY DEF Awaited
        <4> QED
          BY <3>2, <4>1, <4>2 DEF OnlyOverwrittenLeft, RoomTypeOK
      <3> QED
        BY <3>1, <3>2
    <2> QED
      BY <2>1, <2>2, <2>5, <2>6
  <1> QED
    BY <1>1, <1>2, <1>3

\* The room is cleaned for test2 when no thread of test1 is left in it.
LEMMA CleanKeeps == ASSUME RoomIInv, CleanAll PROVE RoomIInv'
  <1> USE DormRoomAssumption DEF RoomIInv, CleanAll, locks
  <1>1. /\ \A t \in Person : doing'[t] = <<"none", "sleep">>
        /\ doing' \in [Person -> Place]
    <2>1. <<"none", "sleep">> \in Place
      BY DEF Place
    <2> QED
      BY <2>1
  <1>2. RoomTypeOK'
    <2>1. students_at_party' \in 0..MAX_STUDENTS+1 /\ idx' \in 0..MAX_STUDENTS
      OBVIOUS
    <2>2. doing' \in [Person -> (Loops \cup {"none"}) \X {"sleep", "one", "both", "left"}]
      BY <1>1 DEF Place
    <2>3. /\ dean_in_room' \in {0, 1} /\ dean_started' \in BOOLEAN /\ test' \in {1, 2}
          /\ main' \in {"start", "wait", "clean", "exit"}
      OBVIOUS
    <2> QED
      BY <2>1, <2>2, <2>3 DEF RoomTypeOK
  <1>3. LockInv'
    BY <1>1 DEF LockInv, CleanInv
  <1>4. CountIsParty'
    <2>1. PartyOf(doing') = {}
      BY <1>1 DEF PartyOf, Person
    <2> QED
      BY <2>1, FS_EmptySet DEF CountIsParty, PartyOf
  <1>5. DeanInv' /\ StartInv' /\ CleanInv' /\ OnlyOverwrittenLeft'
    BY <1>1 DEF DeanInv, StartInv, Started, CleanInv, OnlyOverwrittenLeft, Person, Student, Dean
  <1> QED
    BY <1>2, <1>3, <1>4, <1>5

-----------------------------------------------------------------------------
\* Every step of main and of every thread keeps the invariant.
THEOREM StepKeepsRoomIInv == RoomIInv /\ [RoomNext]_party => RoomIInv'
  <1>1. ASSUME RoomIInv, RoomNext PROVE RoomIInv'
    <2>1. CASE Main
      BY <1>1, <2>1, StartStudentKeeps, MainGoesOnKeeps, CleanKeeps DEF Main
    <2>2. ASSUME NEW t \in Person, TakeStud(t) \/ TakeDean(t) \/ FreeStud(t) PROVE RoomIInv'
      BY <1>1, <2>2, MutexKeeps
    <2>3. ASSUME NEW t \in Person, Decision(t) PROVE RoomIInv'
      <3>1. CASE t = Dean
        BY <1>1, <2>3, <3>1, DeanKeeps DEF Decision
      <3>2. CASE t # Dean
        BY <1>1, <2>3, <3>2, EnterRoomKeeps, PartyKeeps DEF Decision, Person
      <3> QED
        BY <3>1, <3>2
    <2> QED
      BY <1>1, <2>1, <2>2, <2>3 DEF RoomNext
  <1>2. ASSUME RoomIInv, UNCHANGED party PROVE RoomIInv'
    BY <1>2 DEF RoomIInv, party, RoomTypeOK, LockInv, CountIsParty, DeanInv, StartInv, Started,
                CleanInv, OnlyOverwrittenLeft
  <1> QED
    BY <1>1, <1>2

\* students_at_party counts the students in party(), and wait_all leaves no thread
\* behind but a student whose handle was overwritten.
THEOREM RoomConsistent == RoomSpec => []RoomInv
  <1>1. RoomIInv => RoomInv
    BY DEF RoomIInv, RoomInv
  <1> QED
    BY <1>1, EmptyRoomIInv, StepKeepsRoomIInv, PTL DEF RoomSpec

\* No student slips into the room after the dean has seen it empty.
THEOREM PartyStaysOver == RoomSpec => []PartyIsOver
  <1>1. RoomIInv => PartyIsOver
    BY DEF RoomIInv, DeanInv, PartyIsOver
  <1> QED
    BY <1>1, EmptyRoomIInv, StepKeepsRoomIInv, PTL DEF RoomSpec
=============================================================================
