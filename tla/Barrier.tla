------------------------------- MODULE Barrier -------------------------------
(***************************************************************************)
(* lab09 6-barrier/barrier.c: a threshold barrier made of a mutex and an   *)
(* event that the last thread to arrive pulses.  Every thread passes it    *)
(* Rounds times (twice in ThreadFunc).                                     *)
(***************************************************************************)
EXTENDS Threads

CONSTANT
  Rounds         \* how often ThreadFunc waits at the barrier

ASSUME BarrierAssumption == Thread # {} /\ Rounds \in Nat \ {0}

VARIABLES
  hGuard,    \* the thread that holds the mutex
  dwCount,   \* threads that have reached the barrier
  at,        \* where each thread is
  passed     \* how often each thread has left the barrier

barrier == <<hGuard, dwCount, at, passed>>

dwThreshold == Cardinality(Thread)

CreateThresholdBarrier ==
  /\ hGuard = NoThread
  /\ dwCount = 0
  /\ at = [t \in Thread |-> "work"]
  /\ passed = [t \in Thread |-> 0]

\* WaitForSingleObject(thb->hGuard, INFINITE)
Enter(t) ==
  /\ at[t] = "work"
  /\ passed[t] < Rounds
  /\ hGuard = NoThread
  /\ hGuard' = t
  /\ at' = [at EXCEPT ![t] = "arrive"]
  /\ UNCHANGED <<dwCount, passed>>

\* Faulty variant: one thread too many is waited for.
ArriveOneOff(t) ==
  /\ at[t] = "arrive"
  /\ dwCount' = dwCount + 1
  /\ at' = [at EXCEPT ![t] = IF dwCount' <= dwThreshold THEN "signal" ELSE "pulse"]
  /\ UNCHANGED <<hGuard, passed>>

Arrive(t) ==
  /\ at[t] = "arrive"
  /\ dwCount' = dwCount + 1
  /\ at' = [at EXCEPT ![t] = IF dwCount' < dwThreshold THEN "signal" ELSE "pulse"]
  /\ UNCHANGED <<hGuard, passed>>

\* SignalObjectAndWait releases the mutex; Windows does not promise that the wait
\* for the event starts in the same step.
SignalObject(t) ==
  /\ at[t] = "signal"
  /\ hGuard' = NoThread
  /\ at' = [at EXCEPT ![t] = "towait"]
  /\ UNCHANGED <<dwCount, passed>>

StartWaiting(t) ==
  /\ at[t] = "towait"
  /\ at' = [at EXCEPT ![t] = "wait"]
  /\ UNCHANGED <<hGuard, dwCount, passed>>

\* Faulty variant: dwCount is not reset for the next round.
PulseKeepsCount(t) ==
  /\ at[t] = "pulse"
  /\ at' = [u \in Thread |-> IF at[u] = "wait" THEN "leave"
                             ELSE IF u = t THEN "release" ELSE at[u]]
  /\ UNCHANGED <<hGuard, dwCount, passed>>

\* PulseEvent releases the threads that wait for the manual-reset event at this
\* moment and leaves it unset.
Pulse(t) ==
  /\ at[t] = "pulse"
  /\ dwCount' = 0
  /\ at' = [u \in Thread |-> IF at[u] = "wait" THEN "leave"
                             ELSE IF u = t THEN "release" ELSE at[u]]
  /\ UNCHANGED <<hGuard, passed>>

ReleaseGuard(t) ==
  /\ at[t] = "release"
  /\ hGuard' = NoThread
  /\ at' = [at EXCEPT ![t] = "leave"]
  /\ UNCHANGED <<dwCount, passed>>

Leave(t) ==
  /\ at[t] = "leave"
  /\ passed' = [passed EXCEPT ![t] = @ + 1]
  /\ at' = [at EXCEPT ![t] = "work"]
  /\ UNCHANGED <<hGuard, dwCount>>

WaitThresholdBarrier(t) ==
  \/ Enter(t) \/ Arrive(t) \/ SignalObject(t) \/ StartWaiting(t)
  \/ Pulse(t) \/ ReleaseGuard(t) \/ Leave(t)

ThreadFunc == \E t \in Thread : WaitThresholdBarrier(t)

BarrierSpec == CreateThresholdBarrier /\ [][ThreadFunc]_barrier

\* Every thread is scheduled; it enters the barrier Rounds times only, so a
\* thread that waits for hGuard gets it.
FairBarrier == BarrierSpec /\ \A t \in Thread : WF_barrier(WaitThresholdBarrier(t))

-----------------------------------------------------------------------------
(***************************************************************************)
(* Properties                                                              *)
(***************************************************************************)
\* The guard, the count and the program counters have their types.
BarrierTypeOK ==
  /\ hGuard \in Thread \cup {NoThread}
  /\ dwCount \in 0..dwThreshold
  /\ at \in [Thread -> {"work", "arrive", "signal", "towait", "wait", "pulse", "release", "leave"}]
  /\ passed \in [Thread -> 0..Rounds]

\* The rounds thread t has begun: it has counted itself in dwCount for the last one.
Arrived(t) == passed[t] + (IF at[t] \in {"work", "arrive"} THEN 0 ELSE 1)

\* No thread leaves a round before every thread has reached it, also when the
\* barrier is used again while some threads are still leaving.
NobodyLeavesEarly ==
  \A t, u \in Thread : (at[t] \in {"release", "leave"} \/ passed[t] > 0)
     => Arrived(u) >= passed[t] + (IF at[t] \in {"release", "leave"} THEN 1 ELSE 0)

\* Every thread dwCount counts is still held at the barrier: a round never starts
\* with threads of the round before, which would open it too early.
CountIsHeld ==
  dwCount <= Cardinality({t \in Thread : at[t] \in {"signal", "towait", "wait", "pulse"}})

\* The count and the event together keep the rounds apart.
BarrierInv == BarrierTypeOK /\ CountIsHeld /\ NobodyLeavesEarly

\* "Wait for the specified number of thread to reach the barrier, then broadcast
\* the release to all waiting threads" (barrier.c:60-61): every thread passes the
\* barrier every time and main's waits return.
AllPass == <>(\A t \in Thread : passed[t] = Rounds)

\* Unless a pulse comes while some thread has released hGuard and does not wait
\* yet, all threads pass the barrier every time: dwCount, reset by the last thread
\* and shared by all rounds, never leaves the pulse out.
AllPassInTime ==
  [](\A t, u \in Thread : ~(at[t] = "pulse" /\ at[u] = "towait")) => AllPass
=============================================================================
