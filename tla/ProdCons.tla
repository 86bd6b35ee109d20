------------------------------ MODULE ProdCons ------------------------------
(***************************************************************************)
(* lab08 7-prodcons/prodcons.c: one producer and one consumer share a      *)
(* buffer that is used as a stack, under one mutex and two condition       *)
(* variables that are signalled only when the buffer stops being empty or  *)
(* stops being full.  run_threads is called several times in a row.        *)
(***************************************************************************)
EXTENDS Integers

CONSTANTS
  BUFFER_SIZE,     \* slots of the buffer (3)
  NR_ITERATIONS,   \* items of one run (10)
  Runs,            \* calls of run_threads (3)
  MaxSpurious      \* bound: wake-ups without a signal in one run

ASSUME ProdConsAssumption ==
  /\ BUFFER_SIZE \in Nat \ {0}
  /\ NR_ITERATIONS \in Nat
  /\ Runs \in Nat \ {0}
  /\ MaxSpurious \in Nat

VARIABLES
  buff, count,   \* common_area
  mutex,         \* the thread that holds it, or "free"
  pc,            \* where each thread is
  i,             \* the loop counter of each thread
  consumed,      \* the items the consumer has taken in this run
  spurious,      \* wake-ups without a signal so far in this run
  run            \* the call of run_threads that is under way

vars == <<buff, count, mutex, pc, i, consumed, spurious, run>>

Thread   == {"producer", "consumer"}
Other(t) == IF t = "producer" THEN "consumer" ELSE "producer"

\* pthread_mutex_lock and pthread_mutex_unlock are "lock" and "unlock";
\* a thread in pthread_cond_wait is at "wait", and at "relock" once woken.
Steps == {"lock", "check", "first", "second", "signal", "unlock", "wait", "relock", "done"}

IsFull  == count = BUFFER_SIZE
IsEmpty == count = 0

Goto(t, step) == pc' = [pc EXCEPT ![t] = step]

Init ==
  /\ buff = [j \in 0..BUFFER_SIZE-1 |-> 0]
  /\ count = 0
  /\ mutex = "free"
  /\ pc = [t \in Thread |-> IF NR_ITERATIONS = 0 THEN "done" ELSE "lock"]
  /\ i = [t \in Thread |-> 0]
  /\ consumed = {}
  /\ spurious = 0
  /\ run = 1

\* Faulty variants: if instead of while around pthread_cond_wait; a woken thread
\* goes on without the mutex.
LockIf(t) ==
  /\ pc[t] \in {"lock", "relock"}
  /\ mutex = "free"
  /\ mutex' = t
  /\ Goto(t, IF pc[t] = "lock" THEN "check" ELSE "first")
  /\ UNCHANGED <<buff, count, i, consumed, spurious, run>>

LockUnguarded(t) ==
  /\ pc[t] \in {"lock", "relock"}
  /\ mutex = "free" \/ pc[t] = "relock"
  /\ mutex' = t
  /\ Goto(t, "check")
  /\ UNCHANGED <<buff, count, i, consumed, spurious, run>>

\* Taking the mutex, on entry or when pthread_cond_wait returns.
Lock(t) ==
  /\ pc[t] \in {"lock", "relock"}
  /\ mutex = "free"
  /\ mutex' = t
  /\ Goto(t, "check")
  /\ UNCHANGED <<buff, count, i, consumed, spurious, run>>

\* while (is_buffer_full / is_buffer_empty) pthread_cond_wait
Check(t) ==
  LET blocked == IF t = "producer" THEN IsFull ELSE IsEmpty IN
  /\ pc[t] = "check"
  /\ Goto(t, IF blocked THEN "wait" ELSE "first")
  /\ mutex' = IF blocked THEN "free" ELSE mutex
  /\ UNCHANGED <<buff, count, i, consumed, spurious, run>>

\* insert_item stores the item, then counts it
InsertStore ==
  /\ pc["producer"] = "first"
  /\ buff' = [buff EXCEPT ![count] = i["producer"]]
  /\ Goto("producer", "second")
  /\ UNCHANGED <<count, mutex, i, consumed, spurious, run>>

InsertCount ==
  /\ pc["producer"] = "second"
  /\ count' = count + 1
  /\ Goto("producer", "signal")
  /\ UNCHANGED <<buff, mutex, i, consumed, spurious, run>>

\* remove_item lowers the count, then takes the item
RemoveCount ==
  /\ pc["consumer"] = "first"
  /\ count' = count - 1
  /\ Goto("consumer", "second")
  /\ UNCHANGED <<buff, mutex, i, consumed, spurious, run>>

RemoveTake ==
  /\ pc["consumer"] = "second"
  /\ consumed' = consumed \cup {buff[count]}
  /\ Goto("consumer", "signal")
  /\ UNCHANGED <<buff, count, mutex, i, spurious, run>>

\* Faulty variant: the consumer compares with the size of the buffer.
MustSignalLate(t) == count = IF t = "producer" THEN 1 ELSE BUFFER_SIZE

\* pthread_cond_signal, when the buffer has just stopped being empty or full
MustSignal(t) == count = IF t = "producer" THEN 1 ELSE BUFFER_SIZE - 1

Signal(t) ==
  /\ pc[t] = "signal"
  /\ pc' = [pc EXCEPT ![t] = "unlock",
                      ![Other(t)] = IF MustSignal(t) /\ @ = "wait" THEN "relock" ELSE @]
  /\ UNCHANGED <<buff, count, mutex, i, consumed, spurious, run>>

Unlock(t) ==
  /\ pc[t] = "unlock"
  /\ mutex' = "free"
  /\ i' = [i EXCEPT ![t] = @ + 1]
  /\ Goto(t, IF i[t] + 1 < NR_ITERATIONS THEN "lock" ELSE "done")
  /\ UNCHANGED <<buff, count, consumed, spurious, run>>

\* POSIX lets pthread_cond_wait return without a signal.
SpuriousWakeup(t) ==
  /\ pc[t] = "wait"
  /\ spurious < MaxSpurious
  /\ spurious' = spurious + 1
  /\ Goto(t, "relock")
  /\ UNCHANGED <<buff, count, mutex, i, consumed, run>>

\* Both threads are joined and run_threads is called again.
NextRun ==
  /\ \A t \in Thread : pc[t] = "done"
  /\ run < Runs
  /\ run' = run + 1
  /\ buff' = [j \in 0..BUFFER_SIZE-1 |-> 0]
  /\ count' = 0
  /\ pc' = [t \in Thread |-> IF NR_ITERATIONS = 0 THEN "done" ELSE "lock"]
  /\ i' = [t \in Thread |-> 0]
  /\ consumed' = {}
  /\ spurious' = 0
  /\ UNCHANGED mutex

Body == InsertStore \/ InsertCount \/ RemoveCount \/ RemoveTake

Step(t) == Lock(t) \/ Check(t) \/ Signal(t) \/ Unlock(t)

Next == (\E t \in Thread : Step(t) \/ SpuriousWakeup(t)) \/ Body \/ NextRun

Spec == Init /\ [][Next]_vars

\* Each thread and main keep running; nothing is assumed of spurious wake-ups.
FairSpec ==
  Spec /\ WF_vars(Body) /\ WF_vars(NextRun) /\ \A t \in Thread : WF_vars(Step(t))

-----------------------------------------------------------------------------
(***************************************************************************)
(* Properties                                                              *)
(***************************************************************************)
Inside == {"check", "first", "second", "signal", "unlock"}

\* Counters, buffer and program counters have their types.
TypeOK ==
  /\ buff \in [0..BUFFER_SIZE-1 -> Int]
  /\ count \in 0..BUFFER_SIZE
  /\ mutex \in Thread \cup {"free"}
  /\ pc \in [Thread -> Steps]
  /\ i \in [Thread -> 0..NR_ITERATIONS]
  /\ consumed \in SUBSET Int
  /\ spurious \in 0..MaxSpurious
  /\ run \in 1..Runs

\* A thread between pthread_mutex_lock and pthread_mutex_unlock holds the mutex,
\* also after pthread_cond_wait gave it away and took it back.
MutexHeldInside == \A t \in Thread : pc[t] \in Inside <=> mutex = t

\* insert_item stores below BUFFER_SIZE and remove_item never takes from an empty
\* buffer: the while loop around pthread_cond_wait re-checks after every wake-up.
NoOverrun ==
  /\ pc["producer"] \in {"first", "second"} => count < BUFFER_SIZE
  /\ pc["consumer"] = "first" => count > 0

\* What the mutex is there for: a thread inside has it, and the buffer is neither
\* overrun nor taken from when empty, whatever woke the thread.
LockInv == TypeOK /\ MutexHeldInside /\ NoOverrun

\* The items that were counted in and not yet taken.
Stored == {buff[j] : j \in 0..count-1} \cup
          (IF pc["consumer"] = "second" THEN {buff[count]} ELSE {})

Produced == 0..(i["producer"] - (IF pc["producer"] \in {"signal", "unlock"} THEN 0 ELSE 1))

\* No item is lost and none is taken twice, in whatever order the stack gives
\* them: what the producer inserted is in the buffer or was consumed, not both.
ItemsConserved ==
  /\ consumed \cup Stored = Produced
  /\ consumed \cap Stored = {}

\* A thread waits only while it has to, or while the other one is about to signal
\* it: signalling only at the two edges never loses a wake-up.
NoLostWakeup ==
  /\ (pc["consumer"] = "wait" /\ count > 0)
       => (pc["producer"] = "signal" /\ MustSignal("producer"))
  /\ (pc["producer"] = "wait" /\ count < BUFFER_SIZE)
       => (pc["consumer"] = "second" \/ (pc["consumer"] = "signal" /\ MustSignal("consumer")))

\* All the runs end with every item consumed (pthread_join returns in main).
RunsEnd == <>(run = Runs /\ \A t \in Thread : pc[t] = "done" /\ consumed = 0..NR_ITERATIONS-1)
=============================================================================
