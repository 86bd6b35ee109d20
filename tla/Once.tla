-------------------------------- MODULE Once --------------------------------
(***************************************************************************)
(* lab08 6-once/once.c: every thread calls one_time_init, works, and calls *)
(* one_time_deinit; a counter under a mutex decides who runs init_func and *)
(* deinit_func.                                                            *)
(***************************************************************************)
EXTENDS Threads

VARIABLES
  refcount, mutex,  \* once_control
  pc,               \* where each thread is
  ready,            \* init_func ran after the last deinit_func
  inits, deinits    \* how often init_func and deinit_func have run

vars == <<refcount, mutex, pc, ready, inits, deinits>>

Steps == {"start", "init", "count", "unlock_init", "work",
          "deinit", "last", "unlock_deinit", "end"}

Goto(t, from, to) == pc[t] = from /\ pc' = [pc EXCEPT ![t] = to]

Init ==
  /\ refcount = 0
  /\ mutex = NoThread
  /\ pc = [t \in Thread |-> "start"]
  /\ ready = FALSE
  /\ inits = 0
  /\ deinits = 0

\* Faulty variant: the mutex is not waited for.
LockFree(t) ==
  /\ Goto(t, "start", "init") \/ Goto(t, "work", "deinit")
  /\ mutex' = t
  /\ UNCHANGED <<refcount, ready, inits, deinits>>

Lock(t) ==
  /\ Goto(t, "start", "init") \/ Goto(t, "work", "deinit")
  /\ mutex = NoThread
  /\ mutex' = t
  /\ UNCHANGED <<refcount, ready, inits, deinits>>

\* if (!refcount) (*f)();
CallInit(t) ==
  /\ Goto(t, "init", "count")
  /\ inits' = IF refcount = 0 THEN inits + 1 ELSE inits
  /\ ready' = (ready \/ refcount = 0)
  /\ UNCHANGED <<refcount, mutex, deinits>>

\* Faulty variant: only the thread that ran init_func is counted.
CountFirst(t) ==
  /\ Goto(t, "count", "unlock_init")
  /\ refcount' = 1
  /\ UNCHANGED <<mutex, ready, inits, deinits>>

Count(t) ==
  /\ Goto(t, "count", "unlock_init")
  /\ refcount' = refcount + 1
  /\ UNCHANGED <<mutex, ready, inits, deinits>>

\* refcount--
Uncount(t) ==
  /\ Goto(t, "deinit", "last")
  /\ refcount' = refcount - 1
  /\ UNCHANGED <<mutex, ready, inits, deinits>>

\* if (!refcount) (*f)();
CallDeinit(t) ==
  /\ Goto(t, "last", "unlock_deinit")
  /\ deinits' = IF refcount = 0 THEN deinits + 1 ELSE deinits
  /\ ready' = (ready /\ refcount # 0)
  /\ UNCHANGED <<refcount, mutex, inits>>

Unlock(t) ==
  /\ Goto(t, "unlock_init", "work") \/ Goto(t, "unlock_deinit", "end")
  /\ mutex' = NoThread
  /\ UNCHANGED <<refcount, ready, inits, deinits>>

Next == \E t \in Thread :
  Lock(t) \/ CallInit(t) \/ Count(t) \/ Uncount(t) \/ CallDeinit(t) \/ Unlock(t)

Spec == Init /\ [][Next]_vars

-----------------------------------------------------------------------------
(***************************************************************************)
(* Properties                                                              *)
(***************************************************************************)
\* The counter, the mutex and the program counters have their types.
TypeOK ==
  /\ refcount \in Nat
  /\ mutex \in Thread \cup {NoThread}
  /\ pc \in [Thread -> Steps]
  /\ ready \in BOOLEAN
  /\ inits \in Nat /\ deinits \in Nat

\* thread_work runs only while the one-time state is set up: no other thread's
\* one_time_deinit tears it down under a thread that has returned from
\* one_time_init.
WorkOnlyWhenReady ==
  \A t \in Thread : pc[t] \in {"unlock_init", "work", "deinit"} => ready

\* init_func and deinit_func alternate: the state is never set up twice without
\* having been torn down in between, and is torn down once all threads have ended.
\* Both may run several times, see InitOnce.
InitsMatchDeinits ==
  /\ TypeOK
  /\ inits - deinits = IF ready THEN 1 ELSE 0
  /\ (\A t \in Thread : pc[t] = "end") => ~ready

\* What the comments of the test say (once.c:34-35, 48-49, 115-116): init_func and
\* deinit_func run once, no matter how many threads call one_time_init.
InitOnce == inits <= 1 /\ deinits <= 1
=============================================================================
