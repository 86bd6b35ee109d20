------------------------------- MODULE Threads -------------------------------
(***************************************************************************)
(* The threads main creates in 6-once/once.c (lab08) and in                *)
(* 6-barrier/barrier.c (lab09), and who holds a mutex they share.          *)
(***************************************************************************)
EXTENDS Integers, FiniteSets

CONSTANTS
  Thread,   \* the threads (NUM_THREADS or NO_THREADS of them)
  NoThread  \* nobody holds the mutex

ASSUME ThreadAssumption == NoThread \notin Thread /\ IsFiniteSet(Thread)
=============================================================================
