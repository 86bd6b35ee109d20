--------------------------- MODULE ProdConsProofs ---------------------------
(***************************************************************************)
(* Mutual exclusion, conservation of the items and the absence of lost     *)
(* wake-ups in prodcons.c, for every size of the buffer, number of items,  *)
(* number of runs and number of spurious wake-ups.                         *)
(***************************************************************************)
EXTENDS ProdCons, TLAPS

\* A loop is done when its counter says so.
LoopInv ==
  \A t \in Thread : IF pc[t] = "done" THEN i[t] = NR_ITERATIONS ELSE i[t] < NR_ITERATIONS

\* The slots that hold an item not yet taken: the consumer has counted its slot
\* out before it takes the item.
Live(j) == j < count \/ (j = count /\ pc["consumer"] = "second")

\* An item is in one slot, and what the producer has stored is the item it counts next.
SlotInv ==
  /\ \A j, k \in 0..BUFFER_SIZE-1 : Live(j) /\ Live(k) /\ buff[j] = buff[k] => j = k
  /\ pc["producer"] = "second" => buff[count] = i["producer"]
  /\ pc["consumer"] = "second" => count < BUFFER_SIZE

\* Membership in Stored, without the sets.
IsStored(x) == \E j \in 0..BUFFER_SIZE-1 : Live(j) /\ buff[j] = x

\* The number of the next item that will be counted in.
NextItem == i["producer"] + (IF pc["producer"] \in {"signal", "unlock"} THEN 1 ELSE 0)

\* ItemsConserved, item by item.
ItemInv ==
  \A x \in Int : /\ (x \in consumed \/ IsStored(x)) <=> (0 <= x /\ x < NextItem)
                 /\ ~(x \in consumed /\ IsStored(x))

\* A waiting producer is one slot away from going on, the consumer about to tell it.
WakeInv ==
  /\ (pc["consumer"] = "wait" /\ count > 0) => (pc["producer"] = "signal" /\ count = 1)
  /\ (pc["producer"] = "wait" /\ count < BUFFER_SIZE)
       => (pc["consumer"] \in {"second", "signal"} /\ count = BUFFER_SIZE - 1)

IInv == TypeOK /\ MutexHeldInside /\ NoOverrun /\ LoopInv /\ SlotInv /\ ItemInv /\ WakeInv
-----------------------------------------------------------------------------

\* Taking the mutex changes neither the buffer nor who waits.
LEMMA LockKeeps == ASSUME IInv, NEW t \in Thread, Lock(t) PROVE IInv'
  <1> USE ProdConsAssumption DEF IInv, Lock, Goto
  <1>1. TypeOK'
    BY DEF TypeOK, Thread, Steps, LoopInv, NoOverrun
  <1>2. MutexHeldInside'
    BY DEF TypeOK, Thread, MutexHeldInside, Inside
  <1>3. NoOverrun'
    BY DEF TypeOK, Thread, MutexHeldInside, Inside, NoOverrun
  <1>4. LoopInv'
    BY DEF TypeOK, Thread, LoopInv
  <1>5. SlotInv'
    BY DEF TypeOK, Thread, MutexHeldInside, Inside, NoOverrun, SlotInv, Live
  <1>6. ItemInv'
    BY DEF TypeOK, Thread, MutexHeldInside, Inside, NoOverrun, SlotInv, ItemInv, IsStored, Live, NextItem
  <1>7. WakeInv'
    BY DEF TypeOK, Thread, MutexHeldInside, Inside, WakeInv
  <1> QED
    BY <1>1, <1>2, <1>3, <1>4, <1>5, <1>6, <1>7

\* A thread begins to wait only while the buffer makes it.
LEMMA CheckKeeps == ASSUME IInv, NEW t \in Thread, Check(t) PROVE IInv'
  <1> USE ProdConsAssumption DEF IInv, Check, Goto, IsFull, IsEmpty
  <1>1. TypeOK'
    BY DEF TypeOK, Thread, Steps, LoopInv, NoOverrun
  <1>2. MutexHeldInside'
    BY DEF TypeOK, Thread, MutexHeldInside, Inside
  <1>3. NoOverrun'
    BY DEF TypeOK, Thread, MutexHeldInside, Inside, NoOverrun
  <1>4. LoopInv'
    BY DEF TypeOK, Thread, LoopInv
  <1>5. SlotInv'
    BY DEF TypeOK, Thread, MutexHeldInside, Inside, NoOverrun, SlotInv, Live
  <1>6. ItemInv'
    BY DEF TypeOK, Thread, MutexHeldInside, Inside, NoOverrun, SlotInv, ItemInv, IsStored, Live, NextItem
  <1>7. WakeInv'
    BY DEF TypeOK, Thread, MutexHeldInside, Inside, WakeInv
  <1> QED
    BY <1>1, <1>2, <1>3, <1>4, <1>5, <1>6, <1>7

\* The item is stored in a free slot and not counted yet.
LEMMA InsertStoreKeeps == ASSUME IInv, InsertStore PROVE IInv'
  <1> USE ProdConsAssumption DEF IInv, InsertStore, Goto
  <1>1. TypeOK'
    BY DEF TypeOK, Thread, Steps, LoopInv, NoOverrun
  <1>2. MutexHeldInside'
    BY DEF TypeOK, Thread, MutexHeldInside, Inside
  <1>3. NoOverrun'
    BY DEF TypeOK, Thread, MutexHeldInside, Inside, NoOverrun
  <1>4. LoopInv'
    BY DEF TypeOK, Thread, LoopInv
  <1>5. SlotInv'
    BY DEF TypeOK, Thread, MutexHeldInside, Inside, NoOverrun, SlotInv, Live
  <1>6. ItemInv'
    BY DEF TypeOK, Thread, MutexHeldInside, Inside, NoOverrun, SlotInv, ItemInv, IsStored, Live, NextItem
  <1>7. WakeInv'
    BY DEF TypeOK, Thread, MutexHeldInside, Inside, WakeInv
  <1> QED
    BY <1>1, <1>2, <1>3, <1>4, <1>5, <1>6, <1>7

\* Counting the slot adds the item that no slot held, and may end what a waiting
\* consumer waits for.
LEMMA InsertCountKeeps == ASSUME IInv, InsertCount PROVE IInv'
  <1> USE ProdConsAssumption DEF IInv, InsertCount, Goto
  <1>1. TypeOK'
    BY DEF TypeOK, Thread, Steps, LoopInv, NoOverrun
  <1>2. MutexHeldInside'
    BY DEF TypeOK, Thread, MutexHeldInside, Inside
  <1>3. NoOverrun'
    BY DEF TypeOK, Thread, MutexHeldInside, Inside, NoOverrun
  <1>4. LoopInv'
    BY DEF TypeOK, Thread, LoopInv
  <1>a. /\ pc["producer"] = "second" /\ pc["consumer"] # "second" /\ count' = count + 1
        /\ count \in 0..BUFFER_SIZE-1 /\ buff' = buff /\ i' = i /\ consumed' = consumed
        /\ pc'["producer"] = "signal" /\ pc'["consumer"] = pc["consumer"]
        /\ i["producer"] \in Int /\ \A j \in 0..BUFFER_SIZE-1 : buff[j] \in Int
    BY DEF TypeOK, Thread, MutexHeldInside, Inside, NoOverrun
  <1>b. buff[count] = i["producer"] /\ NextItem = i["producer"] /\ NextItem' = i["producer"] + 1
    BY <1>a DEF SlotInv, NextItem
  <1>c. \A j \in 0..BUFFER_SIZE-1 : Live(j)' <=> Live(j) \/ j = count
    BY <1>a DEF Live, TypeOK
  <1>d. \A j \in 0..BUFFER_SIZE-1 : Live(j) => buff[j] # i["producer"]
    BY <1>a, <1>b DEF ItemInv, IsStored
  <1>5. SlotInv'
    BY <1>a, <1>b, <1>c, <1>d DEF SlotInv
  <1>6. ItemInv'
    <2>1. \A x \in Int : IsStored(x)' <=> IsStored(x) \/ x = i["producer"]
      BY <1>a, <1>b, <1>c DEF IsStored
    <2>2. ASSUME NEW x \in Int
          PROVE  /\ (x \in consumed \/ IsStored(x)) <=> (0 <= x /\ x < NextItem)
                 /\ ~(x \in consumed /\ IsStored(x))
      BY DEF ItemInv
    <2>3. 0 <= i["producer"]
      BY DEF TypeOK, Thread
    <2>4. ~(i["producer"] \in consumed)
      BY <1>a, <1>b, <2>2
    <2>5. ASSUME NEW x \in Int
          PROVE  (0 <= x /\ x < NextItem') <=> (0 <= x /\ x < NextItem) \/ x = i["producer"]
      BY <1>a, <1>b, <2>3
    <2> QED
      BY <1>a, <2>1, <2>2, <2>4, <2>5 DEF ItemInv
  <1>7. WakeInv'
    BY DEF TypeOK, Thread, MutexHeldInside, Inside, WakeInv
  <1> QED
    BY <1>1, <1>2, <1>3, <1>4, <1>5, <1>6, <1>7

\* The slot counted out is the one the consumer takes from.
LEMMA RemoveCountKeeps == ASSUME IInv, RemoveCount PROVE IInv'
  <1> USE ProdConsAssumption DEF IInv, RemoveCount, Goto
  <1>1. TypeOK'
    BY DEF TypeOK, Thread, Steps, LoopInv, NoOverrun
  <1>2. MutexHeldInside'
    BY DEF TypeOK, Thread, MutexHeldInside, Inside
  <1>3. NoOverrun'
    BY DEF TypeOK, Thread, MutexHeldInside, Inside, NoOverrun
  <1>4. LoopInv'
    BY DEF TypeOK, Thread, LoopInv
  <1>5. SlotInv'
    BY DEF TypeOK, Thread, MutexHeldInside, Inside, NoOverrun, SlotInv, Live
  <1>6. ItemInv'
    BY DEF TypeOK, Thread, MutexHeldInside, Inside, NoOverrun, SlotInv, ItemInv, IsStored, Live, NextItem
  <1>7. WakeInv'
    BY DEF TypeOK, Thread, MutexHeldInside, Inside, WakeInv
  <1> QED
    BY <1>1, <1>2, <1>3, <1>4, <1>5, <1>6, <1>7

\* The item leaves its slot and is consumed.
LEMMA RemoveTakeKeeps == ASSUME IInv, RemoveTake PROVE IInv'
  <1> USE ProdConsAssumption DEF IInv, RemoveTake, Goto
  <1>1. TypeOK'
    <2>1. count \in 0..BUFFER_SIZE-1 /\ buff[count] \in Int
      BY DEF TypeOK, SlotInv
    <2> QED
      BY <2>1 DEF TypeOK, Thread, Steps
  <1>2. MutexHeldInside'
    BY DEF TypeOK, Thread, MutexHeldInside, Inside
  <1>3. NoOverrun'
    BY DEF TypeOK, Thread, MutexHeldInside, Inside, NoOverrun
  <1>4. LoopInv'
    BY DEF TypeOK, Thread, LoopInv
  <1>5. SlotInv'
    BY DEF TypeOK, Thread, MutexHeldInside, Inside, NoOverrun, SlotInv, Live
  <1>6. ItemInv'
    BY DEF TypeOK, Thread, MutexHeldInside, Inside, NoOverrun, SlotInv, ItemInv, IsStored, Live, NextItem
  <1>7. WakeInv'
    BY DEF TypeOK, Thread, MutexHeldInside, Inside, WakeInv
  <1> QED
    BY <1>1, <1>2, <1>3, <1>4, <1>5, <1>6, <1>7

\* A signal at the edge finds the thread that waits.
LEMMA SignalKeeps == ASSUME IInv, NEW t \in Thread, Signal(t) PROVE IInv'
  <1> USE ProdConsAssumption DEF IInv, Signal, MustSignal, Other
  <1>1. TypeOK'
    BY DEF TypeOK, Thread, Steps, LoopInv, NoOverrun
  <1>2. MutexHeldInside'
    BY DEF TypeOK, Thread, MutexHeldInside, Inside
  <1>3. NoOverrun'
    BY DEF TypeOK, Thread, MutexHeldInside, Inside, NoOverrun
  <1>4. LoopInv'
    BY DEF TypeOK, Thread, LoopInv
  <1>5. SlotInv'
    BY DEF TypeOK, Thread, MutexHeldInside, Inside, NoOverrun, SlotInv, Live
  <1>6. ItemInv'
    BY DEF TypeOK, Thread, MutexHeldInside, Inside, NoOverrun, SlotInv, ItemInv, IsStored, Live, NextItem
  <1>7. WakeInv'
    BY DEF TypeOK, Thread, MutexHeldInside, Inside, WakeInv
  <1> QED
    BY <1>1, <1>2, <1>3, <1>4, <1>5, <1>6, <1>7

\* An iteration ends.
LEMMA UnlockKeeps == ASSUME IInv, NEW t \in Thread, Unlock(t) PROVE IInv'
  <1> USE ProdConsAssumption DEF IInv, Unlock, Goto
  <1>1. TypeOK'
    BY DEF TypeOK, Thread, Steps, LoopInv, NoOverrun
  <1>2. MutexHeldInside'
    BY DEF TypeOK, Thread, MutexHeldInside, Inside
  <1>3. NoOverrun'
    BY DEF TypeOK, Thread, MutexHeldInside, Inside, NoOverrun
  <1>4. LoopInv'
    BY DEF TypeOK, Thread, LoopInv
  <1>5. SlotInv'
    BY DEF TypeOK, Thread, MutexHeldInside, Inside, NoOverrun, SlotInv, Live
  <1>6. ItemInv'
    BY DEF TypeOK, Thread, MutexHeldInside, Inside, NoOverrun, SlotInv, ItemInv, IsStored, Live, NextItem
  <1>7. WakeInv'
    BY DEF TypeOK, Thread, MutexHeldInside, Inside, WakeInv
  <1> QED
    BY <1>1, <1>2, <1>3, <1>4, <1>5, <1>6, <1>7

\* A thread woken for no reason takes the mutex again and checks again.
LEMMA SpuriousKeeps == ASSUME IInv, NEW t \in Thread, SpuriousWakeup(t) PROVE IInv'
  <1> USE ProdConsAssumption DEF IInv, SpuriousWakeup, Goto
  <1>1. TypeOK'
    BY DEF TypeOK, Thread, Steps, LoopInv, NoOverrun
  <1>2. MutexHeldInside'
    BY DEF TypeOK, Thread, MutexHeldInside, Inside
  <1>3. NoOverrun'
    BY DEF TypeOK, Thread, MutexHeldInside, Inside, NoOverrun
  <1>4. LoopInv'
    BY DEF TypeOK, Thread, LoopInv
  <1>5. SlotInv'
    BY DEF TypeOK, Thread, MutexHeldInside, Inside, NoOverrun, SlotInv, Live
  <1>6. ItemInv'
    BY DEF TypeOK, Thread, MutexHeldInside, Inside, NoOverrun, SlotInv, ItemInv, IsStored, Live, NextItem
  <1>7. WakeInv'
    BY DEF TypeOK, Thread, MutexHeldInside, Inside, WakeInv
  <1> QED
    BY <1>1, <1>2, <1>3, <1>4, <1>5, <1>6, <1>7

\* A new run begins with an empty buffer and nothing consumed.
LEMMA NextRunKeeps == ASSUME IInv, NextRun PROVE IInv'
  <1> USE ProdConsAssumption DEF IInv, NextRun
  <1>1. TypeOK'
    BY DEF TypeOK, Thread, Steps, LoopInv, NoOverrun
  <1>2. MutexHeldInside'
    BY DEF TypeOK, Thread, MutexHeldInside, Inside
  <1>3. NoOverrun'
    BY DEF TypeOK, Thread, MutexHeldInside, Inside, NoOverrun
  <1>4. LoopInv'
    BY DEF TypeOK, Thread, LoopInv
  <1>5. SlotInv'
    BY DEF TypeOK, Thread, MutexHeldInside, Inside, NoOverrun, SlotInv, Live
  <1>6. ItemInv'
    BY DEF TypeOK, Thread, MutexHeldInside, Inside, NoOverrun, SlotInv, ItemInv, IsStored, Live, NextItem
  <1>7. WakeInv'
    BY DEF TypeOK, Thread, MutexHeldInside, Inside, WakeInv
  <1> QED
    BY <1>1, <1>2, <1>3, <1>4, <1>5, <1>6, <1>7

-----------------------------------------------------------------------------
\* A run begins with nothing stored.
THEOREM InitIInv == Init => IInv
  <1> SUFFICES ASSUME Init PROVE IInv
    OBVIOUS
  <1> USE ProdConsAssumption DEF Init
  <1>1. TypeOK
    BY DEF TypeOK, Thread, Steps
  <1>2. MutexHeldInside /\ NoOverrun /\ LoopInv /\ SlotInv /\ WakeInv
    <2>1. \A t \in Thread : pc[t] \in {"lock", "done"} /\ t # "free"
      BY DEF Thread
    <2>2. LoopInv
      BY DEF LoopInv, Thread
    <2> QED
      BY <2>1, <2>2 DEF MutexHeldInside, Inside, NoOverrun, SlotInv, Live, WakeInv, Thread
  <1>3. ItemInv
    BY DEF ItemInv, IsStored, Live, NextItem, Thread
  <1> QED
    BY <1>1, <1>2, <1>3 DEF IInv

\* Every step of the producer, the consumer and main keeps the invariant.
THEOREM StepKeepsIInv == IInv /\ [Next]_vars => IInv'
  <1>1. ASSUME IInv, Next PROVE IInv'
    BY <1>1, LockKeeps, CheckKeeps, InsertStoreKeeps, InsertCountKeeps, RemoveCountKeeps,
       RemoveTakeKeeps, SignalKeeps, UnlockKeeps, SpuriousKeeps, NextRunKeeps
       DEF Next, Step, Body
  <1>2. ASSUME IInv, UNCHANGED vars PROVE IInv'
    BY <1>2 DEF IInv, vars, TypeOK, MutexHeldInside, NoOverrun, LoopInv, SlotInv, Live,
                ItemInv, IsStored, NextItem, WakeInv
  <1> QED
    BY <1>1, <1>2

\* A thread inside has the mutex and never overruns the buffer, however it is woken
\* from pthread_cond_wait.
THEOREM LockProtects == Spec => []LockInv
  <1>1. IInv => LockInv
    BY DEF IInv, LockInv
  <1> QED
    BY <1>1, InitIInv, StepKeepsIInv, PTL DEF Spec

\* Every item inserted is in the buffer or was consumed, and not both.
THEOREM NothingLost == Spec => []ItemsConserved
  <1>1. ASSUME IInv PROVE ItemsConserved
    <2>1. \A x : x \in Stored <=> x \in Int /\ IsStored(x)
      BY <1>1, ProdConsAssumption
         DEF IInv, TypeOK, SlotInv, NoOverrun, Stored, IsStored, Live
    <2>2. \A x : x \in Produced <=> x \in Int /\ 0 <= x /\ x < NextItem
      BY <1>1 DEF IInv, TypeOK, Thread, Produced, NextItem
    <2>3. \A x \in consumed : x \in Int
      BY <1>1 DEF IInv, TypeOK
    <2> QED
      BY <1>1, <2>1, <2>2, <2>3 DEF IInv, ItemInv, ItemsConserved
  <1> QED
    BY <1>1, InitIInv, StepKeepsIInv, PTL DEF Spec

\* Signalling only when the buffer stops being empty or full is enough: a thread
\* that waits has to, or is about to be told.
THEOREM WakeUpsArrive == Spec => []NoLostWakeup
  <1>1. IInv => NoLostWakeup
    BY ProdConsAssumption DEF IInv, TypeOK, WakeInv, NoLostWakeup, MustSignal
  <1> QED
    BY <1>1, InitIInv, StepKeepsIInv, PTL DEF Spec
=============================================================================
