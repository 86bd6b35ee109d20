------------------------------- MODULE HashMap -------------------------------
(***************************************************************************)
(* hashmap.c: the open-addressing table the preprocessor keeps its symbols *)
(* in, with the operators of HashTable.  Re-inserting into the doubled     *)
(* table is one step per slot; every other call is one step (the program   *)
(* has one thread).                                                        *)
(***************************************************************************)
EXTENDS HashTable, FiniteSets

CONSTANTS
  Value,         \* what the symbols may be defined as
  InitialSize,   \* the size main.c gives createHashMap
  MaxTable       \* bound: the table does not grow beyond this size

ASSUME HashMapAssumption ==
  /\ NULL \notin Value
  /\ InitialSize \in Nat /\ InitialSize >= 5
  /\ MaxTable \in Nat

VARIABLES
  map,   \* the HashMap
  new,   \* newMap of insert, while the table grows
  i,     \* the slot of map that insert copies to new next
  arg,   \* key and value of the insert that makes the table grow
  undef, \* a key was deleted (history: no variable of the program)
  pc     \* "idle", or "grow" in the loop of insert

vars == <<map, new, i, arg, undef, pc>>

NoArg == NullElem

Init ==
  /\ map = CreateHashMap(InitialSize)
  /\ new = CreateHashMap(1)
  /\ i = 0
  /\ arg = NoArg
  /\ undef = FALSE
  /\ pc = "idle"

Insert(k, v) ==
  /\ pc = "idle"
  /\ ~Crowded(map)
  /\ map' = Place(map, k, v)
  /\ UNCHANGED <<new, i, arg, undef, pc>>

InsertGrows(k, v) ==
  /\ pc = "idle"
  /\ Crowded(map)
  /\ Grown(map) <= MaxTable
  /\ new' = CreateHashMap(Grown(map))
  /\ i' = 0
  /\ arg' = [key |-> k, value |-> v]
  /\ pc' = "grow"
  /\ UNCHANGED <<map, undef>>

\* insert(&newMap, ...) for one slot: new is never crowded (NewNeverCrowded), so
\* the nested call does not grow it in its turn.
Rehash ==
  LET e == map.elem[i] IN
  /\ pc = "grow"
  /\ i < map.size
  /\ new' = IF e.key # NULL THEN Place(new, e.key, e.value) ELSE new
  /\ i' = i + 1
  /\ UNCHANGED <<map, arg, undef, pc>>

InsertGrown ==
  /\ pc = "grow"
  /\ i = map.size
  /\ map' = Place(new, arg.key, arg.value)
  /\ new' = CreateHashMap(1)
  /\ i' = 0
  /\ arg' = NoArg
  /\ pc' = "idle"
  /\ UNCHANGED undef

DeleteKey(k) ==
  /\ pc = "idle"
  /\ map' = Deleted(map, k)
  /\ undef' = TRUE
  /\ UNCHANGED <<new, i, arg, pc>>

Next ==
  \/ \E k \in Key, v \in Value : Insert(k, v) \/ InsertGrows(k, v)
  \/ Rehash
  \/ InsertGrown
  \/ \E k \in Key : DeleteKey(k)

Spec == Init /\ [][Next]_vars

-----------------------------------------------------------------------------
(***************************************************************************)
(* Properties                                                              *)
(***************************************************************************)
\* The HashMap, the map being built and the pending insert have their C types.
TypeOK ==
  /\ TableOK(map, Value) /\ TableOK(new, Value)
  /\ i \in 0..map.size
  /\ arg \in Elem(Value) \cup {NoArg}
  /\ undef \in BOOLEAN
  /\ pc \in {"idle", "grow"}
  /\ pc = "grow" => arg # NoArg

\* The loops of insert, get and deleteKey stop only at an empty slot when the key
\* is absent: one is left in both tables, though cnt counts past 3/4 of the size
\* and deleteKey never counts down.
EmptySlotLeft ==
  /\ \E j \in 0..map.size-1 : map.elem[j].key = NULL
  /\ \E j \in 0..new.size-1 : new.elem[j].key = NULL

\* The copy into the doubled table never makes that table grow in the nested
\* insert, whose newMap would then be a copy the loop does not see.
NewNeverCrowded == pc = "grow" => ~Crowded(new)

\* cnt never falls below the number of keys in the table, so the load test of
\* insert is never too optimistic.
CountCoversKeys == Cardinality(Occupied(map)) <= map.cnt

\* What insert relies on: the types, a count that is never too low, and a copy that
\* never grows in its turn.
TableInv == TypeOK /\ CountCoversKeys /\ NewNeverCrowded

\* Right after insert, get finds the value that was inserted, and right after
\* deleteKey it finds the key no longer, also where deletions left older copies of
\* a key on its search path.
CallSeesItsEffect ==
  [][\A k \in Key, v \in Value :
       /\ Insert(k, v) \/ (InsertGrown /\ arg = [key |-> k, value |-> v])
            => Get(map', k) = v
       /\ DeleteKey(k) => Get(map', k) = NULL]_vars

\* Until a key is deleted the table is a map, through growth and collisions: it
\* implements KeyValue with get as its values (Spec => IsMap is the refinement).
Abstract == INSTANCE KeyValue WITH value <- [k \in Key |-> Get(map, k)]
IsMap == Abstract!Spec

\* With deleteKey it should be one too ("returning an element by its key and
\* deleting an element from the map", README.txt:11-12): deleting one key does not
\* change what get returns for another.
DeleteKeepsOthers ==
  [][\A k \in Key : DeleteKey(k) =>
       \A other \in Key \ {k} : Get(map', other) = Get(map, other)]_vars
=============================================================================
