---------------------------- MODULE HashMapProofs ----------------------------
(***************************************************************************)
(* hashmap.c implements the map of KeyValue until a key is deleted, for    *)
(* any keys, values, hash function and size: searches end, growth never    *)
(* nests, and a call sees what the call before it did.                     *)
(***************************************************************************)
EXTENDS HashMap, HashTableProofs, FiniteSetTheorems, TLAPS

-----------------------------------------------------------------------------
(***************************************************************************)
(* The invariant                                                           *)
(***************************************************************************)
\* cnt passes 3/4 of the size by one at most, and the copy holds fewer keys than
\* slots were copied.
CountInv ==
  /\ Covers(map) /\ Covers(new)
  /\ map.size >= 5 /\ 4 * map.cnt <= 3 * map.size + 4
  /\ IF pc = "grow" THEN new.size = 2 * map.size /\ new.cnt <= i ELSE new = CreateHashMap(1)

\* Until a key is deleted the tables hold no copies, and the one being filled finds
\* what was copied so far.
FindInv ==
  /\ Sound(new) /\ (~undef => Sound(map))
  /\ (pc = "grow" /\ ~undef) => \A k \in Key :
       Get(new, k) = IF \E j \in 0..i-1 : map.elem[j].key = k THEN Get(map, k) ELSE NULL

IInv == TypeOK /\ CountInv /\ EmptySlotLeft /\ FindInv

\* The table main.c creates.
THEOREM InitIInv == Init => IInv
  <1> SUFFICES ASSUME Init PROVE IInv
    OBVIOUS
  <1>1. /\ map = CreateHashMap(InitialSize) /\ new = CreateHashMap(1) /\ i = 0
        /\ arg = NoArg /\ undef = FALSE /\ pc = "idle"
    BY DEF Init
  <1>2. /\ TableOK(map, Value) /\ HasSpace(map) /\ Sound(map) /\ Covers(map)
        /\ map.size = InitialSize /\ map.cnt = 0
    BY <1>1, HashMapAssumption, CreateOK
  <1>3. TableOK(new, Value) /\ HasSpace(new) /\ Sound(new) /\ Covers(new)
    BY <1>1, HashMapAssumption, CreateOK
  <1>4. TypeOK
    <2>1. 0 \in 0..map.size
      BY <1>2, HashMapAssumption
    <2> QED
      BY <1>1, <1>2, <1>3, <2>1 DEF TypeOK
  <1>5. CountInv
    BY <1>1, <1>2, <1>3, HashMapAssumption DEF CountInv
  <1>6. EmptySlotLeft /\ FindInv
    BY <1>1, <1>2, <1>3 DEF EmptySlotLeft, HasSpace, FindInv
  <1> QED
    BY <1>4, <1>5, <1>6 DEF IInv

\* What an action does to the variables it does not name in the proofs below.
LEMMA Spaces ==
  ASSUME IInv
  PROVE  /\ TableOK(map, Value) /\ HasSpace(map) /\ TableOK(new, Value) /\ HasSpace(new)
         /\ map.size \in Nat /\ map.cnt \in Nat /\ new.size \in Nat /\ new.cnt \in Nat
         /\ i \in 0..map.size
  BY DEF IInv, TypeOK, EmptySlotLeft, HasSpace, TableOK

\* insert into a table that is not crowded.
LEMMA InsertKeeps == ASSUME IInv, NEW k \in Key, NEW v \in Value, Insert(k, v) PROVE IInv'
  <1>1. /\ pc = "idle" /\ map' = Place(map, k, v) /\ ~(map.cnt * 4 > map.size * 3)
        /\ UNCHANGED <<new, i, arg, undef, pc>>
    BY DEF Insert, Crowded
  <1>2. map.cnt + 1 < map.size /\ 4 * (map.cnt + 1) <= 3 * map.size + 4
    BY <1>1, Spaces DEF IInv, CountInv
  <1>3. /\ TableOK(map', Value) /\ HasSpace(map') /\ Covers(map') /\ map'.size = map.size
        /\ map'.cnt \in {map.cnt, map.cnt + 1}
    BY <1>1, <1>2, Spaces, HashMapAssumption, PlaceFits DEF IInv, CountInv
  <1>4. ~undef => Sound(map')
    BY <1>1, <1>3, Spaces, HashMapAssumption, PlaceSound DEF IInv, FindInv
  <1>5. TypeOK'
    BY <1>1, <1>3 DEF IInv, TypeOK
  <1>6. CountInv'
    BY <1>1, <1>2, <1>3, Spaces DEF IInv, CountInv
  <1>7. EmptySlotLeft'
    BY <1>1, <1>3 DEF IInv, EmptySlotLeft, HasSpace
  <1>8. FindInv'
    BY <1>1, <1>4 DEF IInv, FindInv
  <1> QED
    BY <1>5, <1>6, <1>7, <1>8 DEF IInv

\* insert makes a table of twice the size.
LEMMA InsertGrowsKeeps == ASSUME IInv, NEW k \in Key, NEW v \in Value, InsertGrows(k, v) PROVE IInv'
  <1>1. /\ new' = CreateHashMap(2 * map.size) /\ i' = 0 /\ arg' = [key |-> k, value |-> v]
        /\ pc' = "grow" /\ UNCHANGED <<map, undef>>
    BY DEF InsertGrows, Grown
  <1>2. map.size >= 5 /\ 2 * map.size \in Nat /\ 2 * map.size > 0
    BY Spaces DEF IInv, CountInv
  <1>3. /\ TableOK(new', Value) /\ HasSpace(new') /\ Sound(new') /\ Covers(new')
        /\ new'.size = 2 * map.size /\ new'.cnt = 0 /\ \A x \in Key : Get(new', x) = NULL
    BY <1>1, <1>2, HashMapAssumption, CreateOK
  <1>4. arg' \in Elem(Value) /\ arg' # NoArg
    BY <1>1, HashMapAssumption DEF Elem, NoArg, NullElem
  <1>5. TypeOK'
    BY <1>1, <1>3, <1>4, Spaces DEF IInv, TypeOK
  <1>6. CountInv'
    BY <1>1, <1>3 DEF IInv, CountInv
  <1>7. EmptySlotLeft'
    BY <1>1, <1>3 DEF IInv, EmptySlotLeft, HasSpace
  <1>8. FindInv'
    BY <1>1, <1>3 DEF IInv, FindInv
  <1> QED
    BY <1>5, <1>6, <1>7, <1>8 DEF IInv

\* One slot of the old table is copied.
LEMMA RehashKeeps == ASSUME IInv, Rehash PROVE IInv'
  <1> DEFINE e == map.elem[i]
  <1>1. /\ pc = "grow" /\ i \in 0..map.size-1 /\ i' = i + 1
        /\ new' = IF e.key # NULL THEN Place(new, e.key, e.value) ELSE new
        /\ UNCHANGED <<map, arg, undef, pc>>
    BY Spaces DEF Rehash
  <1>2. e \in Elem(Value) \cup {NullElem} /\ (e.key # NULL => e.key \in Key /\ e.value \in Value)
    BY <1>1, Spaces DEF TableOK, Elem, NullElem
  <1>3. new.cnt + 1 < new.size /\ new.size = 2 * map.size /\ new.cnt <= i /\ Covers(new)
    BY <1>1, Spaces DEF IInv, CountInv
  <1>4. /\ TableOK(new', Value) /\ HasSpace(new') /\ Covers(new') /\ new'.size = new.size
        /\ new'.cnt \in {new.cnt, new.cnt + 1} /\ Sound(new')
    <2>1. CASE e.key # NULL
      <3>1. new' = Place(new, e.key, e.value)
        BY <1>1, <2>1
      <3>2. /\ TableOK(new', Value) /\ HasSpace(new') /\ Covers(new') /\ new'.size = new.size
            /\ new'.cnt \in {new.cnt, new.cnt + 1}
        BY <1>2, <1>3, <2>1, <3>1, Spaces, HashMapAssumption, PlaceFits
      <3> QED
        BY <1>2, <2>1, <3>1, <3>2, Spaces, HashMapAssumption, PlaceSound DEF IInv, FindInv
    <2>2. CASE e.key = NULL
      BY <1>1, <1>3, <2>2, Spaces DEF IInv, FindInv
    <2> QED
      BY <2>1, <2>2
  <1>5. TypeOK'
    BY <1>1, <1>4, Spaces DEF IInv, TypeOK
  <1>6. CountInv'
    <2>1. new'.cnt <= i'
      BY <1>1, <1>3, <1>4, Spaces
    <2> QED
      BY <1>1, <1>3, <1>4, <2>1 DEF IInv, CountInv
  <1>7. EmptySlotLeft'
    BY <1>1, <1>4 DEF IInv, EmptySlotLeft, HasSpace
  <1>8. FindInv'
    <2>1. SUFFICES ASSUME ~undef, NEW k \in Key
                   PROVE  Get(new', k) = IF \E j \in 0..i : map.elem[j].key = k
                                         THEN Get(map, k) ELSE NULL
      BY <1>1, <1>4, Spaces DEF IInv, FindInv
    <2>2. Get(new, k) = IF \E j \in 0..i-1 : map.elem[j].key = k THEN Get(map, k) ELSE NULL
      BY <1>1, <2>1 DEF IInv, FindInv
    <2>3. \A j : j \in 0..i <=> j \in 0..i-1 \/ j = i
      BY <1>1
    <2>4. CASE e.key = k
      <3>1. k # NULL
        BY HashTableAssumption
      <3>2. new' = Place(new, k, e.value) /\ e.value \in Value
        BY <1>1, <1>2, <2>4, <3>1
      <3>3. Get(new', k) = e.value
        BY <3>2, Spaces, HashMapAssumption, PlaceGets
      <3>4. Found(map, k) = i
        BY <1>1, <2>1, <2>4, <3>1 DEF IInv, FindInv, Sound
      <3>5. Get(map, k) = e.value
        BY <3>4 DEF Get
      <3> QED
        BY <2>3, <2>4, <3>3, <3>5
    <2>5. CASE e.key # k
      <3>1. Get(new', k) = Get(new, k)
        <4>1. CASE e.key = NULL
          BY <1>1, <4>1
        <4>2. CASE e.key # NULL
          <5>1. new' = Place(new, e.key, e.value) /\ k \in Key \ {e.key}
            BY <1>1, <2>5, <4>2
          <5> QED
            BY <1>2, <1>4, <4>2, <5>1, Spaces, HashMapAssumption, PlaceKeepsOthers DEF IInv, FindInv
        <4> QED
          BY <4>1, <4>2
      <3> QED
        BY <2>2, <2>3, <2>5, <3>1
    <2> QED
      BY <2>4, <2>5
  <1> QED
    BY <1>5, <1>6, <1>7, <1>8 DEF IInv

\* Once every slot was copied the new table has every key of the old one.
LEMMA CopyComplete ==
  ASSUME IInv, pc = "grow", i = map.size, ~undef, NEW k \in Key
  PROVE  Get(new, k) = Get(map, k)
  <1>1. Get(new, k) = IF \E j \in 0..map.size-1 : map.elem[j].key = k THEN Get(map, k) ELSE NULL
    BY DEF IInv, FindInv
  <1>2. CASE \E j \in 0..map.size-1 : map.elem[j].key = k
    BY <1>1, <1>2
  <1>3. CASE ~(\E j \in 0..map.size-1 : map.elem[j].key = k)
    BY <1>1, <1>3, Spaces, HashMapAssumption, FoundOK
  <1> QED
    BY <1>2, <1>3

\* The key that made the table grow is inserted, and the new table taken.
LEMMA InsertGrownKeeps == ASSUME IInv, InsertGrown PROVE IInv'
  <1>1. /\ pc = "grow" /\ i = map.size /\ map' = Place(new, arg.key, arg.value)
        /\ new' = CreateHashMap(1) /\ i' = 0 /\ arg' = NoArg /\ pc' = "idle" /\ undef' = undef
    BY DEF InsertGrown
  <1>2. arg.key \in Key /\ arg.value \in Value
    BY <1>1 DEF IInv, TypeOK, Elem, NoArg
  <1>3. /\ new.size = 2 * map.size /\ new.cnt <= map.size /\ map.size >= 5
        /\ new.cnt + 1 < new.size /\ Covers(new)
    BY <1>1, Spaces DEF IInv, CountInv
  <1>4. /\ TableOK(map', Value) /\ HasSpace(map') /\ Covers(map') /\ map'.size = 2 * map.size
        /\ map'.cnt \in {new.cnt, new.cnt + 1}
    BY <1>1, <1>2, <1>3, Spaces, HashMapAssumption, PlaceFits
  <1>5. Sound(map')
    BY <1>1, <1>2, <1>4, Spaces, HashMapAssumption, PlaceSound DEF IInv, FindInv
  <1>6. TableOK(new', Value) /\ HasSpace(new') /\ Covers(new') /\ Sound(new')
    BY <1>1, HashMapAssumption, CreateOK
  <1>7. TypeOK'
    <2>1. 0 \in 0..map'.size
      BY <1>4, Spaces
    <2> QED
      BY <1>1, <1>4, <1>6, <2>1 DEF IInv, TypeOK
  <1>8. CountInv'
    <2>1. map'.size >= 5 /\ 4 * map'.cnt <= 3 * map'.size + 4
      BY <1>3, <1>4, Spaces
    <2> QED
      BY <1>1, <1>4, <1>6, <2>1 DEF CountInv
  <1>9. EmptySlotLeft' /\ FindInv'
    BY <1>1, <1>4, <1>5, <1>6 DEF EmptySlotLeft, HasSpace, FindInv
  <1> QED
    BY <1>7, <1>8, <1>9 DEF IInv

\* deleteKey empties a slot and forgets that a later key may need it on its path.
LEMMA DeleteKeyKeeps == ASSUME IInv, NEW k \in Key, DeleteKey(k) PROVE IInv'
  <1>1. /\ pc = "idle" /\ map' = Deleted(map, k) /\ undef' = TRUE
        /\ UNCHANGED <<new, i, arg, pc>>
    BY DEF DeleteKey
  <1>2. /\ TableOK(map', Value) /\ HasSpace(map') /\ map'.size = map.size /\ map'.cnt = map.cnt
        /\ Occupied(map') \subseteq Occupied(map)
    BY <1>1, Spaces, HashMapAssumption, DeleteGets
  <1>3. Covers(map')
    <2>1. Cardinality(Occupied(map')) <= Cardinality(Occupied(map))
      BY <1>2, Spaces, HashMapAssumption, OccupiedFinite, FS_Subset
    <2>2. /\ Cardinality(Occupied(map')) \in Nat /\ Cardinality(Occupied(map)) \in Nat
          /\ Cardinality(Occupied(map)) <= map.cnt
      BY <1>2, Spaces, HashMapAssumption, OccupiedFinite DEF IInv, CountInv, Covers
    <2> QED
      BY <1>2, <2>1, <2>2, Spaces DEF Covers
  <1>4. TypeOK'
    BY <1>1, <1>2 DEF IInv, TypeOK
  <1>5. CountInv'
    BY <1>1, <1>2, <1>3 DEF IInv, CountInv
  <1>6. EmptySlotLeft' /\ FindInv'
    BY <1>1, <1>2 DEF IInv, EmptySlotLeft, HasSpace, FindInv
  <1> QED
    BY <1>4, <1>5, <1>6 DEF IInv

-----------------------------------------------------------------------------
\* Every call, and every step of the copy, keeps the invariant.
THEOREM StepKeepsIInv == IInv /\ [Next]_vars => IInv'
  <1>1. ASSUME IInv, Next PROVE IInv'
    BY <1>1, InsertKeeps, InsertGrowsKeeps, RehashKeeps, InsertGrownKeeps, DeleteKeyKeeps
       DEF Next
  <1>2. ASSUME IInv, UNCHANGED vars PROVE IInv'
    BY <1>2 DEF IInv, vars, TypeOK, CountInv, Covers, EmptySlotLeft, FindInv
  <1> QED
    BY <1>1, <1>2

\* cnt covers the keys in the table, and the copy into the doubled table does not
\* make that one grow.
THEOREM GrowthIsFlat == Spec => []TableInv
  <1>1. ASSUME IInv PROVE TableInv
    <2>1. NewNeverCrowded
      <3>1. CASE pc = "grow"
        <4>1. new.size = 2 * map.size /\ new.cnt <= map.size /\ map.size >= 5
          BY <1>1, <3>1, Spaces DEF IInv, CountInv
        <4> QED
          BY <1>1, <4>1, Spaces DEF NewNeverCrowded, Crowded
      <3> QED
        BY <3>1 DEF NewNeverCrowded
    <2> QED
      BY <1>1, <2>1 DEF TableInv, IInv, CountInv, Covers, CountCoversKeys
  <1> QED
    BY <1>1, InitIInv, StepKeepsIInv, PTL DEF Spec

\* The loops of insert, get and deleteKey end: an empty slot is left.
THEOREM SearchesEnd == Spec => []EmptySlotLeft
  <1>1. IInv => EmptySlotLeft
    BY DEF IInv
  <1> QED
    BY <1>1, InitIInv, StepKeepsIInv, PTL DEF Spec

\* get finds what was inserted last and not what was deleted last, whatever copies
\* deletions have left in the table.
THEOREM EffectsSeen == Spec => CallSeesItsEffect
  <1> DEFINE Seen == \A k \in Key, v \in Value :
               /\ Insert(k, v) \/ (InsertGrown /\ arg = [key |-> k, value |-> v])
                    => Get(map', k) = v
               /\ DeleteKey(k) => Get(map', k) = NULL
  <1>1. ASSUME IInv PROVE Seen
    <2>1. SUFFICES ASSUME NEW k \in Key, NEW v \in Value
                   PROVE  /\ Insert(k, v) => Get(map', k) = v
                          /\ InsertGrown /\ arg = [key |-> k, value |-> v] => Get(map', k) = v
                          /\ DeleteKey(k) => Get(map', k) = NULL
      OBVIOUS
    <2>2. ASSUME Insert(k, v) PROVE Get(map', k) = v
      BY <1>1, <2>2, Spaces, HashMapAssumption, PlaceGets DEF Insert
    <2>3. ASSUME InsertGrown, arg = [key |-> k, value |-> v] PROVE Get(map', k) = v
      <3>1. map' = Place(new, k, v)
        BY <2>3 DEF InsertGrown
      <3> QED
        BY <1>1, <3>1, Spaces, HashMapAssumption, PlaceGets
    <2>4. ASSUME DeleteKey(k) PROVE Get(map', k) = NULL
      BY <1>1, <2>4, Spaces, HashMapAssumption, DeleteGets DEF DeleteKey
    <2> QED
      BY <2>2, <2>3, <2>4
  <1>2. IInv => [Seen]_vars
    BY <1>1
  <1> QED
    BY <1>2, InitIInv, StepKeepsIInv, PTL DEF Spec, CallSeesItsEffect

\* hashmap.c implements the map of KeyValue: until a key is deleted insert changes
\* one key, growth changes none, and every search finds the last value.
THEOREM ImplementsKeyValue == Spec => IsMap
  <1> DEFINE value == [k \in Key |-> Get(map, k)]
  <1>1. Init => Abstract!Init
    <2>1. SUFFICES ASSUME Init PROVE value = [k \in Key |-> NULL] /\ undef = FALSE
      BY DEF Abstract!Init
    <2>2. map = CreateHashMap(InitialSize) /\ undef = FALSE
      BY <2>1 DEF Init
    <2>3. \A k \in Key : Get(map, k) = NULL
      BY <2>2, CreateOK, HashMapAssumption
    <2> QED
      BY <2>2, <2>3
  <1>2. ASSUME IInv, IInv', [Next]_vars PROVE [Abstract!Next]_<<value, undef>>
    <2>1. ASSUME NEW k \in Key, NEW v \in Value, Insert(k, v) PROVE Abstract!Next
      <3>1. map' = Place(map, k, v) /\ undef' = undef /\ HasSpace(map')
        BY <1>2, <2>1 DEF Insert, IInv, EmptySlotLeft, HasSpace
      <3>2. /\ value' \in [Key -> Value \cup {NULL}] /\ value'[k] = v
            /\ ~undef => value' = [value EXCEPT ![k] = v]
        BY <1>2, <3>1, Spaces, HashMapAssumption, PlaceInserts DEF IInv, FindInv
      <3>3. Abstract!Insert(k, v)
        BY <3>1, <3>2 DEF Abstract!Insert
      <3> QED
        BY <3>3 DEF Abstract!Next
    <2>2. ASSUME InsertGrown PROVE Abstract!Next
      <3>1. /\ map' = Place(new, arg.key, arg.value) /\ undef' = undef /\ HasSpace(map')
            /\ arg.key \in Key /\ arg.value \in Value
        BY <1>2, <2>2 DEF InsertGrown, IInv, EmptySlotLeft, HasSpace, TypeOK, Elem, NoArg
      <3>2. ~undef => \A k \in Key : Get(new, k) = Get(map, k)
        BY <1>2, <2>2, CopyComplete DEF InsertGrown
      <3>3. ~undef => [k \in Key |-> Get(new, k)] = value
        BY <3>2
      <3>4. /\ value' \in [Key -> Value \cup {NULL}] /\ value'[arg.key] = arg.value
            /\ ~undef => value' = [value EXCEPT ![arg.key] = arg.value]
        <4>1. TableOK(new, Value) /\ HasSpace(new) /\ Sound(new)
          BY <1>2, Spaces DEF IInv, FindInv
        <4>2. /\ value' \in [Key -> Value \cup {NULL}] /\ value'[arg.key] = arg.value
              /\ value' = [[k \in Key |-> Get(new, k)] EXCEPT ![arg.key] = arg.value]
          BY <3>1, <4>1, HashMapAssumption, PlaceInserts
        <4> QED
          BY <3>3, <4>2
      <3>5. Abstract!Insert(arg.key, arg.value)
        BY <3>1, <3>4 DEF Abstract!Insert
      <3> QED
        BY <3>1, <3>5 DEF Abstract!Next
    <2>3. ASSUME NEW k \in Key, DeleteKey(k) PROVE Abstract!Next
      <3>1. map' = Deleted(map, k) /\ undef' = TRUE
        BY <2>3 DEF DeleteKey
      <3>2. TableOK(map', Value) /\ HasSpace(map') /\ Get(map', k) = NULL
        BY <1>2, <3>1, Spaces, HashMapAssumption, DeleteGets
      <3>3. \A x \in Key : Get(map', x) \in Value \cup {NULL}
        BY <3>2, HashMapAssumption, FoundOK
      <3>4. Abstract!Delete(k)
        BY <3>1, <3>2, <3>3 DEF Abstract!Delete
      <3> QED
        BY <3>4 DEF Abstract!Next
    <2>4. ASSUME \/ Rehash \/ UNCHANGED vars
                 \/ \E k \in Key, v \in Value : InsertGrows(k, v)
          PROVE  UNCHANGED <<value, undef>>
      BY <2>4 DEF Rehash, InsertGrows, vars
    <2> QED
      BY <1>2, <2>1, <2>2, <2>3, <2>4 DEF Next
  <1> QED
    BY <1>1, <1>2, InitIInv, StepKeepsIInv, PTL DEF Spec, IsMap, Abstract!Spec
=============================================================================
