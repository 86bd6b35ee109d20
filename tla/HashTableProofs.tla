--------------------------- MODULE HashTableProofs ---------------------------
(***************************************************************************)
(* What the operators on a table of hashmap.c do, for any keys, values,    *)
(* hash function and size: a search ends, insert finds its value again and *)
(* leaves the other keys alone while no search is broken, and the copy to  *)
(* a table of twice the size keeps every key.                              *)
(***************************************************************************)
EXTENDS HashTable, FiniteSetTheorems, WellFoundedInduction, TLAPS

\* Multiples of the size of a table apart, two slots in it are the same.
LEMMA Quotients ==
  ASSUME NEW n \in Nat, n > 0, NEW a \in Int, NEW b \in Int, NEW r \in Nat, NEW s \in Nat,
         r < n, s < n, a * n + r = b * n + s
  PROVE  r = s
  <1>1. (a - b) * n = s - r
    OBVIOUS
  <1>2. CASE a - b >= 1
    <2>1. (a - b) * n >= n
      BY <1>2
    <2> QED
      BY <1>1, <2>1
  <1>3. CASE a - b <= -1
    <2>1. (b - a) * n >= n
      BY <1>3
    <2>2. (b - a) * n = r - s
      OBVIOUS
    <2> QED
      BY <2>1, <2>2
  <1>4. CASE a = b
    BY <1>4
  <1> QED
    BY <1>2, <1>3, <1>4

\* Quotient and remainder of a hash by the size of the table.
LEMMA SlotInTable ==
  ASSUME NEW h \in Nat, NEW n \in Nat, n > 0
  PROVE  h % n \in 0..n-1 /\ h = (h \div n) * n + (h % n) /\ h \div n \in Int
  OBVIOUS

\* What is a multiple of n and j more leaves j.
LEMMA Remainder ==
  ASSUME NEW x \in Nat, NEW n \in Nat, n > 0, NEW b \in Int, NEW j \in 0..n-1, x = b * n + j
  PROVE  x % n = j
  <1> DEFINE r == x % n
             q == x \div n
  <1>1. r \in Nat /\ r < n /\ q \in Int /\ q * n + r = b * n + j
    BY SlotInTable
  <1> HIDE DEF r, q
  <1>2. r = j
    BY <1>1, Quotients
  <1> QED
    BY <1>2 DEF r

\* The search passes every slot.
LEMMA SearchPassesAll ==
  ASSUME NEW h \in Nat, NEW n \in Nat, n > 0, NEW j \in 0..n-1
  PROVE  \E d \in 0..n-1 : (h + d) % n = j
  <1> DEFINE r == h % n
             q == h \div n
  <1>1. r \in 0..n-1 /\ h = q * n + r /\ q \in Int
    BY SlotInTable
  <1> HIDE DEF r, q
  <1>2. CASE j >= r
    <2>1. h + (j - r) = q * n + j /\ j - r \in 0..n-1 /\ h + (j - r) \in Nat
      BY <1>1, <1>2
    <2>2. (h + (j - r)) % n = j
      BY <1>1, <2>1, Remainder
    <2> QED
      BY <2>1, <2>2
  <1>3. CASE ~(j >= r)
    <2>1. /\ h + (j - r + n) = (q + 1) * n + j /\ j - r + n \in 0..n-1
          /\ h + (j - r + n) \in Nat /\ q + 1 \in Int
      BY <1>1, <1>3
    <2>2. (h + (j - r + n)) % n = j
      BY <2>1, Remainder
    <2> QED
      BY <2>1, <2>2
  <1> QED
    BY <1>2, <1>3

-----------------------------------------------------------------------------
HasSpace(m) == \E j \in 0..m.size-1 : m.elem[j].key = NULL

\* The first place that ends the search for k.
FirstEnd(m, k, d) == d \in 0..m.size-1 /\ Ends(m, k, d) /\ \A e \in 0..d-1 : ~Ends(m, k, e)

\* A set of natural numbers has a least element.
LEMMA Least ==
  ASSUME NEW T \in SUBSET Nat, T # {}
  PROVE  \E d \in T : \A e \in T : ~(e < d)
  <1>1. PICK d \in T : \A e \in T : ~(<<e, d>> \in OpToRel(<, Nat))
    BY NatLessThanWellFounded, WFMin
  <1>2. \A e \in T : e < d => <<e, d>> \in OpToRel(<, Nat)
    BY DEF OpToRel
  <1> QED
    BY <1>1, <1>2

\* Every place of a search is a slot of the table.
LEMMA SlotOK ==
  ASSUME NEW V, NULL \notin V, NEW m, TableOK(m, V), NEW k \in Key, NEW d \in Nat
  PROVE  Slot(m, k, d) \in 0..m.size-1
  <1>1. m.size \in Nat /\ m.size > 0 /\ Hash[k] + d \in Nat
    BY HashTableAssumption DEF TableOK
  <1> QED
    BY <1>1, SlotInTable DEF Slot

\* With an empty slot the search ends, at one place.
LEMMA SearchEnds ==
  ASSUME NEW V, NULL \notin V, NEW m, TableOK(m, V), HasSpace(m), NEW k \in Key
  PROVE  \E d : FirstEnd(m, k, d)
  <1> DEFINE T == {d \in 0..m.size-1 : Ends(m, k, d)}
  <1>1. m.size \in Nat /\ m.size > 0 /\ Hash[k] \in Nat
    BY HashTableAssumption DEF TableOK
  <1>2. PICK j \in 0..m.size-1 : m.elem[j].key = NULL
    BY DEF HasSpace
  <1>3. PICK d \in 0..m.size-1 : (Hash[k] + d) % m.size = j
    BY <1>1, SearchPassesAll
  <1>4. d \in T
    BY <1>2, <1>3 DEF Ends, Slot
  <1>5. PICK f \in T : \A e \in T : ~(e < f)
    <2>1. T \in SUBSET Nat /\ T # {}
      BY <1>1, <1>4
    <2> HIDE DEF T
    <2> QED
      BY <2>1, Least
  <1>6. \A e \in 0..f-1 : e \in 0..m.size-1 /\ e < f
    BY <1>1
  <1> QED
    BY <1>5, <1>6 DEF FirstEnd

\* The search ends at the first place that ends it.
LEMMA FoundIs ==
  ASSUME NEW V, NULL \notin V, NEW m, TableOK(m, V), NEW k \in Key, NEW d, FirstEnd(m, k, d)
  PROVE  Found(m, k) = Slot(m, k, d)
  <1> DEFINE c == CHOOSE x \in 0..m.size-1 :
                    Ends(m, k, x) /\ \A e \in 0..x-1 : ~Ends(m, k, e)
  <1>1. d \in 0..m.size-1 /\ Ends(m, k, d) /\ \A e \in 0..d-1 : ~Ends(m, k, e)
    BY DEF FirstEnd
  <1>2. c \in 0..m.size-1 /\ Ends(m, k, c) /\ \A e \in 0..c-1 : ~Ends(m, k, e)
    BY <1>1
  <1>3. m.size \in Int
    BY DEF TableOK
  <1>4. c = d
    <2> HIDE DEF c
    <2>1. c \in Int /\ d \in Int
      BY <1>1, <1>2, <1>3
    <2>2. ~(c < d)
      BY <1>1, <1>2, <2>1
    <2>3. ~(d < c)
      BY <1>1, <1>2, <2>1
    <2> QED
      BY <2>1, <2>2, <2>3
  <1> QED
    BY <1>4 DEF Found

\* What is found is an empty slot or the key.
LEMMA FoundOK ==
  ASSUME NEW V, NULL \notin V, NEW m, TableOK(m, V), HasSpace(m), NEW k \in Key
  PROVE  /\ Found(m, k) \in 0..m.size-1
         /\ m.elem[Found(m, k)].key \in {NULL, k}
         /\ m.elem[Found(m, k)] \in Elem(V) \cup {NullElem}
         /\ Get(m, k) \in V \cup {NULL}
         /\ m.elem[Found(m, k)].key = NULL <=> Get(m, k) = NULL
  <1>1. PICK d : FirstEnd(m, k, d)
    BY SearchEnds
  <1>2. Found(m, k) = Slot(m, k, d)
    BY <1>1, FoundIs
  <1>3. d \in Nat /\ Ends(m, k, d)
    BY <1>1 DEF FirstEnd, TableOK
  <1>4. Found(m, k) \in 0..m.size-1 /\ m.elem[Found(m, k)].key \in {NULL, k}
    BY <1>2, <1>3, SlotOK DEF Ends
  <1>5. m.elem[Found(m, k)] \in Elem(V) \cup {NullElem}
    BY <1>4 DEF TableOK
  <1> QED
    BY <1>4, <1>5, HashTableAssumption DEF Get, Elem, NullElem

-----------------------------------------------------------------------------
\* The loop of insert changes one slot, where the key is found.
LEMMA PlaceDoes ==
  ASSUME NEW V, NULL \notin V, NEW m, TableOK(m, V), HasSpace(m), NEW k \in Key, NEW v \in V
  PROVE  /\ TableOK(Place(m, k, v), V) /\ Place(m, k, v).size = m.size
         /\ Place(m, k, v).elem[Found(m, k)] = [key |-> k, value |-> v]
         /\ \A j \in 0..m.size-1 : j # Found(m, k) => Place(m, k, v).elem[j] = m.elem[j]
         /\ Place(m, k, v).cnt = m.cnt + (IF m.elem[Found(m, k)].key = NULL THEN 1 ELSE 0)
  <1> DEFINE s == Found(m, k)
             e == [key |-> k, value |-> v]
             n == IF m.elem[s].key = NULL THEN m.cnt + 1 ELSE m.cnt
  <1>1. s \in 0..m.size-1
    BY FoundOK
  <1>2. /\ m.size \in Nat \ {0} /\ m.cnt \in Nat
        /\ m.elem \in [0..m.size-1 -> Elem(V) \cup {NullElem}]
        /\ m = [size |-> m.size, cnt |-> m.cnt, elem |-> m.elem]
    BY DEF TableOK
  <1>3. e \in Elem(V) /\ n \in Nat
    BY <1>2 DEF Elem
  <1>4. Place(m, k, v) = [size |-> m.size, cnt |-> n, elem |-> [m.elem EXCEPT ![s] = e]]
    <2>1. Place(m, k, v) = [m EXCEPT !.elem = [m.elem EXCEPT ![s] = e], !.cnt = n]
      BY <1>2 DEF Place
    <2> HIDE DEF s, e, n
    <2> QED
      BY <1>2, <2>1
  <1> HIDE DEF s, e, n
  <1>5. /\ [m.elem EXCEPT ![s] = e] \in [0..m.size-1 -> Elem(V) \cup {NullElem}]
        /\ [m.elem EXCEPT ![s] = e][s] = e
        /\ \A j \in 0..m.size-1 : j # s => [m.elem EXCEPT ![s] = e][j] = m.elem[j]
    BY <1>1, <1>2, <1>3
  <1>6. TableOK(Place(m, k, v), V)
    BY <1>2, <1>3, <1>4, <1>5 DEF TableOK
  <1> QED
    BY <1>2, <1>4, <1>5, <1>6 DEF s, e, n

\* Tables with no more keys than counted: what an insertion does to both numbers.
LEMMA OccupiedFinite ==
  ASSUME NEW V, NULL \notin V, NEW m, TableOK(m, V)
  PROVE  /\ IsFiniteSet(Occupied(m)) /\ Cardinality(Occupied(m)) \in Nat
         /\ Cardinality(Occupied(m)) < m.size => HasSpace(m)
  <1>1. m.size \in Nat /\ m.size > 0
    BY DEF TableOK
  <1>2. IsFiniteSet(0..m.size-1) /\ Cardinality(0..m.size-1) = m.size
    <2>1. \A n \in Nat : n > 0 => IsFiniteSet(0..n-1) /\ Cardinality(0..n-1) = n
      <3>1. SUFFICES ASSUME NEW n \in Nat, n > 0
                     PROVE  IsFiniteSet(0..n-1) /\ Cardinality(0..n-1) = n
        OBVIOUS
      <3>2. /\ IsFiniteSet(0..n-1)
            /\ Cardinality(0..n-1) = IF 0 > n-1 THEN 0 ELSE n-1-0+1
        BY FS_Interval
      <3> QED
        BY <3>2
    <2> QED
      BY <1>1, <2>1
  <1>3. Occupied(m) \in SUBSET (0..m.size-1)
    BY DEF Occupied
  <1>4. IsFiniteSet(Occupied(m)) /\ Cardinality(Occupied(m)) \in Nat
    BY <1>2, <1>3, FS_Subset, FS_CardinalityType
  <1>5. ASSUME Cardinality(Occupied(m)) < m.size PROVE HasSpace(m)
    <2>1. Occupied(m) # 0..m.size-1
      BY <1>1, <1>2, <1>5
    <2> QED
      BY <1>3, <2>1 DEF Occupied, HasSpace
  <1> QED
    BY <1>4, <1>5

\* An insertion counts every key it adds.
LEMMA PlaceCounts ==
  ASSUME NEW V, NULL \notin V, NEW m, TableOK(m, V), HasSpace(m), NEW k \in Key, NEW v \in V,
         Cardinality(Occupied(m)) <= m.cnt
  PROVE  /\ Cardinality(Occupied(Place(m, k, v))) <= Place(m, k, v).cnt
         /\ Place(m, k, v).cnt \in {m.cnt, m.cnt + 1}
  <1> DEFINE p == Place(m, k, v)
             s == Found(m, k)
  <1>1. s \in 0..m.size-1 /\ m.cnt \in Nat
    BY FoundOK DEF TableOK
  <1>2. /\ p.size = m.size /\ p.elem[s].key = k
        /\ \A j \in 0..m.size-1 : j # s => p.elem[j] = m.elem[j]
        /\ p.cnt = m.cnt + (IF m.elem[s].key = NULL THEN 1 ELSE 0)
    <2>1. /\ p.size = m.size /\ p.elem[s] = [key |-> k, value |-> v]
          /\ \A j \in 0..m.size-1 : j # s => p.elem[j] = m.elem[j]
          /\ p.cnt = m.cnt + (IF m.elem[s].key = NULL THEN 1 ELSE 0)
      BY PlaceDoes
    <2> HIDE DEF p, s
    <2> QED
      BY <2>1
  <1> HIDE DEF p, s
  <1>3. Occupied(p) = Occupied(m) \cup {s}
    BY <1>1, <1>2, HashTableAssumption DEF Occupied
  <1>4. s \in Occupied(m) <=> m.elem[s].key # NULL
    BY <1>1 DEF Occupied
  <1>5. /\ Cardinality(Occupied(p)) =
             IF s \in Occupied(m) THEN Cardinality(Occupied(m)) ELSE Cardinality(Occupied(m)) + 1
        /\ Cardinality(Occupied(m)) \in Nat
    BY <1>3, OccupiedFinite, FS_AddElement
  <1>6. Cardinality(Occupied(p)) <= p.cnt /\ p.cnt \in {m.cnt, m.cnt + 1}
    BY <1>1, <1>2, <1>4, <1>5
  <1> QED
    BY <1>6 DEF p

\* A search that ends at slot s ends there still when only s was changed, to
\* something that ends it.
LEMMA SameEnd ==
  ASSUME NEW V, NULL \notin V, NEW m, TableOK(m, V), HasSpace(m), NEW p, TableOK(p, V), p.size = m.size, NEW k \in Key,
         \A j \in 0..m.size-1 : j # Found(m, k) => p.elem[j] = m.elem[j],
         p.elem[Found(m, k)].key \in {NULL, k}
  PROVE  Found(p, k) = Found(m, k)
  <1>1. PICK d : FirstEnd(m, k, d)
    BY SearchEnds
  <1>2. Found(m, k) = Slot(m, k, d) /\ \A e : Slot(p, k, e) = Slot(m, k, e)
    BY <1>1, FoundIs DEF Slot
  <1>3. d \in 0..m.size-1 /\ Ends(m, k, d) /\ \A e \in 0..d-1 : ~Ends(m, k, e)
    BY <1>1 DEF FirstEnd
  <1>4. Ends(p, k, d)
    BY <1>2 DEF Ends
  <1>5. ASSUME NEW e \in 0..d-1 PROVE ~Ends(p, k, e)
    <2>1. e \in Nat /\ ~Ends(m, k, e)
      BY <1>3
    <2>2. Slot(m, k, e) \in 0..m.size-1
      BY <2>1, SlotOK
    <2>3. Slot(m, k, e) # Found(m, k)
      BY <1>2, <1>3, <2>1 DEF Ends
    <2> QED
      BY <1>2, <2>1, <2>2, <2>3 DEF Ends
  <1>6. FirstEnd(p, k, d)
    BY <1>3, <1>4, <1>5 DEF FirstEnd
  <1> QED
    BY <1>2, <1>6, FoundIs

\* get finds what insert has placed, and nothing where deleteKey has cleared.
LEMMA PlaceGets ==
  ASSUME NEW V, NULL \notin V, NEW m, TableOK(m, V), HasSpace(m), NEW k \in Key, NEW v \in V
  PROVE  Found(Place(m, k, v), k) = Found(m, k) /\ Get(Place(m, k, v), k) = v
  <1> DEFINE p == Place(m, k, v)
             s == Found(m, k)
  <1>1. /\ TableOK(p, V) /\ p.size = m.size /\ p.elem[s] = [key |-> k, value |-> v]
        /\ \A j \in 0..m.size-1 : j # s => p.elem[j] = m.elem[j]
    BY PlaceDoes
  <1> HIDE DEF p
  <1>2. p.elem[s].key = k /\ p.elem[s].value = v
    BY <1>1
  <1>3. Found(p, k) = s
    BY <1>1, <1>2, SameEnd
  <1> QED
    BY <1>2, <1>3 DEF p, Get

\* deleteKey empties the slot where its key is found.
LEMMA DeleteGets ==
  ASSUME NEW V, NULL \notin V, NEW m, TableOK(m, V), HasSpace(m), NEW k \in Key
  PROVE  /\ TableOK(Deleted(m, k), V) /\ HasSpace(Deleted(m, k)) /\ Get(Deleted(m, k), k) = NULL
         /\ Deleted(m, k).size = m.size /\ Deleted(m, k).cnt = m.cnt
         /\ Occupied(Deleted(m, k)) \subseteq Occupied(m)
  <1> DEFINE p == Deleted(m, k)
             s == Found(m, k)
  <1>1. s \in 0..m.size-1
    BY FoundOK
  <1>2. /\ m.size \in Nat \ {0} /\ m.cnt \in Nat
        /\ m.elem \in [0..m.size-1 -> Elem(V) \cup {NullElem}]
        /\ m = [size |-> m.size, cnt |-> m.cnt, elem |-> m.elem]
    BY DEF TableOK
  <1>3. p = [size |-> m.size, cnt |-> m.cnt, elem |-> [m.elem EXCEPT ![s] = NullElem]]
    <2>1. p = [m EXCEPT !.elem = [m.elem EXCEPT ![s] = NullElem]]
      BY <1>2 DEF Deleted
    <2> HIDE DEF p, s
    <2> QED
      BY <1>2, <2>1
  <1> HIDE DEF p, s
  <1>4. /\ TableOK(p, V) /\ p.size = m.size /\ p.cnt = m.cnt /\ p.elem[s] = NullElem
        /\ \A j \in 0..m.size-1 : j # s => p.elem[j] = m.elem[j]
    BY <1>1, <1>2, <1>3 DEF TableOK
  <1>5. p.elem[s].key = NULL /\ p.elem[s].value = NULL
    BY <1>4 DEF NullElem
  <1>6. HasSpace(p) /\ Occupied(p) \subseteq Occupied(m)
    BY <1>1, <1>4, <1>5 DEF HasSpace, Occupied
  <1>7. Found(p, k) = s
    BY <1>4, <1>5, SameEnd DEF s
  <1> QED
    BY <1>4, <1>5, <1>6, <1>7 DEF p, Get

\* Every key in the table is where the search for it ends: there are no copies, and
\* no search ends before its key.
Sound(m) == \A j \in 0..m.size-1 : m.elem[j].key # NULL => Found(m, m.elem[j].key) = j

\* An insertion leaves every other key alone.
LEMMA PlaceKeepsOthers ==
  ASSUME NEW V, NULL \notin V, NEW m, TableOK(m, V), HasSpace(m), Sound(m), NEW k \in Key, NEW v \in V,
         HasSpace(Place(m, k, v)), NEW x \in Key \ {k}
  PROVE  /\ Get(Place(m, k, v), x) = Get(m, x)
         /\ Found(m, x) # Found(m, k) => Found(Place(m, k, v), x) = Found(m, x)
  <1> DEFINE p == Place(m, k, v)
             s == Found(m, k)
             f == Found(m, x)
  <1>1. /\ TableOK(p, V) /\ p.size = m.size /\ p.elem[s] = [key |-> k, value |-> v]
        /\ \A j \in 0..m.size-1 : j # s => p.elem[j] = m.elem[j]
    BY PlaceDoes
  <1>2. /\ s \in 0..m.size-1 /\ m.elem[s].key \in {NULL, k}
        /\ f \in 0..m.size-1 /\ m.elem[f].key \in {NULL, x}
        /\ m.elem[f].key = NULL <=> Get(m, x) = NULL
    BY FoundOK
  <1> HIDE DEF p
  <1>3. p.elem[s].key = k
    BY <1>1
  <1>4. CASE f # s
    <2>1. PICK d : FirstEnd(m, x, d)
      BY SearchEnds
    <2>2. f = Slot(m, x, d) /\ \A e : Slot(p, x, e) = Slot(m, x, e)
      BY <1>1, <2>1, FoundIs DEF Slot
    <2>3. d \in 0..m.size-1 /\ Ends(m, x, d) /\ \A e \in 0..d-1 : ~Ends(m, x, e)
      BY <2>1 DEF FirstEnd
    <2>4. Ends(p, x, d)
      BY <1>1, <1>2, <1>4, <2>2, <2>3 DEF Ends
    <2>5. ASSUME NEW e \in 0..d-1 PROVE ~Ends(p, x, e)
      <3>1. e \in Nat /\ ~Ends(m, x, e)
        BY <2>3
      <3>2. Slot(m, x, e) \in 0..m.size-1
        BY <3>1, SlotOK
      <3>3. CASE Slot(m, x, e) = s
        BY <1>3, <2>2, <3>3, HashTableAssumption DEF Ends
      <3>4. CASE Slot(m, x, e) # s
        BY <1>1, <2>2, <3>1, <3>2, <3>4 DEF Ends
      <3> QED
        BY <3>3, <3>4
    <2>6. FirstEnd(p, x, d)
      BY <1>1, <2>3, <2>4, <2>5 DEF FirstEnd
    <2>7. Found(p, x) = f
      BY <1>1, <2>2, <2>6, FoundIs
    <2> QED
      BY <1>1, <1>2, <1>4, <2>7 DEF p, Get
  <1>5. CASE f = s
    <2> DEFINE g == Found(p, x)
    <2>1. Get(m, x) = NULL
      BY <1>2, <1>5
    <2>2. /\ g \in 0..p.size-1 /\ p.elem[g].key \in {NULL, x}
          /\ p.elem[g].key = NULL <=> Get(p, x) = NULL
      BY <1>1, FoundOK DEF p
    <2> HIDE DEF g
    <2>3. p.elem[g].key # x
      <3>1. SUFFICES ASSUME p.elem[g].key = x PROVE FALSE
        OBVIOUS
      <3>2. g # s
        BY <1>3, <3>1
      <3>3. m.elem[g].key = x /\ x # NULL
        BY <1>1, <2>2, <3>1, <3>2, HashTableAssumption
      <3>4. f = g
        BY <1>1, <2>2, <3>3 DEF Sound
      <3> QED
        BY <1>5, <3>2, <3>4
    <2> QED
      BY <1>5, <2>1, <2>2, <2>3 DEF p
  <1> QED
    BY <1>4, <1>5

\* An insertion puts its key where the search for it ends.
LEMMA PlaceSound ==
  ASSUME NEW V, NULL \notin V, NEW m, TableOK(m, V), HasSpace(m), Sound(m), NEW k \in Key, NEW v \in V,
         HasSpace(Place(m, k, v))
  PROVE  Sound(Place(m, k, v))
  <1> DEFINE p == Place(m, k, v)
             s == Found(m, k)
  <1>1. /\ TableOK(p, V) /\ p.size = m.size /\ p.elem[s] = [key |-> k, value |-> v]
        /\ \A j \in 0..m.size-1 : j # s => p.elem[j] = m.elem[j]
    BY PlaceDoes
  <1>2. Found(p, k) = s
    BY PlaceGets
  <1>3. ASSUME NEW x \in Key \ {k}, Found(m, x) # s PROVE Found(p, x) = Found(m, x)
    BY <1>3, PlaceKeepsOthers
  <1> HIDE DEF p
  <1>4. SUFFICES ASSUME NEW j \in 0..m.size-1, p.elem[j].key # NULL
                 PROVE  Found(p, p.elem[j].key) = j
    BY <1>1 DEF p, Sound
  <1>5. CASE j = s
    <2>1. p.elem[j].key = k
      BY <1>1, <1>5
    <2> QED
      BY <1>2, <1>5, <2>1
  <1>6. CASE j # s
    <2>1. p.elem[j] = m.elem[j] /\ Found(m, m.elem[j].key) = j
      BY <1>1, <1>4, <1>6 DEF Sound
    <2>2. m.elem[j].key \in Key
      BY <1>4, <2>1 DEF TableOK, Elem, NullElem
    <2> QED
      BY <1>3, <1>6, <2>1, <2>2
  <1> QED
    BY <1>5, <1>6

-----------------------------------------------------------------------------
\* No more keys than cnt counts.
Covers(m) == Cardinality(Occupied(m)) <= m.cnt

\* A table that createHashMap has made.
LEMMA CreateOK ==
  ASSUME NEW V, NULL \notin V, NEW n \in Nat, n > 0
  PROVE  LET m == CreateHashMap(n) IN
         /\ TableOK(m, V) /\ HasSpace(m) /\ Sound(m) /\ Covers(m)
         /\ m.size = n /\ m.cnt = 0 /\ \A k \in Key : Get(m, k) = NULL
  <1> DEFINE m == CreateHashMap(n)
  <1>1. /\ m.size = n /\ m.cnt = 0 /\ m.elem = [j \in 0..n-1 |-> NullElem]
        /\ m = [size |-> n, cnt |-> 0, elem |-> [j \in 0..n-1 |-> NullElem]]
    BY DEF CreateHashMap
  <1> HIDE DEF m
  <1>2. \A j \in 0..n-1 : m.elem[j] = NullElem /\ m.elem[j].key = NULL /\ m.elem[j].value = NULL
    BY <1>1 DEF NullElem
  <1>3. TableOK(m, V)
    BY <1>1 DEF TableOK
  <1>4. HasSpace(m)
    BY <1>1, <1>2 DEF HasSpace
  <1>5. Sound(m)
    BY <1>1, <1>2 DEF Sound
  <1>6. Covers(m)
    <2>1. Occupied(m) = {}
      BY <1>1, <1>2 DEF Occupied
    <2>2. Cardinality(Occupied(m)) = 0
      BY <2>1, FS_EmptySet
    <2> QED
      BY <1>1, <2>2 DEF Covers
  <1>7. ASSUME NEW k \in Key PROVE Get(m, k) = NULL
    <2>1. TableOK(m, V) /\ HasSpace(m) /\ Found(m, k) \in 0..m.size-1
      BY <1>3, <1>4, FoundOK
    <2> QED
      BY <1>1, <1>2, <2>1 DEF Get
  <1> QED
    BY <1>1, <1>3, <1>4, <1>5, <1>6, <1>7 DEF m

\* A table with room for one more key takes it.
LEMMA PlaceFits ==
  ASSUME NEW V, NULL \notin V, NEW m, TableOK(m, V), HasSpace(m), Covers(m), m.cnt + 1 < m.size,
         NEW k \in Key, NEW v \in V
  PROVE  LET p == Place(m, k, v) IN
         /\ TableOK(p, V) /\ HasSpace(p) /\ Covers(p)
         /\ p.size = m.size /\ p.cnt \in {m.cnt, m.cnt + 1}
  <1> DEFINE p == Place(m, k, v)
  <1>1. TableOK(p, V) /\ p.size = m.size
    <2>1. TableOK(p, V)
      BY PlaceDoes
    <2>2. p.size = m.size
      BY DEF Place, TableOK
    <2> QED
      BY <2>1, <2>2
  <1>2. Covers(p) /\ p.cnt \in {m.cnt, m.cnt + 1}
    BY PlaceCounts DEF Covers
  <1> HIDE DEF p
  <1>3. Cardinality(Occupied(p)) < p.size
    <2>1. /\ m.cnt \in Nat /\ m.size \in Nat /\ p.cnt \in Nat
          /\ Cardinality(Occupied(p)) \in Nat
      BY <1>1, OccupiedFinite DEF TableOK
    <2> QED
      BY <1>1, <1>2, <2>1 DEF Covers
  <1>4. HasSpace(p)
    BY <1>1, <1>3, OccupiedFinite
  <1> QED
    BY <1>1, <1>2, <1>4 DEF p

\* insert changes what get returns for its key only, until a key was deleted.
LEMMA PlaceInserts ==
  ASSUME NEW V, NULL \notin V, NEW m, TableOK(m, V), HasSpace(m), NEW k \in Key, NEW v \in V, HasSpace(Place(m, k, v))
  PROVE  LET p == Place(m, k, v)
             f == [x \in Key |-> Get(p, x)]
         IN /\ f \in [Key -> V \cup {NULL}] /\ f[k] = v
            /\ Sound(m) => f = [[x \in Key |-> Get(m, x)] EXCEPT ![k] = v]
  <1> DEFINE p == Place(m, k, v)
             f == [x \in Key |-> Get(p, x)]
  <1>1. TableOK(p, V) /\ Get(p, k) = v
    <2>1. TableOK(p, V)
      BY PlaceDoes
    <2>2. Get(p, k) = v
      BY PlaceGets
    <2> QED
      BY <2>1, <2>2
  <1>2. Sound(m) => \A x \in Key \ {k} : Get(p, x) = Get(m, x)
    BY PlaceKeepsOthers
  <1>3. \A x \in Key : Get(p, x) \in V \cup {NULL}
    BY <1>1, FoundOK
  <1> HIDE DEF p
  <1>4. f \in [Key -> V \cup {NULL}] /\ f[k] = v
    BY <1>1, <1>3
  <1>5. Sound(m) => f = [[x \in Key |-> Get(m, x)] EXCEPT ![k] = v]
    BY <1>1, <1>2
  <1> QED
    BY <1>4, <1>5 DEF p

-----------------------------------------------------------------------------
(***************************************************************************)
(* Loops, and the copy insert makes                                        *)
(***************************************************************************)
\* f follows the loop that starts with s and takes step i for the i-th word.
Follows(f, n, s, step) ==
  f = [i \in 0..n |-> IF i = 0 THEN s ELSE step[i][f[i-1]]]

\* Such an f exists and stays in the set the steps stay in.
LEMMA LoopExists ==
  ASSUME NEW n \in Nat, NEW S, NEW s \in S, NEW step \in [1..n -> [S -> S]]
  PROVE  \E f \in [0..n -> S] : Follows(f, n, s, step)
  <1> DEFINE Good(m) == \E f \in [0..m -> S] : Follows(f, m, s, step)
             Bad == {m \in 0..n : ~Good(m)}
  <1>1. SUFFICES ASSUME Bad # {} PROVE FALSE
    OBVIOUS
  <1>2. PICK m \in Bad : \A e \in Bad : ~(e < m)
    <2>1. Bad \in SUBSET Nat
      OBVIOUS
    <2> HIDE DEF Bad
    <2> QED
      BY <1>1, <2>1, Least
  <1>3. CASE m = 0
    <2> DEFINE g == [i \in 0..0 |-> s]
    <2>1. g \in [0..0 -> S] /\ \A i \in 0..0 : g[i] = s
      OBVIOUS
    <2>2. g = [i \in 0..0 |-> g[i]]
      OBVIOUS
    <2> HIDE DEF g
    <2>3. Follows(g, 0, s, step)
      <3>1. \A i \in 0..0 : g[i] = IF i = 0 THEN s ELSE step[i][g[i-1]]
        BY <2>1
      <3> QED
        BY <2>2, <3>1 DEF Follows
    <2> QED
      BY <1>2, <1>3, <2>1, <2>3
  <1>4. CASE m # 0
    <2>1. m - 1 \in 0..n /\ m - 1 < m /\ m \in 1..n
      BY <1>4
    <2>2. Good(m - 1)
      BY <1>2, <2>1
    <2>3. PICK f \in [0..m-1 -> S] : Follows(f, m - 1, s, step)
      BY <2>2
    <2>4. PICK y \in S : y = step[m][f[m-1]]
      <3>1. f[m-1] \in S
        BY <2>1, <2>3
      <3>2. step[m] \in [S -> S]
        BY <2>1
      <3> QED
        BY <3>1, <3>2
    <2> DEFINE g == [i \in 0..m |-> IF i = m THEN y ELSE f[i]]
    <2>5. g \in [0..m -> S] /\ g[m] = y /\ \A i \in 0..m-1 : g[i] = f[i]
      <3>1. \A i \in 0..m : i # m => i \in 0..m-1
        BY <2>1
      <3>2. m \in 0..m /\ \A i \in 0..m-1 : i \in 0..m /\ i # m
        BY <2>1
      <3> QED
        BY <2>3, <3>1, <3>2
    <2>a. g = [i \in 0..m |-> g[i]]
      OBVIOUS
    <2> HIDE DEF g
    <2>6. ASSUME NEW i \in 0..m PROVE g[i] = IF i = 0 THEN s ELSE step[i][g[i-1]]
      <3>1. CASE i = m
        <4>1. g[m-1] = f[m-1]
          BY <2>1, <2>5
        <4> QED
          BY <1>4, <2>4, <2>5, <3>1, <4>1
      <3>2. CASE i # m
        <4>1. i \in 0..m-1 /\ (i # 0 => i - 1 \in 0..m-1 /\ i - 1 # m)
          BY <2>1, <3>2
        <4>2. f[i] = IF i = 0 THEN s ELSE step[i][f[i-1]]
          BY <2>3, <4>1 DEF Follows
        <4>3. g[i] = f[i] /\ (i # 0 => g[i-1] = f[i-1])
          BY <2>5, <4>1
        <4> QED
          BY <4>2, <4>3
      <3> QED
        BY <3>1, <3>2
    <2>7. Follows(g, m, s, step)
      BY <2>6, <2>a DEF Follows
    <2> QED
      BY <1>2, <2>5, <2>7
  <1> QED
    BY <1>3, <1>4

\* A loop whose steps stay in a set stays in it.
LEMMA LoopStays ==
  ASSUME NEW n \in Nat, NEW S, NEW f, f = [i \in 0..n |-> f[i]], f[0] \in S,
         \A i \in 1..n : f[i-1] \in S => f[i] \in S
  PROVE  f \in [0..n -> S]
  <1> DEFINE Bad == {j \in 0..n : f[j] \notin S}
  <1>1. SUFFICES ASSUME Bad # {} PROVE FALSE
    BY Zenon
  <1>2. PICK j \in Bad : \A e \in Bad : ~(e < j)
    <2>1. Bad \in SUBSET Nat
      OBVIOUS
    <2> HIDE DEF Bad
    <2> QED
      BY <1>1, <2>1, Least
  <1>3. j \in 1..n /\ j - 1 \in 0..n /\ j - 1 < j
    BY <1>2
  <1> QED
    BY <1>2, <1>3

\* A table insert may be called with: a slot is empty, cnt covers the keys and
\* passes 3/4 of the size by one at most.
Roomy(m) ==
  HasSpace(m) /\ Covers(m) /\ m.size >= 5 /\ 4 * m.cnt <= 3 * m.size + 4

\* t is the copy of the first n slots of m.
CopyOf(m, t, n, V) ==
  /\ TableOK(t, V) /\ HasSpace(t) /\ Covers(t) /\ Sound(t)
  /\ t.size = 2 * m.size /\ t.cnt <= n
  /\ Sound(m) => \A k \in Key :
       Get(t, k) = IF \E j \in 0..n-1 : m.elem[j].key = k THEN Get(m, k) ELSE NULL

CopySlot(m, t, n) ==
  IF m.elem[n].key # NULL THEN Place(t, m.elem[n].key, m.elem[n].value) ELSE t

\* One slot is copied.
LEMMA CopyNext ==
  ASSUME NEW V, NULL \notin V, NEW m, TableOK(m, V), m.size >= 5,
         NEW n \in 0..m.size-1, NEW t, CopyOf(m, t, n, V)
  PROVE  CopyOf(m, CopySlot(m, t, n), n + 1, V)
  <1> DEFINE e == m.elem[n]
             p == CopySlot(m, t, n)
  <1>1. /\ m.size \in Nat /\ n \in Nat /\ n < m.size /\ t.cnt \in Nat /\ t.size \in Nat
        /\ TableOK(t, V) /\ HasSpace(t) /\ Covers(t) /\ Sound(t)
        /\ t.size = 2 * m.size /\ t.cnt <= n /\ t.cnt + 1 < t.size
    BY DEF CopyOf, TableOK
  <1>2. e.key # NULL => e.key \in Key /\ e.value \in V
    BY DEF TableOK, Elem, NullElem
  <1>3. CASE e.key = NULL
    <2>1. p = t
      BY <1>3 DEF CopySlot
    <2>2. \A j : j \in 0..n <=> j \in 0..n-1 \/ j = n
      BY <1>1
    <2>3. ASSUME Sound(m), NEW k \in Key
          PROVE  Get(t, k) = IF \E j \in 0..n+1-1 : m.elem[j].key = k THEN Get(m, k) ELSE NULL
      <3>1. k # NULL /\ n + 1 - 1 = n
        BY <1>1, HashTableAssumption
      <3>2. Get(t, k) = IF \E j \in 0..n-1 : m.elem[j].key = k THEN Get(m, k) ELSE NULL
        BY <2>3 DEF CopyOf
      <3> QED
        BY <1>3, <2>2, <3>1, <3>2
    <2> QED
      BY <1>1, <2>1, <2>3 DEF CopyOf
  <1>4. CASE e.key # NULL
    <2>1. PICK key \in Key : key = e.key
      BY <1>2, <1>4
    <2>2. PICK value \in V : value = e.value
      BY <1>2, <1>4
    <2>3. p = Place(t, key, value)
      BY <1>4, <2>1, <2>2 DEF CopySlot
    <2>4. /\ TableOK(p, V) /\ HasSpace(p) /\ Covers(p) /\ p.size = t.size
          /\ p.cnt \in {t.cnt, t.cnt + 1}
      BY <1>1, <2>3, PlaceFits
    <2>5. Sound(p)
      BY <1>1, <2>3, <2>4, PlaceSound
    <2>6. ASSUME Sound(m), NEW k \in Key
          PROVE  Get(p, k) = IF \E j \in 0..n+1-1 : m.elem[j].key = k THEN Get(m, k) ELSE NULL
      <3>1. (\A j : j \in 0..n <=> j \in 0..n-1 \/ j = n) /\ n + 1 - 1 = n
        BY <1>1
      <3>2. CASE k = key
        <4>1. Get(p, k) = value
          BY <1>1, <2>3, <3>2, PlaceGets
        <4>2. Found(m, k) = n
          BY <1>4, <2>1, <2>6, <3>2 DEF Sound
        <4>3. Get(m, k) = value
          BY <2>2, <4>2 DEF Get
        <4> QED
          BY <2>1, <3>1, <3>2, <4>1, <4>3
      <3>3. CASE k # key
        <4>1. k \in Key \ {key}
          BY <3>3
        <4>2. Get(p, k) = Get(t, k)
          BY <1>1, <2>3, <2>4, <4>1, PlaceKeepsOthers
        <4>3. Get(t, k) = IF \E j \in 0..n-1 : m.elem[j].key = k THEN Get(m, k) ELSE NULL
          BY <2>6 DEF CopyOf
        <4> QED
          BY <2>1, <3>1, <3>3, <4>2, <4>3
      <3> QED
        BY <3>2, <3>3
    <2>7. p.size = 2 * m.size /\ p.cnt <= n + 1
      BY <1>1, <2>4
    <2> HIDE DEF p
    <2>8. CopyOf(m, p, n + 1, V)
      BY <2>4, <2>5, <2>6, <2>7 DEF CopyOf
    <2> QED
      BY <2>8 DEF p
  <1> QED
    BY <1>3, <1>4

\* The loop over the slots of the table that is replaced.
LEMMA CopiedLoop ==
  ASSUME NEW V, NULL \notin V, NEW m, TableOK(m, V)
  PROVE  \E f : /\ f[0] = CreateHashMap(2 * m.size)
               /\ \A n \in 1..m.size : f[n] = CopySlot(m, f[n-1], n-1)
               /\ Copied(m) = f[m.size]
  <1> DEFINE N == m.size
             S == {t \in [size : Nat \ {0}, cnt : Nat, elem : [0..2*m.size-1 -> Elem(V) \cup {NullElem}]] :
                     t.size = 2 * m.size}
             Body(g) == [n \in 0..N |-> IF n = 0 THEN CreateHashMap(Grown(m))
                           ELSE LET e == m.elem[n-1]
                                IN IF e.key # NULL THEN Place(g[n-1], e.key, e.value) ELSE g[n-1]]
             s == CreateHashMap(2 * m.size)
             step == [n \in 1..N |-> [t \in S |-> CopySlot(m, t, n-1)]]
             f == CHOOSE g : g = Body(g)
  <1>1. N \in Nat /\ N > 0 /\ m.elem \in [0..N-1 -> Elem(V) \cup {NullElem}]
    BY DEF TableOK
  <1>2. s \in S
    BY <1>1 DEF CreateHashMap
  <1>3. ASSUME NEW n \in 1..N, NEW t \in S PROVE CopySlot(m, t, n-1) \in S
    <2>1. n - 1 \in 0..N-1
      BY <1>1
    <2>2. CASE m.elem[n-1].key = NULL
      BY <2>2 DEF CopySlot
    <2>3. CASE m.elem[n-1].key # NULL
      <3>1. PICK e \in Elem(V) : e = m.elem[n-1]
        BY <1>1, <2>1, <2>3 DEF NullElem
      <3>2. e.key \in Key /\ e.value \in V /\ [key |-> e.key, value |-> e.value] \in Elem(V)
        BY DEF Elem
      <3>3. CopySlot(m, t, n-1) = Place(t, e.key, e.value)
        BY <2>3, <3>1 DEF CopySlot
      <3> HIDE DEF step, f, s
      <3>4. Place(t, e.key, e.value) \in S
        <4> DEFINE x == Found(t, e.key)
                   y == [key |-> e.key, value |-> e.value]
        <4>1. Place(t, e.key, e.value) =
                [t EXCEPT !.elem = [t.elem EXCEPT ![x] = y],
                          !.cnt = IF t.elem[x].key = NULL THEN t.cnt + 1 ELSE t.cnt]
          BY DEF Place
        <4> HIDE DEF x
        <4>2. [t.elem EXCEPT ![x] = y] \in [0..2*m.size-1 -> Elem(V) \cup {NullElem}]
          BY <3>2
        <4>3. (IF t.elem[x].key = NULL THEN t.cnt + 1 ELSE t.cnt) \in Nat
          OBVIOUS
        <4> QED
          BY <4>1, <4>2, <4>3
      <3> QED
        BY <3>3, <3>4
    <2> QED
      BY <2>2, <2>3
  <1>4. step \in [1..N -> [S -> S]]
    <2> HIDE DEF S
    <2> QED
      BY <1>3
  <1>5. PICK g \in [0..N -> S] : Follows(g, N, s, step)
    <2> HIDE DEF step, S, s, N
    <2> QED
      BY <1>1, <1>2, <1>4, LoopExists
  <1> HIDE DEF S
  <1>6. g = Body(g)
    <2>1. ASSUME NEW n \in 0..N, n # 0 PROVE step[n][g[n-1]] = CopySlot(m, g[n-1], n-1)
      <3>1. n \in 1..N /\ g[n-1] \in S
        <4> HIDE DEF step
        <4> QED
          BY <1>1, <1>5, <2>1
      <3>2. step[n] = [t \in S |-> CopySlot(m, t, n-1)]
        BY <3>1
      <3> QED
        BY <3>1, <3>2, Zenon
    <2> HIDE DEF step
    <2>2. g = [n \in 0..N |-> IF n = 0 THEN s ELSE step[n][g[n-1]]]
      BY <1>5 DEF Follows
    <2>3. g = [n \in 0..N |-> IF n = 0 THEN s ELSE CopySlot(m, g[n-1], n-1)]
      BY <2>1, <2>2
    <2> QED
      BY <2>3, Zenon DEF CopySlot, Grown
  <1>7. f = Body(f)
    BY <1>6, Zenon
  <1>8. Copied(m) = f[N]
    BY Zenon DEF Copied
  <1> HIDE DEF f
  <1>9. \A n \in 0..N : f[n] = IF n = 0 THEN s ELSE CopySlot(m, f[n-1], n-1)
    BY <1>7, Zenon DEF CopySlot, Grown
  <1>10. f[0] = s /\ \A n \in 1..N : f[n] = CopySlot(m, f[n-1], n-1)
    <2>1. 0 \in 0..N /\ \A n \in 1..N : n \in 0..N /\ n # 0
      BY <1>1
    <2> HIDE DEF s, N
    <2> QED
      BY <1>9, <2>1
  <1> QED
    BY <1>8, <1>10

\* All slots are copied.
LEMMA CopiedIs ==
  ASSUME NEW V, NULL \notin V, NEW m, TableOK(m, V), m.size >= 5
  PROVE  CopyOf(m, Copied(m), m.size, V)
  <1>1. PICK f : /\ f[0] = CreateHashMap(2 * m.size)
                 /\ \A n \in 1..m.size : f[n] = CopySlot(m, f[n-1], n-1)
                 /\ Copied(m) = f[m.size]
    BY CopiedLoop
  <1>2. m.size \in Nat /\ 2 * m.size \in Nat /\ 2 * m.size > 0
    BY DEF TableOK
  <1> DEFINE Bad == {n \in 0..m.size : ~CopyOf(m, f[n], n, V)}
  <1>3. SUFFICES ASSUME Bad # {} PROVE FALSE
    <2>1. m.size \in 0..m.size
      BY <1>2
    <2> QED
      BY <1>1, <2>1
  <1>4. PICK n \in Bad : \A e \in Bad : ~(e < n)
    <2>1. Bad \in SUBSET Nat
      OBVIOUS
    <2> HIDE DEF Bad
    <2> QED
      BY <1>3, <2>1, Least
  <1>5. CASE n = 0
    <2> DEFINE t == CreateHashMap(2 * m.size)
    <2>1. /\ TableOK(t, V) /\ HasSpace(t) /\ Sound(t) /\ Covers(t)
          /\ t.size = 2 * m.size /\ t.cnt = 0 /\ \A k \in Key : Get(t, k) = NULL
      BY <1>2, CreateOK
    <2> HIDE DEF t
    <2>2. CopyOf(m, t, 0, V)
      BY <2>1 DEF CopyOf
    <2> QED
      BY <1>1, <1>4, <1>5, <2>2 DEF t
  <1>6. CASE n # 0
    <2>1. n \in 1..m.size /\ n - 1 \in 0..m.size /\ n - 1 < n /\ n - 1 \in 0..m.size-1 /\ n - 1 + 1 = n
      BY <1>2, <1>4, <1>6
    <2>2. CopyOf(m, f[n-1], n - 1, V)
      BY <1>4, <2>1
    <2> DEFINE t == f[n-1]
               c == n - 1
    <2>3. CopyOf(m, t, c, V) /\ c \in 0..m.size-1
      BY <2>1, <2>2
    <2> HIDE DEF t, c
    <2>4. CopyOf(m, CopySlot(m, t, c), c + 1, V)
      BY <2>3, CopyNext
    <2>5. CopyOf(m, CopySlot(m, f[n-1], n - 1), n - 1 + 1, V)
      BY <2>4 DEF t, c
    <2> QED
      BY <1>1, <1>4, <2>1, <2>5
  <1> QED
    BY <1>5, <1>6

\* The copy has every key of the table it replaces.
LEMMA CopiedGets ==
  ASSUME NEW V, NULL \notin V, NEW m, TableOK(m, V), HasSpace(m), Sound(m), m.size >= 5, NEW k \in Key
  PROVE  Get(Copied(m), k) = Get(m, k)
  <1>1. Get(Copied(m), k) =
          IF \E j \in 0..m.size-1 : m.elem[j].key = k THEN Get(m, k) ELSE NULL
    BY CopiedIs DEF CopyOf
  <1>2. CASE \E j \in 0..m.size-1 : m.elem[j].key = k
    BY <1>1, <1>2
  <1>3. CASE ~(\E j \in 0..m.size-1 : m.elem[j].key = k)
    <2>1. /\ Found(m, k) \in 0..m.size-1 /\ m.elem[Found(m, k)].key \in {NULL, k}
          /\ m.elem[Found(m, k)].key = NULL <=> Get(m, k) = NULL
      BY FoundOK
    <2> QED
      BY <1>1, <1>3, <2>1
  <1> QED
    BY <1>2, <1>3

\* A whole call of insert: get finds the new value, and while no search is broken it
\* finds what it found for every other key.
LEMMA InsertedOK ==
  ASSUME NEW V, NULL \notin V, NEW m, TableOK(m, V), Roomy(m), NEW k \in Key, NEW v \in V
  PROVE  /\ TableOK(Inserted(m, k, v), V) /\ Roomy(Inserted(m, k, v))
         /\ Get(Inserted(m, k, v), k) = v
         /\ Sound(m) => /\ Sound(Inserted(m, k, v))
                        /\ \A x \in Key \ {k} : Get(Inserted(m, k, v), x) = Get(m, x)
  <1> DEFINE t == IF Crowded(m) THEN Copied(m) ELSE m
             p == Place(t, k, v)
  <1>1. m.size \in Nat /\ m.cnt \in Nat /\ m.size >= 5
    BY DEF TableOK, Roomy
  <1>2. /\ TableOK(t, V) /\ HasSpace(t) /\ Covers(t) /\ t.size >= 5
        /\ 4 * (t.cnt + 1) <= 3 * t.size + 4 /\ t.cnt + 1 < t.size
        /\ Sound(m) => Sound(t) /\ \A x \in Key : Get(t, x) = Get(m, x)
    <2>1. CASE Crowded(m)
      <3>1. t = Copied(m)
        BY <2>1
      <3> HIDE DEF t
      <3>2. /\ TableOK(t, V) /\ HasSpace(t) /\ Covers(t) /\ Sound(t)
            /\ t.size = 2 * m.size /\ t.cnt <= m.size
        BY <1>1, <3>1, CopiedIs DEF CopyOf
      <3>3. t.cnt \in Nat
        BY <3>2 DEF TableOK
      <3>4. Sound(m) => \A x \in Key : Get(t, x) = Get(m, x)
        BY <1>1, <3>1, CopiedGets DEF Roomy
      <3> QED
        BY <1>1, <3>2, <3>3, <3>4
    <2>2. CASE ~Crowded(m)
      <3>1. t = m
        BY <2>2
      <3> HIDE DEF t
      <3> QED
        BY <1>1, <2>2, <3>1 DEF Roomy, Crowded
    <2> QED
      BY <2>1, <2>2
  <1> HIDE DEF t
  <1>3. t.size \in Nat /\ t.cnt \in Nat
    BY <1>2 DEF TableOK
  <1>4. /\ TableOK(p, V) /\ HasSpace(p) /\ Covers(p) /\ p.size = t.size
        /\ p.cnt \in {t.cnt, t.cnt + 1}
    BY <1>2, PlaceFits
  <1>5. Get(p, k) = v
    BY <1>2, PlaceGets
  <1>6. Sound(m) => Sound(p) /\ \A x \in Key \ {k} : Get(p, x) = Get(t, x)
    <2>1. ASSUME Sound(m) PROVE Sound(p)
      BY <1>2, <1>4, <2>1, PlaceSound
    <2>2. ASSUME Sound(m), NEW x \in Key \ {k} PROVE Get(p, x) = Get(t, x)
      BY <1>2, <1>4, <2>2, PlaceKeepsOthers
    <2> QED
      BY <2>1, <2>2
  <1> HIDE DEF p
  <1>7. p.size >= 5 /\ 4 * p.cnt <= 3 * p.size + 4
    BY <1>2, <1>3, <1>4
  <1>8. TableOK(p, V) /\ Roomy(p)
    BY <1>4, <1>7 DEF Roomy
  <1>9. Sound(m) => Sound(p) /\ \A x \in Key \ {k} : Get(p, x) = Get(m, x)
    BY <1>2, <1>6
  <1>10. Inserted(m, k, v) = p
    BY DEF Inserted, t, p
  <1> QED
    BY <1>5, <1>8, <1>9, <1>10

\* deleteKey loses the key it is given; when no other search was broken by the slot
\* it empties, none is broken now.
LEMMA DeletedOK ==
  ASSUME NEW V, NULL \notin V, NEW m, TableOK(m, V), Roomy(m), NEW k \in Key
  PROVE  /\ TableOK(Deleted(m, k), V) /\ Roomy(Deleted(m, k)) /\ Get(Deleted(m, k), k) = NULL
         /\ Sound(m) /\ (\A x \in Key \ {k} : Get(Deleted(m, k), x) = Get(m, x))
              => Sound(Deleted(m, k))
  <1> DEFINE p == Deleted(m, k)
             s == Found(m, k)
  <1>1. /\ TableOK(p, V) /\ HasSpace(p) /\ Get(p, k) = NULL
        /\ p.size = m.size /\ p.cnt = m.cnt /\ Occupied(p) \subseteq Occupied(m)
    BY DeleteGets DEF Roomy
  <1>2. s \in 0..m.size-1 /\ m.elem[s].key \in {NULL, k}
    BY FoundOK DEF Roomy
  <1>3. p.elem[s] = NullElem /\ \A j \in 0..m.size-1 : j # s => p.elem[j] = m.elem[j]
    <2>1. p = [m EXCEPT !.elem = [m.elem EXCEPT ![s] = NullElem]]
      BY DEF Deleted
    <2> HIDE DEF p, s
    <2>2. p.elem = [m.elem EXCEPT ![s] = NullElem] /\ m.elem \in [0..m.size-1 -> Elem(V) \cup {NullElem}]
      BY <2>1 DEF TableOK
    <2> QED
      BY <1>2, <2>2
  <1> HIDE DEF p, s
  <1>4. Roomy(p)
    <2>1. Cardinality(Occupied(p)) <= Cardinality(Occupied(m))
      BY <1>1, OccupiedFinite, FS_Subset
    <2>2. /\ Cardinality(Occupied(p)) \in Nat /\ Cardinality(Occupied(m)) \in Nat /\ m.cnt \in Nat
      BY <1>1, OccupiedFinite DEF TableOK
    <2>3. Covers(p)
      BY <1>1, <2>1, <2>2 DEF Covers, Roomy
    <2> QED
      BY <1>1, <2>3 DEF Roomy
  <1>5. ASSUME Sound(m), \A x \in Key \ {k} : Get(p, x) = Get(m, x) PROVE Sound(p)
    <2>1. SUFFICES ASSUME NEW j \in 0..m.size-1, p.elem[j].key # NULL
                   PROVE  Found(p, p.elem[j].key) = j
      BY <1>1 DEF Sound
    <2>2. j # s
      BY <1>3, <2>1 DEF NullElem
    <2>3. p.elem[j] = m.elem[j] /\ m.elem[j] \in Elem(V)
      BY <1>3, <2>1, <2>2 DEF TableOK, NullElem
    <2>4. PICK x \in Key : x = m.elem[j].key
      BY <2>3 DEF Elem
    <2>5. Found(m, x) = j
      BY <1>5, <2>1, <2>3, <2>4 DEF Sound
    <2>6. x # k
      BY <2>2, <2>5 DEF s
    <2>7. Get(m, x) # NULL
      BY <2>3, <2>5 DEF Get, Elem
    <2>8. Get(p, x) # NULL
      BY <1>5, <2>6, <2>7
    <2> DEFINE g == Found(p, x)
    <2>9. g \in 0..p.size-1 /\ p.elem[g].key \in {NULL, x} /\ p.elem[g].key # NULL
      BY <1>1, <2>8, FoundOK
    <2> HIDE DEF g
    <2>10. g # s
      BY <1>3, <2>9 DEF NullElem
    <2>11. m.elem[g].key = x /\ x # NULL
      BY <1>1, <1>3, <2>9, <2>10, HashTableAssumption
    <2>12. Found(m, x) = g
      BY <1>1, <1>5, <2>9, <2>11 DEF Sound
    <2> QED
      BY <2>3, <2>4, <2>5, <2>12 DEF g
  <1> QED
    BY <1>1, <1>4, <1>5 DEF p
=============================================================================
