------------------------------ MODULE HashTable ------------------------------
(***************************************************************************)
(* hashmap.c: the open-addressing table of the preprocessor as operators   *)
(* over a table m.  HashMap calls them one at a time and grows the table   *)
(* step by step; Preprocessor keeps its symbols in such a table.           *)
(***************************************************************************)
EXTENDS Integers

CONSTANTS
  Key,    \* symbols that may be defined
  NULL,   \* the null pointer: neither a key nor a value
  Hash    \* Hash[k]: the sum of the characters of k

ASSUME HashTableAssumption == NULL \notin Key /\ Hash \in [Key -> Nat]

NullElem == [key |-> NULL, value |-> NULL]

CreateHashMap(size) ==
  [size |-> size, cnt |-> 0, elem |-> [j \in 0..size-1 |-> NullElem]]

\* The slot d places after the one key k hashes to.
Slot(m, k, d) == (Hash[k] + d) % m.size

\* The search of insert, get and deleteKey ends at an empty slot or at the key.
Ends(m, k, d) == m.elem[Slot(m, k, d)].key \in {NULL, k}

\* Where the search for k ends: the first slot that ends it.
Found(m, k) ==
  Slot(m, k, CHOOSE d \in 0..m.size-1 :
               Ends(m, k, d) /\ \A e \in 0..d-1 : ~Ends(m, k, e))

Get(m, k) == m.elem[Found(m, k)].value

\* Faulty variant: the slot a key hashes to is taken for free.
PlaceHome(m, k, v) ==
  [m EXCEPT !.elem[Slot(m, k, 0)] = [key |-> k, value |-> v], !.cnt = @ + 1]

\* The loop of insert.
Place(m, k, v) ==
  LET s == Found(m, k) IN
  [m EXCEPT !.elem[s] = [key |-> k, value |-> v],
            !.cnt = IF m.elem[s].key = NULL THEN @ + 1 ELSE @]

\* Faulty variant: the load test compares whole tables.
CrowdedLate(m) == m.cnt > m.size

Crowded(m) == m.cnt * 4 > m.size * 3

\* Faulty variant: the new table is no larger.
GrownSame(m) == m.size

\* The size of newMap.
Grown(m) == 2 * m.size

\* Faulty variant: the key is looked for only in the slot it hashes to.
DeletedHome(m, k) == [m EXCEPT !.elem[Slot(m, k, 0)] = IF @.key = k THEN NullElem ELSE @]

\* deleteKey; cnt stays as it is.
Deleted(m, k) == [m EXCEPT !.elem[Found(m, k)] = NullElem]

\* All the slots of m copied to the table that is to replace it.
Copied(m) ==
  LET new[n \in 0..m.size] ==
        IF n = 0 THEN CreateHashMap(Grown(m))
        ELSE LET e == m.elem[n-1]
             IN IF e.key # NULL THEN Place(new[n-1], e.key, e.value) ELSE new[n-1]
  IN new[m.size]

\* A whole call of insert.
Inserted(m, k, v) == Place(IF Crowded(m) THEN Copied(m) ELSE m, k, v)

-----------------------------------------------------------------------------
(***************************************************************************)
(* What the properties say of a table                                      *)
(***************************************************************************)
Occupied(m) == {j \in 0..m.size-1 : m.elem[j].key # NULL}

\* A slot with a key of the table and a value of the set V.
Elem(V) == [key : Key, value : V]

\* A table has an array of size slots, each with a key and a value or with neither.
TableOK(m, V) ==
  m \in [size : Nat \ {0}, cnt : Nat, elem : [0..m.size-1 -> Elem(V) \cup {NullElem}]]
=============================================================================
