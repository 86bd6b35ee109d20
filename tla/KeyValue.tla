------------------------------ MODULE KeyValue ------------------------------
(***************************************************************************)
(* What the map of the preprocessor promises: every key has at most one    *)
(* value, the last one inserted.  Once a key was deleted it promises only  *)
(* that this key has no value then: the other keys may have any.           *)
(***************************************************************************)
CONSTANTS Key, Value, NULL

VARIABLES
  value,   \* value[k]: what get returns for key k
  undef    \* a key was deleted

Init == value = [k \in Key |-> NULL] /\ undef = FALSE

Insert(k, v) ==
  /\ IF undef THEN value' \in [Key -> Value \cup {NULL}] /\ value'[k] = v
     ELSE value' = [value EXCEPT ![k] = v]
  /\ UNCHANGED undef

Delete(k) ==
  /\ value' \in [Key -> Value \cup {NULL}]
  /\ value'[k] = NULL
  /\ undef' = TRUE

Next == \E k \in Key : Delete(k) \/ \E v \in Value : Insert(k, v)

Spec == Init /\ [][Next]_<<value, undef>>
=============================================================================
