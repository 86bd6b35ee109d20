------------------------------ MODULE MCHashMap ------------------------------
(***************************************************************************)
(* Constants for model checking HashMap: "ab" and "ba" have the same sum,  *)
(* so they collide in every table.                                         *)
(***************************************************************************)
EXTENDS HashMap

Keys == {"ab", "ba", "c", "d"}
Sums == [k \in Keys |-> CASE k \in {"ab", "ba"} -> 195 [] k = "c" -> 99 [] k = "d" -> 100]
=============================================================================
