----------------------------- MODULE MCLogCache -----------------------------
(***************************************************************************)
(* Constants for model checking LogCache: the names of s1 and s1x agree in *)
(* their first 15 characters, and sq holds a character that is not         *)
(* printable.                                                              *)
(***************************************************************************)
EXTENDS LogCache

Services == {"s1", "s1x", "s2", "s3", "sq"}
Shorts == [s \in Services |-> IF s = "s1x" THEN "s1" ELSE s]
=============================================================================
