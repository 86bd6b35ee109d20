----------------------------- MODULE FileBytes ------------------------------
(***************************************************************************)
(* A regular file as a sequence of bytes: what write and read do to it at  *)
(* an offset, as libso_stdio.c relies on it.                               *)
(***************************************************************************)
EXTENDS Integers, Sequences

Larger(a, b)  == IF a > b THEN a ELSE b
Smaller(a, b) == IF a < b THEN a ELSE b

\* The file after bytes are stored at offset at; a gap is filled with 0.
Overwrite(s, at, bytes) ==
  IF bytes = <<>> THEN s
  ELSE [i \in 1..Larger(Len(s), at + Len(bytes)) |->
          IF at < i /\ i <= at + Len(bytes) THEN bytes[i - at]
          ELSE IF i <= Len(s) THEN s[i] ELSE 0]

\* The n bytes (fewer at the end of the file) that follow offset at.
Following(s, at, n) == SubSeq(s, at + 1, Smaller(at + n, Len(s)))

=============================================================================
