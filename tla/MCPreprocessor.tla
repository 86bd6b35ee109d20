--------------------------- MODULE MCPreprocessor ---------------------------
(***************************************************************************)
(* Constants for model checking Preprocessor: "ab" and "ba" have the same  *)
(* sum, so they collide in the table, and "a" is a part of both.           *)
(***************************************************************************)
EXTENDS Preprocessor

a  == <<"a">>
ab == <<"a", "b">>
ba == <<"b", "a">>
x  == <<"x">>
zero == <<"0">>

Keys == {a, ab, ba}
Sums == [k \in Keys |-> IF k = a THEN 97 ELSE 195]
Chars == {"a", "b", "x", "0"}

Values == [k \in Keys |-> CASE k = a  -> {<<>>, <<zero>>, <<ba>>, <<x, ab>>}
                            [] k = ab -> {<<a>>, <<ba>>}
                            [] k = ba -> {<<a>>, <<ab>>}]

Lines ==
  [d : {"define"}, indented : {FALSE}, key : {a}, val : Values[a]]
    \cup UNION {[d : {"define"}, indented : {FALSE}, key : {k}, val : Values[k]] : k \in {ab, ba}}
    \cup [d : {"continued"}, indented : {FALSE}, key : {ab}, val : {<<a>>}]
    \cup [d : {"undef"}, indented : {FALSE}, key : {ab}]
    \cup [d : {"ifdef"}, indented : {FALSE}, key : {a}]
    \cup [d : {"ifndef"}, indented : {TRUE}, key : {ab}]
    \cup [d : {"if", "elif"}, indented : {FALSE}, cond : {a, zero}]
    \cup [d : {"else"}, indented : {FALSE}]
    \cup [d : {"endif"}, indented : BOOLEAN]
    \cup [d : {"include"}, indented : {FALSE}, file : {"f", "lost"}]
    \cup [d : {"text"}, indented : {FALSE}, words : {<<>>, <<ab, ba>>, <<ba, a>>}]

Arguments ==
  {[opt |-> "D", key |-> a, val |-> <<ba>>],
   [opt |-> "I", dir |-> "inc"], [opt |-> "o", file |-> "out"],
   [opt |-> "", file |-> "in"]}

Files == {<<"inc", "f">>}
=============================================================================
