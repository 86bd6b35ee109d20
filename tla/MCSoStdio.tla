------------------------------ MODULE MCSoStdio ------------------------------
(***************************************************************************)
(* Constants for model checking SoStdio.                                   *)
(***************************************************************************)
EXTENDS SoStdioProps

EmptyOrNot == {<<>>, <<1, 0>>}
OneChunk == {<<1, 0>>}
=============================================================================
