----------------------------- MODULE MCLibrary -----------------------------
(***************************************************************************)
(* Instances of Library for TLC: a file of two chunks, and a name that no  *)
(* file has.                                                               *)
(***************************************************************************)
EXTENDS Library, TLC

CONSTANTS fa, na, nb

MCNames == {na, nb}
OneFile == {fa}
OneName == fa :> na
TwoChunks == fa :> 2
=============================================================================
