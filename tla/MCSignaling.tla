---------------------------- MODULE MCSignaling ----------------------------
(***************************************************************************)
(* An instance of Signaling for TLC: two nodes.                            *)
(***************************************************************************)
EXTENDS Signaling

CONSTANTS n1, n2

TwoNodes == {n1, n2}
=============================================================================
