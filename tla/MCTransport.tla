---------------------------- MODULE MCTransport ----------------------------
(***************************************************************************)
(* An instance of Transport for TLC: two connections, one peer, two calls  *)
(* of HandleSignal at once.                                                *)
(***************************************************************************)
EXTENDS Transport, TLC

CONSTANTS c1, c2, p1, g1, g2

TwoConns == {c1, c2}
OnePeer == {p1}
TwoCallers == {g1, g2}
SomeMsgs == (c1 :> 3) @@ (c2 :> 0)
Symmetry == Permutations(TwoCallers)
=============================================================================
