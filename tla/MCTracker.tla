----------------------------- MODULE MCTracker -----------------------------
(***************************************************************************)
(* Instances of Tracker for TLC.                                           *)
(***************************************************************************)
EXTENDS Tracker, TLC

CONSTANTS c1, c2, c3, a1, a2, fa, fb

\* The third connection reuses the address of the first.
ThreeConns == {c1, c2, c3}
AddrReused == c1 :> a1 @@ c2 :> a2 @@ c3 :> a1
TwoConns == {c1, c2}
AddrApart == c1 :> a1 @@ c2 :> a2

OneFile == {fa}
FirstShares == [c \in Conns |-> IF c = c1 THEN {fa} ELSE {}]

SecondAsks == [c \in Conns |-> IF c = c2 THEN {fa} ELSE {}]

\* Both daemons have one file, and the first has another.
TwoFiles == {fa, fb}
Common == c1 :> {fa, fb} @@ c2 :> {fa}
=============================================================================
