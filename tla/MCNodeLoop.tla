----------------------------- MODULE MCNodeLoop -----------------------------
(***************************************************************************)
(* An instance of NodeLoop for TLC: one file known at the start and one    *)
(* that is not, two goroutines, channels of capacity 1.                    *)
(***************************************************************************)
EXTENDS NodeLoop

CONSTANTS fa, fb, j1, j2

TwoFiles == {fa, fb}
KnownFile == {fa}
TwoJobs == {j1, j2}
=============================================================================
