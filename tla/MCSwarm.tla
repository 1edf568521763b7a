------------------------------ MODULE MCSwarm ------------------------------
(***************************************************************************)
(* Instances of Swarm for TLC.                                             *)
(***************************************************************************)
EXTENDS Swarm, TLC

CONSTANTS n1, n2, fa, fb

TwoNodes == {n1, n2}
OneFile == {fa}
TwoFiles == {fa, fb}

\* n2 has registered every file and n1 downloads.
SeedListed == [f \in Files |-> {n2}]
SeedHas == [n \in Nodes |-> [f \in Files |-> IF n = n2 THEN Chunks ELSE {}]]
FirstWants == [n \in Nodes |-> IF n = n1 THEN Files ELSE {}]

\* Each of two nodes wants what the other has, n2 being a restarted downloader
\* of fa that got its last chunk only.
EachListed == fa :> {n2} @@ fb :> {n1}
EachHas == n1 :> (fa :> {} @@ fb :> Chunks) @@ n2 :> (fa :> {NumChunks - 1} @@ fb :> {})
EachWants == n1 :> {fa} @@ n2 :> {fb}
=============================================================================
