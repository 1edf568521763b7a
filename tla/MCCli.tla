------------------------------- MODULE MCCli -------------------------------
(***************************************************************************)
(* An instance of Cli for TLC: a client that downloads a file, and one     *)
(* that downloads another or registers one.                                *)
(***************************************************************************)
EXTENDS Cli, TLC

CONSTANTS f1, f2, p1

TwoFiles == {f1, f2}
TheFirst == {1}
OnePeer == {p1}
AnotherFile == <<f1, f2>>
ARegistration == <<f1, NoFile>>
SomeWants == {AnotherFile, ARegistration}
SomeIntros == (AnotherFile :> 0) @@ (ARegistration :> 2)
=============================================================================
