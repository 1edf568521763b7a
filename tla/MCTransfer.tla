---------------------------- MODULE MCTransfer ----------------------------
(***************************************************************************)
(* An instance of Transfer for TLC: files of up to nine bytes in chunks of *)
(* two to four, with a name that has a colon and one that has none.        *)
(***************************************************************************)
EXTENDS Transfer

UpToNine == 0..9
TwoToFour == 2..4
TwoNames == {<<"notes">>, <<"notes", "old">>}
=============================================================================
