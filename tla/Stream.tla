------------------------------- MODULE Stream -------------------------------
(***************************************************************************)
(* What the transport package promises of a connection's Recv: messages    *)
(* come in the order they were sent, none twice and none that was not      *)
(* sent; some may be missing.  Messages are numbered as they are sent.     *)
(***************************************************************************)
EXTENDS Naturals, Sequences

CONSTANT Conns

VARIABLES
    sent,   \* number of messages sent on each connection
    got     \* messages received from it

vars == <<sent, got>>

Init ==
    /\ sent = [c \in Conns |-> 0]
    /\ got = [c \in Conns |-> <<>>]

Send(c) ==
    /\ sent' = [sent EXCEPT ![c] = @ + 1]
    /\ UNCHANGED got

Deliver(c) ==
    /\ \E m \in 1..sent[c] :
          /\ \A k \in 1..Len(got[c]) : got[c][k] < m
          /\ got' = [got EXCEPT ![c] = Append(@, m)]
    /\ UNCHANGED sent

Next == \E c \in Conns : Send(c) \/ Deliver(c)

Spec == Init /\ [][Next]_vars
=============================================================================
