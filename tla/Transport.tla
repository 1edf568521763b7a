------------------------------ MODULE Transport ------------------------------
(***************************************************************************)
(* The transport package (internal/transport/webrtc): connections by peer, *)
(* made by Connect or by the first signal of a peer, a channel of incoming *)
(* connections, and per connection a channel of received messages that     *)
(* three callbacks of the WebRTC stack write to or close.                  *)
(*                                                                         *)
(* The stack is external.  It calls OnDataChannel and OnOpen once; the     *)
(* goroutine that reads an open channel calls OnMessage in the order of    *)
(* sending and at its end OnClose; the state handler is called when the    *)
(* connection fails and when it is closed, beside that goroutine.          *)
(***************************************************************************)
EXTENDS Naturals, Sequences, SequencesExt

CONSTANTS
    Conns,      \* connection objects
    Peers,
    Callers,    \* goroutines that call HandleSignal
    RecvCap,    \* capacity of recvChan (256 in the code)
    InCap,      \* capacity of incoming (16 in the code)
    MaxMsgs,    \* bound on the messages sent on each connection
    NoPeer, NoConn

ASSUME TransportAssumption ==
    /\ RecvCap \in Nat \ {0} /\ InCap \in Nat \ {0} /\ MaxMsgs \in [Conns -> Nat]
    /\ NoPeer \notin Peers /\ NoConn \notin Conns

VARIABLES
    peerOf,     \* the peer of each connection object, NoPeer before it is made
    initiator,  \* made by Connect
    described,  \* c.pc.RemoteDescription() is set
    answers,    \* answers sent for a connection
    stage,      \* of the data channel
    reading,    \* the connections whose channel is read: OnMessage, OnClose
    states,     \* calls of the state handler still to run
    recv,       \* recvChan
    closed,     \* it is closed
    sent, got,  \* messages sent by the peer, and received by the caller of Recv
    table,      \* t.connections
    incoming,   \* t.incoming, and what was accepted from it
    accepted,
    offering,   \* connections whose OnOpen is at t.incoming <- conn
    shut,       \* Close of the transport was called
    caller,     \* where each HandleSignal is
    panicked    \* a closed channel was closed again or sent to

connVars == <<peerOf, initiator, described, answers>>
streamVars == <<recv, closed, sent, got>>
acceptVars == <<incoming, accepted, offering, shut>>
endVars == <<stage, reading, states>>
vars == <<connVars, endVars, streamVars, table, acceptVars, caller, panicked>>

Stages == {"none", "stored", "open", "failed", "closed"}
Ended == {"failed", "closed"}
At(st, p, c) == [st |-> st, peer |-> p, conn |-> c]
Idle == At("idle", NoPeer, NoConn)

Init ==
    /\ peerOf = [c \in Conns |-> NoPeer]
    /\ initiator = {}
    /\ described = {}
    /\ answers = [c \in Conns |-> 0]
    /\ stage = [c \in Conns |-> "none"]
    /\ reading = {}
    /\ states = [c \in Conns |-> 0]
    /\ recv = [c \in Conns |-> <<>>]
    /\ closed = {}
    /\ sent = [c \in Conns |-> 0]
    /\ got = [c \in Conns |-> <<>>]
    /\ table = [p \in Peers |-> NoConn]
    /\ incoming = <<>>
    /\ accepted = <<>>
    /\ offering = {}
    /\ shut = FALSE
    /\ caller = [g \in Callers |-> Idle]
    /\ panicked = FALSE

\* newConnection, stored under its peer over any other.
NewConnection(c, p) ==
    /\ peerOf[c] = NoPeer
    /\ peerOf' = [peerOf EXCEPT ![c] = p]
    /\ table' = [table EXCEPT ![p] = c]

-----------------------------------------------------------------------------
(***************************************************************************)
(* Connect, HandleSignal                                                   *)
(***************************************************************************)

\* Connect makes the connection, its data channel and an offer.
Connect(c, p) ==
    /\ ~panicked
    /\ NewConnection(c, p)
    /\ initiator' = initiator \cup {c}
    /\ stage' = [stage EXCEPT ![c] = "stored"]
    /\ UNCHANGED <<described, answers, reading, states, streamVars, acceptVars, caller, panicked>>

\* HandleSignal looks the connection of the peer up under a read lock ...
LookupConnection(g, p) ==
    /\ ~panicked
    /\ caller[g] = Idle
    /\ caller' = [caller EXCEPT ![g] = At(IF table[p] = NoConn THEN "create" ELSE "signal",
                                          p, table[p])]
    /\ UNCHANGED <<connVars, endVars, streamVars, table, acceptVars, panicked>>

\* ... and stores one of its own under another lock.
CreateConnection(g, c) ==
    /\ ~panicked
    /\ caller[g].st = "create"
    /\ NewConnection(c, caller[g].peer)
    /\ caller' = [caller EXCEPT ![g] = At("signal", caller[g].peer, c)]
    /\ UNCHANGED <<initiator, described, answers, endVars, streamVars, acceptVars, panicked>>

\* Mutant: the answer is sent whether or not the description is new.
HandleSignalAlways(g) ==
    LET c == caller[g].conn IN
    /\ ~panicked
    /\ caller[g].st = "signal"
    /\ described' = described \cup {c}
    /\ answers' = IF c \in initiator THEN answers ELSE [answers EXCEPT ![c] = @ + 1]
    /\ caller' = [caller EXCEPT ![g] = Idle]
    /\ UNCHANGED <<peerOf, initiator, endVars, streamVars, table, acceptVars, panicked>>

\* connection.handleSignal: only the first description counts, and the side
\* that did not offer answers it.  Each call that can fail returns: the
\* description may be refused, or be set with no answer sent.
HandleSignal(g) ==
    LET c == caller[g].conn IN
    /\ ~panicked
    /\ caller[g].st = "signal"
    /\ \/ /\ c \notin described /\ stage[c] \notin Ended
          /\ described' = described \cup {c}
          /\ \/ answers' = IF c \in initiator THEN answers ELSE [answers EXCEPT ![c] = @ + 1]
             \/ answers' = answers
       \/ UNCHANGED <<described, answers>>
    /\ caller' = [caller EXCEPT ![g] = Idle]
    /\ UNCHANGED <<peerOf, initiator, endVars, streamVars, table, acceptVars, panicked>>

-----------------------------------------------------------------------------
(***************************************************************************)
(* Callbacks of the stack                                                  *)
(***************************************************************************)

\* OnDataChannel: setupDataChannel stores the channel of the peer, which has
\* the answer.
OnDataChannel(c) ==
    /\ ~panicked
    /\ c \in described \ initiator /\ answers[c] > 0
    /\ stage[c] = "none"
    /\ stage' = [stage EXCEPT ![c] = "stored"]
    /\ UNCHANGED <<connVars, reading, states, streamVars, table, acceptVars, caller, panicked>>

\* OnOpen: a connection the peer started is offered to Accept ...
OnOpen(c) ==
    /\ ~panicked
    /\ c \in described
    /\ stage[c] = "stored"
    /\ stage' = [stage EXCEPT ![c] = "open"]
    /\ reading' = reading \cup {c}
    /\ offering' = offering \cup ({c} \ initiator)
    /\ UNCHANGED <<connVars, states, streamVars, table, incoming, accepted, shut, caller, panicked>>

\* ... by a send that waits while incoming is full and panics once it is closed.
SendIncoming(c) ==
    /\ ~panicked
    /\ c \in offering
    /\ shut \/ Len(incoming) < InCap
    /\ incoming' = IF shut THEN incoming ELSE Append(incoming, c)
    /\ panicked' = shut
    /\ offering' = offering \ {c}
    /\ UNCHANGED <<connVars, endVars, streamVars, table, accepted, shut, caller>>

\* Mutant: the buffer grows past its capacity.
OnMessageGrows(c) ==
    /\ ~panicked
    /\ c \in reading
    /\ sent[c] < MaxMsgs[c]
    /\ sent' = [sent EXCEPT ![c] = @ + 1]
    /\ panicked' = (c \in closed)
    /\ recv' = [recv EXCEPT ![c] = Append(@, sent[c] + 1)]
    /\ UNCHANGED <<connVars, endVars, closed, got, table, acceptVars, caller>>

\* OnMessage: a send that drops the message when recvChan is full, and panics
\* when it is closed.
OnMessage(c) ==
    /\ ~panicked
    /\ c \in reading
    /\ sent[c] < MaxMsgs[c]
    /\ sent' = [sent EXCEPT ![c] = @ + 1]
    /\ panicked' = (c \in closed)
    /\ recv' = IF c \notin closed /\ Len(recv[c]) < RecvCap
               THEN [recv EXCEPT ![c] = Append(@, sent[c] + 1)] ELSE recv
    /\ UNCHANGED <<connVars, endVars, closed, got, table, acceptVars, caller>>

\* The connection fails, or the other end goes away.
Fails(c) ==
    /\ ~panicked
    /\ c \in described
    /\ stage[c] \in {"stored", "open"}
    /\ stage' = [stage EXCEPT ![c] = "failed"]
    /\ states' = [states EXCEPT ![c] = @ + 1]
    /\ UNCHANGED <<connVars, reading, streamVars, table, acceptVars, caller, panicked>>

\* OnClose and the state handler (Failed, Closed) each close recvChan.
CloseRecvChan(c) ==
    /\ closed' = closed \cup {c}
    /\ panicked' = (c \in closed)

OnClose(c) ==
    /\ ~panicked
    /\ c \in reading /\ stage[c] \in Ended
    /\ reading' = reading \ {c}
    /\ CloseRecvChan(c)
    /\ UNCHANGED <<connVars, stage, states, recv, sent, got, table, acceptVars, caller>>

OnConnectionStateChange(c) ==
    /\ ~panicked
    /\ states[c] > 0
    /\ states' = [states EXCEPT ![c] = @ - 1]
    /\ CloseRecvChan(c)
    /\ UNCHANGED <<connVars, stage, reading, recv, sent, got, table, acceptVars, caller>>

-----------------------------------------------------------------------------
(***************************************************************************)
(* The package's user                                                      *)
(***************************************************************************)

\* Mutant: the newest message first.
RecvNewest(c) ==
    /\ ~panicked
    /\ recv[c] # <<>>
    /\ got' = [got EXCEPT ![c] = Append(@, Last(recv[c]))]
    /\ recv' = [recv EXCEPT ![c] = Front(@)]
    /\ UNCHANGED <<connVars, endVars, closed, sent, table, acceptVars, caller, panicked>>

\* <-conn.Recv(): what was buffered is received after a close, too.
Recv(c) ==
    /\ ~panicked
    /\ recv[c] # <<>>
    /\ got' = [got EXCEPT ![c] = Append(@, Head(recv[c]))]
    /\ recv' = [recv EXCEPT ![c] = Tail(@)]
    /\ UNCHANGED <<connVars, endVars, closed, sent, table, acceptVars, caller, panicked>>

Accept ==
    /\ ~panicked
    /\ incoming # <<>>
    /\ accepted' = Append(accepted, Head(incoming))
    /\ incoming' = Tail(incoming)
    /\ UNCHANGED <<connVars, endVars, streamVars, table, offering, shut, caller, panicked>>

\* conn.Close of each connection of a set; a second Close does nothing.
ClosesAll(cs) ==
    /\ stage' = [c \in Conns |-> IF c \in cs THEN "closed" ELSE stage[c]]
    /\ states' = [c \in Conns |-> IF c \in cs /\ stage[c] # "closed" THEN states[c] + 1
                                  ELSE states[c]]

Close(c) ==
    /\ ~panicked
    /\ peerOf[c] # NoPeer
    /\ ClosesAll({c})
    /\ UNCHANGED <<connVars, reading, streamVars, table, acceptVars, caller, panicked>>

\* Close of the transport: all connections of the table, then incoming; a
\* second call closes incoming again.
CloseTransport ==
    /\ ~panicked
    /\ ClosesAll({table[p] : p \in Peers} \cap Conns)
    /\ table' = [p \in Peers |-> NoConn]
    /\ panicked' = shut
    /\ shut' = TRUE
    /\ UNCHANGED <<connVars, reading, streamVars, incoming, accepted, offering, caller>>

-----------------------------------------------------------------------------
Next ==
    \/ \E c \in Conns :
          \/ OnDataChannel(c) \/ OnOpen(c) \/ SendIncoming(c) \/ OnMessage(c)
          \/ Fails(c) \/ OnClose(c) \/ OnConnectionStateChange(c) \/ Recv(c) \/ Close(c)
          \/ \E p \in Peers : Connect(c, p)
          \/ \E g \in Callers : CreateConnection(g, c)
    \/ \E g \in Callers : HandleSignal(g) \/ \E p \in Peers : LookupConnection(g, p)
    \/ Accept \/ CloseTransport

Spec == Init /\ [][Next]_vars

-----------------------------------------------------------------------------
(***************************************************************************)
(* Properties                                                              *)
(***************************************************************************)

\* Every variable has its type, and the two channels hold what they can.
TypeOK ==
    /\ peerOf \in [Conns -> Peers \cup {NoPeer}]
    /\ initiator \subseteq Conns
    /\ described \subseteq Conns
    /\ answers \in [Conns -> Nat]
    /\ stage \in [Conns -> Stages]
    /\ reading \subseteq Conns
    /\ states \in [Conns -> Nat]
    /\ recv \in [Conns -> Seq(Nat)]
    /\ \A c \in Conns : Len(recv[c]) <= RecvCap
    /\ closed \subseteq Conns
    /\ sent \in [Conns -> Nat]
    /\ got \in [Conns -> Seq(Nat)]
    /\ table \in [Peers -> Conns \cup {NoConn}]
    /\ incoming \in Seq(Conns) /\ Len(incoming) <= InCap
    /\ offering \subseteq Conns
    /\ accepted \in Seq(Conns)
    /\ shut \in BOOLEAN
    /\ caller \in [Callers -> [st : {"idle", "create", "signal"}, peer : Peers \cup {NoPeer},
                               conn : Conns \cup {NoConn}]]
    /\ panicked \in BOOLEAN

(***************************************************************************)
(* The connection implements its promise: the buffer that drops when it is *)
(* full, the callbacks that close it and the reader that comes late change *)
(* neither the order nor the number of times a message is received.        *)
(***************************************************************************)
S == INSTANCE Stream WITH Conns <- Conns, sent <- sent, got <- got

Ordered == S!Spec

(***************************************************************************)
(* A connection is handed to the caller of Accept at most once, only when  *)
(* the peer started it, and only after its one answer: also when several   *)
(* signals of the peer are handled at once and each made a connection.     *)
(***************************************************************************)
AcceptedOnce ==
    LET all == accepted \o incoming IN
    /\ IsInjective(all)
    /\ \A k \in 1..Len(all) : all[k] \notin initiator /\ answers[all[k]] = 1
=============================================================================
