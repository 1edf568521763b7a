------------------------------ MODULE Signaling ------------------------------
(***************************************************************************)
(* How two nodes make a WebRTC connection through the tracker: offers,     *)
(* answers and ICE candidates, and the two goroutines of a node that       *)
(* create connections, the one that serves a download signal and           *)
(* handleTrackerMsgs.  Both look peerConnections up at one line and store  *)
(* or read it again at another, and callbacks of older connections delete  *)
(* from it by the peer's id.                                               *)
(*                                                                         *)
(* The tracker forwards the messages from one node to another in order     *)
(* (Tracker).  The WebRTC stack (pion) is external.  What is used of it:   *)
(*   - an offer can be applied, and one of our own set, only where no      *)
(*     offer of our own is open; an answer only where one is;              *)
(*   - a candidate is refused before the remote description is set;        *)
(*   - candidates are gathered from SetLocalDescription on, and are sent   *)
(*     by a callback, before or after the description is written;          *)
(*   - the transports start with the first remote description.  One of     *)
(*     another connection moves ICE to that one's credentials, while DTLS  *)
(*     keeps the first one's certificate: neither link can be, or stay;    *)
(*   - a connection opens when each end has the description of the other   *)
(*     and a candidate of one of them arrived.  Otherwise it ends up       *)
(*     Failed, which the code does not handle: its entry stays.            *)
(***************************************************************************)
EXTENDS Naturals, Sequences

CONSTANTS
    Nodes,
    MaxOffers,  \* bound on attempts to connect
    Cands,      \* candidates each connection gathers
    MaxBreaks   \* bound on connections lost, for good or for a moment

ASSUME SignalingAssumption ==
    MaxOffers \in Nat /\ Cands \in Nat /\ MaxBreaks \in Nat

Pairs == {q \in Nodes \X Nodes : q[1] # q[2]}

VARIABLES
    conns,      \* the PeerConnection objects, in the order they were made
    entry,      \* peerConnections[p] at n: a position in conns, 0 for none
    net,        \* signaling messages on their way from n to p
    job,        \* the goroutine of a download signal, at one peer of its list
    loop,       \* handleTrackerMsgs, at one offer
    panicked,   \* nodes that called a method of a nil connection
    forgot,     \* history: a callback has deleted an entry
    offers, breaks

bounds == <<offers, breaks>>
vars == <<conns, entry, net, job, loop, panicked, forgot, bounds>>

Msg(t, c) == [type |-> t, from |-> c]
\* pc: the connection a goroutine has read, 0 where it is yet to read one.
At(st, p, c) == [st |-> st, peer |-> p, conn |-> c, pc |-> 0]
Idle(n) == At("idle", n, 0)

\* sig: whether our own offer is open.  remote: the connection whose
\* description is set.  ice: one of its candidates is known.  left: candidates
\* still to be gathered.  st: "failed" if it can never open, "lost" after it
\* was open.  told: a Disconnected callback is to run.
New(n, p) == [owner |-> n, peer |-> p, sig |-> "stable", remote |-> 0, ice |-> FALSE,
              left |-> Cands, st |-> "new", told |-> FALSE]

Made == 1..Len(conns)

Init ==
    /\ conns = <<>>
    /\ entry = [q \in Pairs |-> 0]
    /\ net = [q \in Pairs |-> <<>>]
    /\ job = [n \in Nodes |-> Idle(n)]
    /\ loop = [n \in Nodes |-> Idle(n)]
    /\ panicked = {}
    /\ forgot = FALSE
    /\ offers = 0
    /\ breaks = 0

Alive(n) == n \notin panicked

SendTo(p, n, m) == net' = [net EXCEPT ![<<n, p>>] = Append(@, m)]

-----------------------------------------------------------------------------
(***************************************************************************)
(* handleDownloadSignal for one peer of the list                           *)
(***************************************************************************)

\* No entry: go on to connect.  (With one, the peer is introduced to: Swarm.)
CheckPeer(n, p) ==
    /\ Alive(n)
    /\ job[n].st = "idle"
    /\ entry[<<n, p>>] = 0
    /\ offers < MaxOffers
    /\ offers' = offers + 1
    /\ job' = [job EXCEPT ![n] = At("create", p, 0)]
    /\ UNCHANGED <<conns, entry, net, loop, panicked, forgot, breaks>>

\* handleWebRTCConnection stores a connection, over any other.
CreateConnection(n, p) ==
    /\ conns' = Append(conns, New(n, p))
    /\ entry' = [entry EXCEPT ![<<n, p>>] = Len(conns) + 1]

CreateInitiator(n) ==
    /\ Alive(n)
    /\ job[n].st = "create"
    /\ CreateConnection(n, job[n].peer)
    /\ job' = [job EXCEPT ![n].st = "offer"]
    /\ UNCHANGED <<net, loop, panicked, forgot, bounds>>

\* The entry is read again, CreateOffer and SetLocalDescription; an error ends
\* the attempt.
CreateOffer(n) ==
    LET p == job[n].peer
        c == entry[<<n, p>>]
    IN
    /\ Alive(n)
    /\ job[n].st = "offer"
    /\ \/ /\ c = 0
          /\ panicked' = panicked \cup {n}
          /\ UNCHANGED <<conns, job>>
       \/ /\ c # 0
          /\ conns[c].sig = "stable"
          /\ conns' = [conns EXCEPT ![c].sig = "local"]
          /\ job' = [job EXCEPT ![n] = At("send", p, c)]
          /\ UNCHANGED panicked
       \/ /\ c # 0
          /\ conns[c].sig = "local"
          /\ job' = [job EXCEPT ![n] = Idle(n)]
          /\ UNCHANGED <<conns, panicked>>
    /\ UNCHANGED <<entry, net, loop, forgot, bounds>>

SendOffer(n) ==
    /\ Alive(n)
    /\ job[n].st = "send"
    /\ SendTo(job[n].peer, n, Msg("offer", job[n].conn))
    /\ job' = [job EXCEPT ![n] = Idle(n)]
    /\ UNCHANGED <<conns, entry, loop, panicked, forgot, bounds>>

\* OnICECandidate, once a local description is set.
SendCandidate(c) ==
    /\ Alive(conns[c].owner)
    /\ conns[c].sig = "local" \/ conns[c].remote # 0
    /\ conns[c].left > 0
    /\ conns' = [conns EXCEPT ![c].left = @ - 1]
    /\ SendTo(conns[c].peer, conns[c].owner, Msg("candidate", c))
    /\ UNCHANGED <<entry, job, loop, panicked, forgot, bounds>>

-----------------------------------------------------------------------------
(***************************************************************************)
(* handleTrackerMsgs: the next signaling message of p at n                 *)
(***************************************************************************)

Receives(n, p, type) ==
    /\ Alive(n)
    /\ loop[n].st = "idle"
    /\ net[<<p, n>>] # <<>>
    /\ Head(net[<<p, n>>]).type = type

From(n, p) == Head(net[<<p, n>>]).from

Consume(n, p) == net' = [net EXCEPT ![<<p, n>>] = Tail(@)]

\* Mutant: the peer is looked up by the wrong field of the message.
HandleOfferByConnection(n, p) ==
    /\ Receives(n, p, "offer")
    /\ Consume(n, p)
    /\ loop' = [loop EXCEPT ![n] = At("create", From(n, p), From(n, p))]
    /\ UNCHANGED <<conns, entry, job, panicked, forgot, bounds>>

\* Mutant: every offer gets a connection of its own.
HandleOfferAnew(n, p) ==
    /\ Receives(n, p, "offer")
    /\ Consume(n, p)
    /\ loop' = [loop EXCEPT ![n] = At("create", p, From(n, p))]
    /\ UNCHANGED <<conns, entry, job, panicked, forgot, bounds>>

\* An offer: make a connection unless there is one, which is kept from here on.
HandleOffer(n, p) ==
    LET c == entry[<<n, p>>] IN
    /\ Receives(n, p, "offer")
    /\ Consume(n, p)
    /\ loop' = [loop EXCEPT ![n] = [At(IF c = 0 THEN "create" ELSE "apply", p, From(n, p))
                                      EXCEPT !.pc = c]]
    /\ UNCHANGED <<conns, entry, job, panicked, forgot, bounds>>

CreateResponder(n) ==
    /\ Alive(n)
    /\ loop[n].st = "create"
    /\ CreateConnection(n, loop[n].peer)
    /\ loop' = [loop EXCEPT ![n].st = "apply"]
    /\ UNCHANGED <<net, job, panicked, forgot, bounds>>

\* d would be another remote of c than the first one.
Moves(c, d) == conns[c].remote \notin {0, d}

\* The description of d is set at c.  If it moves c, the link to the first
\* remote breaks, whose own end is Disconnected.
WithRemote(c, d) ==
    LET described == [conns EXCEPT ![c].remote = d, ![c].sig = "stable"]
        first == conns[c].remote
    IN
    IF ~Moves(c, d) THEN described
    ELSE IF conns[c].st = "open"
         THEN [described EXCEPT ![c].st = "lost", ![first].st = "lost", ![first].told = TRUE]
         ELSE [described EXCEPT ![c].st = IF @ = "new" THEN "failed" ELSE @]

\* After CreateResponder the entry is read again.  SetRemoteDescription,
\* CreateAnswer and SetLocalDescription: where our own offer is open this
\* fails, and the other side waits for an answer for ever.
ApplyOffer(n) ==
    LET p == loop[n].peer
        c == IF loop[n].pc = 0 THEN entry[<<n, p>>] ELSE loop[n].pc
    IN
    /\ Alive(n)
    /\ loop[n].st = "apply"
    /\ \/ /\ c = 0
          /\ panicked' = panicked \cup {n}
          /\ UNCHANGED <<conns, loop>>
       \/ /\ c # 0
          /\ conns[c].sig = "stable"
          /\ conns' = WithRemote(c, loop[n].conn)
          /\ loop' = [loop EXCEPT ![n] = At("answer", p, c)]
          /\ UNCHANGED panicked
       \/ /\ c # 0
          /\ conns[c].sig = "local"
          /\ loop' = [loop EXCEPT ![n] = Idle(n)]
          /\ UNCHANGED <<conns, panicked>>
    /\ UNCHANGED <<entry, net, job, forgot, bounds>>

SendAnswer(n) ==
    /\ Alive(n)
    /\ loop[n].st = "answer"
    /\ SendTo(loop[n].peer, n, Msg("answer", loop[n].conn))
    /\ loop' = [loop EXCEPT ![n] = Idle(n)]
    /\ UNCHANGED <<conns, entry, job, panicked, forgot, bounds>>

\* An answer goes to whatever connection the entry names now; without an entry,
\* or where no offer of ours is open, it is dropped.
HandleAnswer(n, p) ==
    LET c == entry[<<n, p>>] IN
    /\ Receives(n, p, "answer")
    /\ Consume(n, p)
    /\ IF c # 0 /\ conns[c].sig = "local"
       THEN conns' = WithRemote(c, From(n, p))
       ELSE UNCHANGED conns
    /\ UNCHANGED <<entry, job, loop, panicked, forgot, bounds>>

\* Mutant: only a connection that still waits for its answer takes candidates.
HandleCandidateOffering(n, p) ==
    LET c == entry[<<n, p>>] IN
    /\ Receives(n, p, "candidate")
    /\ Consume(n, p)
    /\ IF c # 0 /\ conns[c].sig = "local" /\ conns[c].remote = From(n, p)
       THEN conns' = [conns EXCEPT ![c].ice = TRUE]
       ELSE UNCHANGED conns
    /\ UNCHANGED <<entry, job, loop, panicked, forgot, bounds>>

\* A candidate for an unknown peer, or before the remote description, is lost;
\* one of another connection is of no use.
HandleCandidate(n, p) ==
    LET c == entry[<<n, p>>] IN
    /\ Receives(n, p, "candidate")
    /\ Consume(n, p)
    /\ IF c # 0 /\ conns[c].remote = From(n, p)
       THEN conns' = [conns EXCEPT ![c].ice = TRUE]
       ELSE UNCHANGED conns
    /\ UNCHANGED <<entry, job, loop, panicked, forgot, bounds>>

-----------------------------------------------------------------------------
(***************************************************************************)
(* The WebRTC stack, and the one state the code reacts to                  *)
(***************************************************************************)

Matched(c, d) == conns[c].remote = d /\ conns[d].remote = c

Opens(c, d) ==
    /\ Matched(c, d)
    /\ conns[c].ice \/ conns[d].ice
    /\ conns[c].st = "new" /\ conns[d].st = "new"
    /\ Alive(conns[c].owner) /\ Alive(conns[d].owner)
    /\ conns' = [conns EXCEPT ![c].st = "open", ![d].st = "open"]
    /\ UNCHANGED <<entry, net, job, loop, panicked, forgot, bounds>>

\* The connection is lost: both ends will be told.
Loses(c, d) ==
    /\ breaks < MaxBreaks
    /\ Matched(c, d)
    /\ conns[c].st = "open" /\ conns[d].st = "open"
    /\ breaks' = breaks + 1
    /\ conns' = [conns EXCEPT ![c].st = "lost", ![d].st = "lost", ![c].told = TRUE, ![d].told = TRUE]
    /\ UNCHANGED <<entry, net, job, loop, panicked, forgot, offers>>

\* One end hears nothing for a while and is Disconnected, then Connected again,
\* or, moved to another remote, hears it and then not.
Blinks(c) ==
    /\ breaks < MaxBreaks
    /\ conns[c].st # "new"
    /\ breaks' = breaks + 1
    /\ conns' = [conns EXCEPT ![c].told = TRUE]
    /\ UNCHANGED <<entry, net, job, loop, panicked, forgot, offers>>

\* The callback deletes the entry of the peer, whichever connection it names.
OnDisconnected(c) ==
    /\ Alive(conns[c].owner)
    /\ conns[c].told
    /\ conns' = [conns EXCEPT ![c].told = FALSE]
    /\ entry' = [entry EXCEPT ![<<conns[c].owner, conns[c].peer>>] = 0]
    /\ forgot' = TRUE
    /\ UNCHANGED <<net, job, loop, panicked, bounds>>

-----------------------------------------------------------------------------
JobStep(n) == CreateInitiator(n) \/ CreateOffer(n) \/ SendOffer(n)

LoopStep(n) ==
    \/ CreateResponder(n) \/ ApplyOffer(n) \/ SendAnswer(n)
    \/ \E q \in Pairs : q[1] = n /\ (\/ HandleOffer(n, q[2]) \/ HandleAnswer(n, q[2])
                                     \/ HandleCandidate(n, q[2]))

StackStep(c) == SendCandidate(c) \/ OnDisconnected(c) \/ \E d \in Made : Opens(c, d)

Next ==
    \/ \E q \in Pairs : CheckPeer(q[1], q[2])
    \/ \E n \in Nodes : JobStep(n) \/ LoopStep(n)
    \/ \E c \in Made : StackStep(c) \/ Blinks(c) \/ \E d \in Made : Loses(c, d)

Spec == Init /\ [][Next]_vars

(***************************************************************************)
(* Goroutines run, and the stack gathers candidates, opens what can open   *)
(* and calls back.  Signals and losses need never happen.                  *)
(***************************************************************************)
Fairness ==
    /\ WF_vars(\E n \in Nodes : JobStep(n) \/ LoopStep(n))
    /\ WF_vars(\E c \in Made : StackStep(c))

FairSpec == Spec /\ Fairness

-----------------------------------------------------------------------------
(***************************************************************************)
(* Properties                                                              *)
(***************************************************************************)

Connections == [owner : Nodes, peer : Nodes, sig : {"stable", "local"},
                remote : Nat, ice : BOOLEAN, left : 0..Cands,
                st : {"new", "open", "lost", "failed"}, told : BOOLEAN]

Goroutines == [st : {"idle", "create", "offer", "send", "apply", "answer"}, peer : Nodes,
               conn : Nat, pc : Nat]

Messages == [type : {"offer", "answer", "candidate"}, from : Nat]

\* Every variable has its type, and an entry names a connection to its peer.
TypeOK ==
    /\ conns \in Seq(Connections)
    /\ entry \in [Pairs -> 0..Len(conns)]
    /\ \A q \in Pairs : entry[q] # 0 => <<conns[entry[q]].owner, conns[entry[q]].peer>> = q
    /\ net \in [Pairs -> Seq(Messages)]
    /\ job \in [Nodes -> Goroutines]
    /\ loop \in [Nodes -> Goroutines]
    /\ panicked \subseteq Nodes
    /\ forgot \in BOOLEAN
    /\ offers \in 0..MaxOffers
    /\ breaks \in 0..MaxBreaks

(***************************************************************************)
(* Two nodes have at most one open connection between them, whoever offers *)
(* and whichever goroutine stores its connection last, until a callback    *)
(* deletes an entry (webrtc.go:25): it may be that of a newer connection,  *)
(* or of one that comes back, and then another is made.  Until then the    *)
(* lines that read peerConnections again after storing into it             *)
(* (tracker.go:33, download.go:150) find a connection, though the other    *)
(* goroutine may have stored its own, and call no nil one.                 *)
(***************************************************************************)
OneLink ==
    ~forgot =>
        /\ panicked = {}
        /\ \A c, d \in Made :
              /\ conns[c].owner = conns[d].owner /\ conns[c].peer = conns[d].peer
              /\ conns[c].st = "open" /\ conns[d].st = "open"
              => c = d

\* A candidate of c or d is known to the other, or will find it described.
CandidateLeft(c, d) ==
    LET sent(e) == \E i \in 1..Len(net[<<conns[e].owner, conns[e].peer>>]) :
                       net[<<conns[e].owner, conns[e].peer>>][i] = Msg("candidate", e)
    IN conns[d].ice \/ \E e \in {c, d} : conns[e].left > 0 \/ sent(e)

\* The offer of c is the first that d accepted, its answer comes next, and
\* neither end is about to store a connection over them or to be offered one.
Accepted(c, d) ==
    LET q == <<conns[c].owner, conns[c].peer>>
        r == <<conns[c].peer, conns[c].owner>>
    IN
    /\ entry[q] = c /\ entry[r] = d
    /\ conns[c].sig = "local" /\ conns[c].remote = 0
    /\ conns[d].remote = c /\ conns[d].st = "new"
    /\ net[r] # <<>> /\ Head(net[r]) = Msg("answer", d)
    /\ job[q[1]].st = "idle" /\ loop[q[1]].st = "idle"
    /\ ~(job[r[1]].st \in {"create", "send"} /\ job[r[1]].peer = r[2])
    /\ \A i \in 1..Len(net[r]) : net[r][i].type # "offer"

(***************************************************************************)
(* An offer that was accepted connects, whatever the callbacks and the     *)
(* goroutines do, as long as some candidate is not lost before the         *)
(* descriptions (tracker.go:99), no entry is deleted, and the accepting    *)
(* node has not made an offer of its own as well (download.go:145, between *)
(* the lookup and the store of which the first one came): that one moves a *)
(* connection that was answered, and neither connects.                     *)
(***************************************************************************)
AcceptedConnects ==
    \A q \in Pairs :
        (\E c, d \in Made : entry[q] = c /\ Accepted(c, d) /\ CandidateLeft(c, d))
        ~> (forgot \/ panicked # {} \/ \E c \in Made : entry[q] = c /\ conns[c].st \in {"open", "lost"})
=============================================================================
