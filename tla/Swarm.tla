-------------------------------- MODULE Swarm --------------------------------
(***************************************************************************)
(* The transfer of files between nodes: connections and data channels      *)
(* (webrtc.go), introductions and chunk maps (peer.go), download managers  *)
(* (manager.go) and chunk messages (chunk.go), for several nodes.          *)
(*                                                                         *)
(* A data channel is reliable and ordered (Ordered: true, no limit on      *)
(* retransmissions), so chan is one FIFO per ordered pair of nodes; a      *)
(* broken connection loses what is in it.  One OnMessage callback per      *)
(* remote peer runs at a time and touches only that peer's entry of        *)
(* peerChunkMap, so handling one message is one step.                      *)
(*                                                                         *)
(* A node serves one CLI signal at a time here (Library has several).      *)
(*                                                                         *)
(* Rows and files on disk are Library's subject: here a node has a chunk   *)
(* when its row says is_available.  The WebRTC stack is external: an offer *)
(* reaches a node that has no connection to the sender, or fails.          *)
(***************************************************************************)
EXTENDS Naturals, Sequences, FiniteSets

CONSTANTS
    Nodes,      \* peer ids
    Files,      \* file hashes
    NumChunks,  \* chunks of every file
    Listed,     \* the peers the tracker lists for each file
    Has,        \* the chunks they have: all after a registration, any after
                \* a restart in the middle of a download
    Wants,      \* the files each node is told to download
    None,       \* no file, no node
    MaxSignals, \* bound on download signals
    MaxBreaks,  \* bound on broken connections
    MaxQueue    \* a manager asks while fewer messages are under way

Chunks == 0..(NumChunks - 1)
Pairs == {q \in Nodes \X Nodes : q[1] # q[2]}

ASSUME SwarmAssumption ==
    /\ NumChunks \in Nat \ {0}
    /\ Listed \in [Files -> SUBSET Nodes]
    /\ Has \in [Nodes -> [Files -> SUBSET Chunks]]
    /\ \A n \in Nodes, f \in Files : Has[n][f] # {} => n \in Listed[f]
    /\ Wants \in [Nodes -> SUBSET Files]
    /\ None \notin Files /\ None \notin Nodes
    /\ MaxSignals \in Nat /\ MaxBreaks \in Nat /\ MaxQueue \in Nat \ {0}

VARIABLES
    known,      \* files each node has rows for
    have,       \* chunks each node has
    mapFiles,   \* keys of peerChunkMap[p] at n
    mapBits,    \* chunks set in those entries
    active,     \* activeDownloads
    ap,         \* their ActivePeers
    pcon,       \* peerConnections: peers with an entry
    dc,         \* peerDataChannels: peers with an entry
    link,       \* the connection n started to p, and the file it was for
    chan,       \* messages on their way from n to p
    events,     \* callbacks of broken connections still to run, by kind
    job,        \* the download signal being served: its file, peers to go
    mgr,        \* requestOneMissingChunk between the check and the Send
    panicked,   \* nodes whose process died of a nil dereference
    signals, breaks

nodeVars == <<known, have>>
mapVars == <<mapFiles, mapBits>>
dlVars == <<active, ap>>
connVars == <<pcon, dc, link>>
bounds == <<signals, breaks>>
vars == <<nodeVars, mapVars, dlVars, connVars, chan, events, job, mgr, panicked, bounds>>

Callbacks == {"close", "disconnected"}

Intro(f, b) == [type |-> "intro", file |-> f, bits |-> b, idx |-> 0]
Request(f, i) == [type |-> "request", file |-> f, bits |-> {}, idx |-> i]
Response(f, i) == [type |-> "response", file |-> f, bits |-> {}, idx |-> i]

NoLink == [st |-> "none", file |-> None]
NoJob == [file |-> None, todo |-> {}]
NoPick == [peer |-> None, idx |-> 0]

Init ==
    /\ known = [n \in Nodes |-> {f \in Files : n \in Listed[f]}]
    /\ have = Has
    /\ mapFiles = [q \in Pairs |-> {}]
    /\ mapBits = [q \in Pairs |-> [f \in Files |-> {}]]
    /\ active = [n \in Nodes |-> {}]
    /\ ap = [n \in Nodes |-> [f \in Files |-> {}]]
    /\ pcon = [n \in Nodes |-> {}]
    /\ dc = [n \in Nodes |-> {}]
    /\ link = [q \in Pairs |-> NoLink]
    /\ chan = [q \in Pairs |-> <<>>]
    /\ events = [k \in Callbacks |-> [q \in Pairs |-> 0]]
    /\ job = [n \in Nodes |-> NoJob]
    /\ mgr = [n \in Nodes |-> [f \in Files |-> NoPick]]
    /\ panicked = {}
    /\ signals = 0
    /\ breaks = 0

\* The data channel between the two nodes is open.
Up(n, p) == \E q \in {<<n, p>>, <<p, n>>} : link[q].st \in {"open", "up"}

\* dc.Send: an error, and no message, unless the channel is open.
SendOn(ch, n, p, m) ==
    IF p \in dc[n] /\ Up(n, p) THEN [ch EXCEPT ![<<n, p>>] = Append(@, m)] ELSE ch

\* Mutants: a map counted from 1, or one of all chunk rows, available or not.
SendIntroductionFromOne(ch, n, p, f) ==
    SendOn(ch, n, p, Intro(f, {i + 1 : i \in have[n][f]}))

SendIntroductionAllRows(ch, n, p, f) ==
    SendOn(ch, n, p, Intro(f, IF f \in known[n] THEN Chunks ELSE {}))

\* sendIntroduction: GetChunkMap is empty for a file without a row.
SendIntroduction(ch, n, p, f) ==
    SendOn(ch, n, p, Intro(f, IF f \in known[n] THEN have[n][f] ELSE {}))

-----------------------------------------------------------------------------
(***************************************************************************)
(* handleDownloadSignal and startFileDownload                              *)
(***************************************************************************)

\* Rows exist and the tracker's list is here.
DownloadSignal(n, f) ==
    /\ n \notin panicked
    /\ job[n] = NoJob
    /\ f \in Wants[n]
    /\ signals < MaxSignals
    /\ signals' = signals + 1
    /\ known' = [known EXCEPT ![n] = @ \cup {f}]
    /\ job' = [job EXCEPT ![n] = [file |-> f, todo |-> Listed[f] \ {n}]]
    /\ UNCHANGED <<have, mapVars, dlVars, connVars, chan, events, mgr, panicked, breaks>>

\* One peer of the list: introduce ourselves on the connection that exists,
\* or start one.
ProcessPeer(n, p) ==
    LET f == job[n].file IN
    /\ n \notin panicked
    /\ p \in job[n].todo
    /\ job' = [job EXCEPT ![n].todo = @ \ {p}]
    /\ \/ /\ p \in pcon[n]
          /\ chan' = SendIntroduction(chan, n, p, f)
          /\ UNCHANGED connVars
       \/ /\ p \notin pcon[n]
          /\ pcon' = [pcon EXCEPT ![n] = @ \cup {p}]
          /\ dc' = [dc EXCEPT ![n] = @ \cup {p}]
          /\ link' = [link EXCEPT ![<<n, p>>] = [st |-> "offered", file |-> f]]
          /\ UNCHANGED chan
    /\ UNCHANGED <<nodeVars, mapVars, dlVars, events, mgr, panicked, bounds>>

\* All peers done: a download that is active already keeps its peers.
StartFileDownload(n) ==
    LET f == job[n].file IN
    /\ n \notin panicked
    /\ job[n] # NoJob
    /\ job[n].todo = {}
    /\ active' = [active EXCEPT ![n] = @ \cup {f}]
    /\ ap' = [ap EXCEPT ![n][f] = IF f \in active[n] THEN @ ELSE {}]
    /\ job' = [job EXCEPT ![n] = NoJob]
    /\ UNCHANGED <<nodeVars, mapVars, connVars, chan, events, mgr, panicked, bounds>>

-----------------------------------------------------------------------------
(***************************************************************************)
(* Connections                                                             *)
(***************************************************************************)

\* p handles the offer of n.  Where p has a connection to n already, its own
\* offer or an old one, the offer cannot be applied and nothing comes of it.
HandleOffer(n, p) ==
    /\ p \notin panicked
    /\ link[<<n, p>>].st = "offered"
    /\ IF n \in pcon[p]
       THEN /\ link' = [link EXCEPT ![<<n, p>>].st = "dead"]
            /\ UNCHANGED pcon
       ELSE /\ link' = [link EXCEPT ![<<n, p>>].st = "answered"]
            /\ pcon' = [pcon EXCEPT ![p] = @ \cup {n}]
    /\ UNCHANGED <<nodeVars, mapVars, dlVars, dc, chan, events, job, mgr, panicked, bounds>>

\* The channel opens; at p, OnDataChannel stores it.
ChannelOpens(n, p) ==
    /\ link[<<n, p>>].st = "answered"
    /\ panicked \cap {n, p} = {}
    /\ link' = [link EXCEPT ![<<n, p>>].st = "open"]
    /\ dc' = [dc EXCEPT ![p] = @ \cup {n}]
    /\ UNCHANGED <<nodeVars, mapVars, dlVars, pcon, chan, events, job, mgr, panicked, bounds>>

\* OnOpen at the initiator introduces it for the file of its closure.
OnOpen(n, p) ==
    /\ link[<<n, p>>].st = "open"
    /\ n \notin panicked
    /\ link' = [link EXCEPT ![<<n, p>>].st = "up"]
    /\ chan' = SendIntroduction(chan, n, p, link[<<n, p>>].file)
    /\ UNCHANGED <<nodeVars, mapVars, dlVars, pcon, dc, events, job, mgr, panicked, bounds>>

\* The connection is lost with everything in it; each side will be told
\* twice, by the data channel and by the connection.
Break(n, p) ==
    /\ link[<<n, p>>].st \in {"open", "up"}
    /\ breaks < MaxBreaks
    /\ breaks' = breaks + 1
    /\ link' = [link EXCEPT ![<<n, p>>] = NoLink]
    /\ chan' = [chan EXCEPT ![<<n, p>>] = <<>>, ![<<p, n>>] = <<>>]
    /\ events' = [k \in Callbacks |->
                    [events[k] EXCEPT ![<<n, p>>] = @ + 1, ![<<p, n>>] = @ + 1]]
    /\ UNCHANGED <<nodeVars, mapVars, dlVars, pcon, dc, job, mgr, panicked, signals>>

\* Mutant: the peer is taken out of one of the downloads only.
RemovePeerOnce(n, p) ==
    ap' = [ap EXCEPT ![n] = [f \in Files |-> IF f = CHOOSE g \in Files : TRUE
                                             THEN @[f] \ {p} ELSE @[f]]]

\* removePeerFromDownloads.
RemovePeer(n, p) == ap' = [ap EXCEPT ![n] = [f \in Files |-> @[f] \ {p}]]

OnClose(n, p) ==
    /\ n \notin panicked
    /\ events["close"][<<n, p>>] > 0
    /\ events' = [events EXCEPT !["close"][<<n, p>>] = @ - 1]
    /\ dc' = [dc EXCEPT ![n] = @ \ {p}]
    /\ RemovePeer(n, p)
    /\ UNCHANGED <<nodeVars, mapVars, active, pcon, link, chan, job, mgr, panicked, bounds>>

OnDisconnected(n, p) ==
    /\ n \notin panicked
    /\ events["disconnected"][<<n, p>>] > 0
    /\ events' = [events EXCEPT !["disconnected"][<<n, p>>] = @ - 1]
    /\ pcon' = [pcon EXCEPT ![n] = @ \ {p}]
    /\ RemovePeer(n, p)
    /\ UNCHANGED <<nodeVars, mapVars, active, dc, link, chan, job, mgr, panicked, bounds>>

-----------------------------------------------------------------------------
(***************************************************************************)
(* Messages of p at n                                                      *)
(***************************************************************************)

\* The message at hand is the next one from p to n.
Arriving(n, p) == Head(chan[<<p, n>>])
Receives(n, p, type) ==
    /\ n \notin panicked
    /\ chan[<<p, n>>] # <<>>
    /\ Arriving(n, p).type = type

Consumed(n, p) == [chan EXCEPT ![<<p, n>>] = Tail(@)]

\* Mutant: no introduction is answered.
HandleIntroductionSilent(n, p) ==
    LET q == <<n, p>>
        m == Arriving(n, p)
        f == m.file
        first == f \notin mapFiles[q]
    IN
    /\ Receives(n, p, "intro")
    /\ chan' = Consumed(n, p)
    /\ mapFiles' = [mapFiles EXCEPT ![q] = IF first THEN {f} ELSE @]
    /\ mapBits' = [mapBits EXCEPT ![q] =
                     [g \in Files |-> IF g = f THEN m.bits
                                      ELSE IF first THEN {} ELSE @[g]]]
    /\ ap' = [ap EXCEPT ![n][f] = IF f \in active[n] THEN @ \cup {p} ELSE @]
    /\ UNCHANGED <<nodeVars, active, connVars, events, job, mgr, panicked, bounds>>

\* The first introduction of a peer for a file is answered, and replaces all
\* that was known of that peer; a later one replaces the map of its file.
HandleIntroduction(n, p) ==
    LET q == <<n, p>>
        m == Arriving(n, p)
        f == m.file
        first == f \notin mapFiles[q]
    IN
    /\ Receives(n, p, "intro")
    /\ chan' = IF first THEN SendIntroduction(Consumed(n, p), n, p, f) ELSE Consumed(n, p)
    /\ mapFiles' = [mapFiles EXCEPT ![q] = IF first THEN {f} ELSE @]
    /\ mapBits' = [mapBits EXCEPT ![q] =
                     [g \in Files |-> IF g = f THEN m.bits
                                      ELSE IF first THEN {} ELSE @[g]]]
    /\ ap' = [ap EXCEPT ![n][f] = IF f \in active[n] THEN @ \cup {p} ELSE @]
    /\ UNCHANGED <<nodeVars, active, connVars, events, job, mgr, panicked, bounds>>

\* Answer when the row of the chunk is available.
HandleChunkRequest(n, p) ==
    LET m == Arriving(n, p) IN
    /\ Receives(n, p, "request")
    /\ chan' = IF m.idx \in have[n][m.file]
               THEN SendOn(Consumed(n, p), n, p, Response(m.file, m.idx))
               ELSE Consumed(n, p)
    /\ UNCHANGED <<nodeVars, mapVars, dlVars, connVars, events, job, mgr, panicked, bounds>>

\* Store the chunk and mark it (in detail in Library).
HandleChunkResponse(n, p) ==
    LET m == Arriving(n, p) IN
    /\ Receives(n, p, "response")
    /\ chan' = Consumed(n, p)
    /\ have' = [have EXCEPT ![n][m.file] = @ \cup {m.idx}]
    /\ UNCHANGED <<known, mapVars, dlVars, connVars, events, job, mgr, panicked, bounds>>

-----------------------------------------------------------------------------
(***************************************************************************)
(* downloadManager and requestOneMissingChunk                              *)
(***************************************************************************)

Missing(n, f) == Chunks \ have[n][f]

\* Mutant: any peer with a map of the file.
FindEligiblePeersAny(n, f, i) == {p \in Nodes \ {n} : f \in mapFiles[<<n, p>>]}

FindEligiblePeers(n, f, i) ==
    {p \in Nodes \ {n} : f \in mapFiles[<<n, p>>] /\ i \in mapBits[<<n, p>>][f]}

ManagerDone(n, f) ==
    /\ n \notin panicked
    /\ f \in active[n]
    /\ mgr[n][f] = NoPick
    /\ Missing(n, f) = {}
    /\ active' = [active EXCEPT ![n] = @ \ {f}]
    /\ UNCHANGED <<nodeVars, mapVars, ap, connVars, chan, events, job, mgr, panicked, bounds>>

\* A tick: someone is active, the first missing chunk, any peer that has it,
\* and its data channel exists.
PickPeer(n, f, p) ==
    /\ n \notin panicked
    /\ f \in active[n]
    /\ mgr[n][f] = NoPick
    /\ ap[n][f] # {}
    /\ \E i \in Missing(n, f) :
          /\ \A k \in Missing(n, f) : i <= k
          /\ p \in FindEligiblePeers(n, f, i)
          /\ p \in dc[n]
          /\ Len(chan[<<n, p>>]) + Len(chan[<<p, n>>]) < MaxQueue
          /\ mgr' = [mgr EXCEPT ![n][f] = [peer |-> p, idx |-> i]]
    /\ UNCHANGED <<nodeVars, mapVars, dlVars, connVars, chan, events, job, panicked, bounds>>

\* peerDataChannels[selectedPeer].Send(data), looked up again.  An entry that
\* has gone is a nil pointer; a channel that is not open is an error.  Up to
\* two sleeps and new attempts come first: that is this step taken later.
SendRequest(n, f) ==
    LET p == mgr[n][f].peer IN
    /\ n \notin panicked
    /\ mgr[n][f] # NoPick
    /\ mgr' = [mgr EXCEPT ![n][f] = NoPick]
    /\ \/ /\ p \in dc[n]
          /\ chan' = SendOn(chan, n, p, Request(f, mgr[n][f].idx))
          /\ UNCHANGED panicked
       \/ /\ p \notin dc[n]
          /\ panicked' = panicked \cup {n}
          /\ UNCHANGED chan
    /\ UNCHANGED <<nodeVars, mapVars, dlVars, connVars, events, job, bounds>>

-----------------------------------------------------------------------------
JobStep(n) == StartFileDownload(n) \/ \E p \in Nodes : ProcessPeer(n, p)

ConnStep(n, p) == HandleOffer(n, p) \/ ChannelOpens(n, p) \/ OnOpen(n, p)

MessageStep(n, p) ==
    HandleIntroduction(n, p) \/ HandleChunkRequest(n, p) \/ HandleChunkResponse(n, p)

ManagerStep(n, f) ==
    ManagerDone(n, f) \/ SendRequest(n, f) \/ \E p \in Nodes : PickPeer(n, f, p)

Next ==
    \/ \E n \in Nodes : JobStep(n) \/ \E f \in Files : DownloadSignal(n, f) \/ ManagerStep(n, f)
    \/ \E q \in Pairs : LET n == q[1]
                            p == q[2]
                        IN  \/ ConnStep(n, p) \/ Break(n, p)
                            \/ OnClose(n, p) \/ OnDisconnected(n, p)
                            \/ MessageStep(n, p)

Spec == Init /\ [][Next]_vars

(***************************************************************************)
(* Goroutines and callbacks run, tickers tick, an open channel delivers.   *)
(* Signals and broken connections need never happen.                       *)
(***************************************************************************)
Fairness ==
    /\ \A n \in Nodes : WF_vars(JobStep(n))
    /\ \A n \in Nodes, f \in Files : WF_vars(ManagerStep(n, f))
    /\ \A q \in Pairs :
          /\ WF_vars(ConnStep(q[1], q[2]))
          /\ WF_vars(OnClose(q[1], q[2])) /\ WF_vars(OnDisconnected(q[1], q[2]))
          /\ WF_vars(MessageStep(q[1], q[2]))

FairSpec == Spec /\ Fairness

\* With ticks that also meet, sooner or later, what is there only again and
\* again: what fails under this fairness is not the fault of an unlucky tick.
EagerSpec == FairSpec /\ \A n \in Nodes, f \in Files : SF_vars(ManagerStep(n, f))

-----------------------------------------------------------------------------
(***************************************************************************)
(* Properties                                                              *)
(***************************************************************************)

Stages == {"none", "offered", "dead", "answered", "open", "up"}
Messages == [type : {"intro", "request", "response"}, file : Files,
             bits : SUBSET Chunks, idx : Chunks]

\* Every variable has its type.
TypeOK ==
    /\ known \in [Nodes -> SUBSET Files]
    /\ have \in [Nodes -> [Files -> SUBSET Chunks]]
    /\ mapFiles \in [Pairs -> SUBSET Files]
    /\ mapBits \in [Pairs -> [Files -> SUBSET Chunks]]
    /\ active \in [Nodes -> SUBSET Files]
    /\ ap \in [Nodes -> [Files -> SUBSET Nodes]]
    /\ pcon \in [Nodes -> SUBSET Nodes]
    /\ dc \in [Nodes -> SUBSET Nodes]
    /\ link \in [Pairs -> [st : Stages, file : Files \cup {None}]]
    /\ chan \in [Pairs -> Seq(Messages)]
    /\ events \in [Callbacks -> [Pairs -> Nat]]
    /\ job \in [Nodes -> [file : Files \cup {None}, todo : SUBSET Nodes]]
    /\ mgr \in [Nodes -> [Files -> [peer : Nodes \cup {None}, idx : Chunks]]]
    /\ panicked \subseteq Nodes
    /\ signals \in 0..MaxSignals
    /\ breaks \in 0..MaxBreaks

(***************************************************************************)
(* What a node believes a peer to have, the peer has: maps are snapshots   *)
(* taken when the introduction was sent, they are never refreshed, they    *)
(* survive reconnects and are replaced in whatever order introductions     *)
(* arrive.                                                                 *)
(***************************************************************************)
MapSound ==
    \A q \in Pairs :
        /\ \A f \in Files : mapBits[q][f] \subseteq have[q[2]][f]
        /\ \A k \in 1..Len(chan[q]) :
              chan[q][k].type = "intro" => chan[q][k].bits \subseteq have[q[1]][chan[q][k].file]

(***************************************************************************)
(* A chunk is asked only of a peer that has it, and sent only by one: the  *)
(* "Chunk not available" return of handleChunkRequest (chunk.go:99) is     *)
(* never taken for a request of this program, however late the request.    *)
(***************************************************************************)
RequestsServable ==
    /\ \A n \in Nodes, f \in Files :
          mgr[n][f] # NoPick => mgr[n][f].idx \in have[mgr[n][f].peer][f]
    /\ \A q \in Pairs : \A k \in 1..Len(chan[q]) :
          LET m == chan[q][k] IN
          /\ m.type = "request" => m.idx \in have[q[2]][m.file]
          /\ m.type = "response" => m.idx \in have[q[1]][m.file]

(***************************************************************************)
(* A peer in ActivePeers of a running download is connected, or a callback *)
(* that takes it out is still to run: removePeerFromDownloads forgets no   *)
(* one, whatever the order of OnClose and the Disconnected state.          *)
(***************************************************************************)
ActiveConnected ==
    \A q \in Pairs : \A f \in active[q[1]] :
        q[2] \in ap[q[1]][f] => Up(q[1], q[2]) \/ \E k \in Callbacks : events[k][q] > 0

\* A connection n made for a download of f that runs was just accepted by a
\* peer that has the file, and all callbacks of earlier connections have run.
Established(n, p, f) ==
    /\ f \in active[n]
    /\ link[<<n, p>>] = [st |-> "answered", file |-> f]
    /\ Has[p][f] = Chunks
    /\ \A k \in Callbacks, r \in Pairs : events[k][r] = 0
    /\ breaks = MaxBreaks

\* Nothing is said of another file between the two, now or later.
Undisturbed(n, p, f) ==
    /\ signals = MaxSignals
    /\ \A q \in {<<n, p>>, <<p, n>>} :
          /\ job[q[1]].file \in {f, None}
          /\ link[q].file \in {f, None}
          /\ \A k \in 1..Len(chan[q]) : chan[q][k].type = "intro" => chan[q][k].file = f

(***************************************************************************)
(* A download that runs when a connection made for it is accepted gets all *)
(* its chunks if connections break no more.  It does not hold: the peer    *)
(* may remember an earlier introduction and not answer (peer.go:54), and   *)
(* the map of this file may be thrown away for that of another             *)
(* (peer.go:62).                                                           *)
(***************************************************************************)
EstablishedCompletes ==
    \A q \in Pairs : \A f \in Files :
        Established(q[1], q[2], f) ~> Missing(q[1], f) = {}

(***************************************************************************)
(* It does hold where no late OnClose has removed the new data channel     *)
(* (webrtc.go:63), the peer has no entry for this download yet and no      *)
(* other file comes between the two: the introductions of both sides, the  *)
(* manager's ticks and the answers bring every chunk, though the two may   *)
(* have met before, for this or for other files, over other connections.   *)
(***************************************************************************)
FreshCompletes ==
    \A q \in Pairs : \A f \in Files :
        (/\ Established(q[1], q[2], f)
         /\ q[2] \in dc[q[1]]
         /\ f \notin mapFiles[<<q[2], q[1]>>]
         /\ Undisturbed(q[1], q[2], f))
        ~> Missing(q[1], f) = {}
=============================================================================
