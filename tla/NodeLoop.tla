------------------------------ MODULE NodeLoop ------------------------------
(***************************************************************************)
(* The tracker side of one node while it starts and serves signals:        *)
(*                                                                         *)
(*   - the router goroutine (internal/shared/prouter), which moves what    *)
(*     the tracker wrote to one channel per message type and waits while   *)
(*     that channel is full;                                               *)
(*   - handleTrackerMsgs, one loop that takes from the three channels in   *)
(*     any order and hands peer lists to pendingPeerListRequests;          *)
(*   - the download goroutines, each of which makes its slot of the own    *)
(*     chunk map, finds or makes the channel of its file, asks and waits   *)
(*     ten seconds;                                                        *)
(*   - init, which runs at the same time and empties the own chunk map.    *)
(*                                                                         *)
(* n.id is "" until the ID message is handled, and every access to         *)
(* peerChunkMap[n.id] uses the value of that moment.                       *)
(***************************************************************************)
EXTENDS Naturals, Sequences

CONSTANTS
    Files,       \* file hashes
    Known,       \* files with a row when the node starts
    Jobs,        \* goroutines of handleCLIMsgs
    Cap,         \* capacity of every channel (100 in the code)
    MaxAsks,     \* bound on peer list requests
    MaxSignals,  \* bound on signaling messages of other peers
    None         \* no file, no channel

ASSUME NodeLoopAssumption ==
    /\ Known \subseteq Files
    /\ Cap \in Nat \ {0} /\ MaxAsks \in Nat /\ MaxSignals \in Nat
    /\ None \notin Files /\ None \notin Jobs \X Files

VARIABLES
    id,         \* n.id
    slots,      \* <<i, f>> when peerChunkMap[i][f] exists
    start,      \* where init is
    toLoad,     \* files init has still to load
    early,      \* files whose last signal came before the start had settled
    job,        \* where each download goroutine is
    pending,    \* pendingPeerListRequests: the channel of each file
    chan,       \* the contents of those channels
    asked,      \* requests the tracker has not read
    wire,       \* messages the router has not read
    typed,      \* the channels of the router, by message type
    loop,       \* the response handleTrackerMsgs is handing over
    active,     \* files whose download was started
    timeouts,   \* number of requests of each file that were given up
    mixed,      \* files with a timeout or two requests at once, so far
    asks, signals

startVars == <<id, slots, start, toLoad, early>>
bounds == <<asks, signals>>
vars == <<startVars, job, pending, chan, asked, wire, typed, loop, active,
          timeouts, mixed, bounds>>

Me == "me"
Ids == {"", Me}
Kinds == {"id", "list", "signal"}

\* A channel is named after the goroutine that made it: an entry is never
\* deleted, so a goroutine makes at most one for a file.
Channels == Jobs \X Files

Msg(k, f, r) == [kind |-> k, file |-> f, req |-> r]
NoResponse == Msg("none", None, 0)
Idle == [st |-> "idle", file |-> None, ch |-> None, req |-> 0]

Settled == id = Me /\ start = "done"

Waiting(f) == {j \in Jobs : job[j].st = "wait" /\ job[j].file = f}

\* The tracker writes the ID before anything else.
Init ==
    /\ id = ""
    /\ slots = {}
    /\ start = "load"
    /\ toLoad = Known
    /\ early = {}
    /\ job = [j \in Jobs |-> Idle]
    /\ pending = [f \in Files |-> None]
    /\ chan = [c \in Channels |-> <<>>]
    /\ asked = <<>>
    /\ wire = <<Msg("id", None, 0)>>
    /\ typed = [k \in Kinds |-> <<>>]
    /\ loop = [resp |-> NoResponse, ch |-> None]
    /\ active = {}
    /\ timeouts = [f \in Files |-> 0]
    /\ mixed = {}
    /\ asks = 0
    /\ signals = 0

-----------------------------------------------------------------------------
(***************************************************************************)
(* init                                                                    *)
(***************************************************************************)

\* The chunk map of one file, stored under the id of the moment.
InitLoad(f) ==
    /\ start = "load"
    /\ f \in toLoad
    /\ toLoad' = toLoad \ {f}
    /\ slots' = slots \cup {<<id, f>>}
    /\ UNCHANGED <<id, start, early, job, pending, chan, asked, wire, typed,
                   loop, active, timeouts, mixed, bounds>>

\* After the Announce message: peerChunkMap[n.id] = make(...), which forgets
\* what was loaded and what early signals stored.
InitReset ==
    /\ start = "load"
    /\ toLoad = {}
    /\ start' = "done"
    /\ slots' = {s \in slots : s[1] # id}
    /\ UNCHANGED <<id, toLoad, early, job, pending, chan, asked, wire, typed,
                   loop, active, timeouts, mixed, bounds>>

-----------------------------------------------------------------------------
(***************************************************************************)
(* handleDownloadSignal: the own chunk map and the peer list               *)
(***************************************************************************)

\* Mutant: the slot is made for a file the node did not know only.
DownloadSignalNewOnly(j, f) ==
    /\ job[j].st = "idle"
    /\ asks < MaxAsks
    /\ asks' = asks + 1
    /\ slots' = IF f \in Known THEN slots ELSE slots \cup {<<id, f>>}
    /\ early' = IF Settled THEN early \ {f} ELSE early \cup {f}
    /\ job' = [job EXCEPT ![j] = [Idle EXCEPT !.st = "slot", !.file = f]]
    /\ UNCHANGED <<id, start, toLoad, pending, chan, asked, wire, typed, loop,
                   active, timeouts, mixed, signals>>

\* Lines 43 to 48: the slot is made, again for a file that has one.
DownloadSignal(j, f) ==
    /\ job[j].st = "idle"
    /\ asks < MaxAsks
    /\ asks' = asks + 1
    /\ slots' = slots \cup {<<id, f>>}
    /\ early' = IF Settled THEN early \ {f} ELSE early \cup {f}
    /\ job' = [job EXCEPT ![j] = [Idle EXCEPT !.st = "slot", !.file = f]]
    /\ UNCHANGED <<id, start, toLoad, pending, chan, asked, wire, typed, loop,
                   active, timeouts, mixed, signals>>

\* Lines 89 to 96: once more when the row of the file was created.
PrepareFile(j) ==
    /\ job[j].st = "slot"
    /\ slots' \in {slots, slots \cup {<<id, job[j].file>>}}
    /\ job' = [job EXCEPT ![j].st = "lookup"]
    /\ UNCHANGED <<id, start, toLoad, early, pending, chan, asked, wire, typed,
                   loop, active, timeouts, mixed, bounds>>

\* Mutant: the channel is made but stored only when the answer is there.
LookupChannelUnstored(j) ==
    LET f == job[j].file IN
    /\ job[j].st = "lookup"
    /\ job' = [job EXCEPT ![j].st = "request",
                          ![j].ch = IF pending[f] = None THEN <<j, f>> ELSE pending[f]]
    /\ UNCHANGED <<startVars, pending, chan, asked, wire, typed, loop, active,
                   timeouts, mixed, bounds>>

\* pendingPeerListRequests is read without a lock ...
LookupChannel(j) ==
    LET f == job[j].file IN
    /\ job[j].st = "lookup"
    /\ job' = [job EXCEPT ![j].st = IF pending[f] = None THEN "make" ELSE "request",
                          ![j].ch = pending[f]]
    /\ UNCHANGED <<startVars, pending, chan, asked, wire, typed, loop, active,
                   timeouts, mixed, bounds>>

\* ... and written at another moment: a channel another goroutine stored for
\* the file in between is replaced, and its owner waits on it in vain.
MakeChannel(j) ==
    LET f == job[j].file IN
    /\ job[j].st = "make"
    /\ pending' = [pending EXCEPT ![f] = <<j, f>>]
    /\ job' = [job EXCEPT ![j].st = "request", ![j].ch = <<j, f>>]
    /\ UNCHANGED <<startVars, chan, asked, wire, typed, loop, active, timeouts,
                   mixed, bounds>>

\* Ask the tracker.  The number of the request is not in the message: it only
\* says which request an answer was written for.
Request(j) ==
    LET f == job[j].file IN
    /\ job[j].st = "request"
    /\ asked' = Append(asked, Msg("list", f, asks))
    /\ mixed' = IF Waiting(f) = {} THEN mixed ELSE mixed \cup {f}
    /\ job' = [job EXCEPT ![j].st = "wait", ![j].req = asks]
    /\ UNCHANGED <<startVars, pending, chan, wire, typed, loop, active,
                   timeouts, bounds>>

\* Mutant: the list is left for whoever asks next.
ReceiveListKeeps(j) ==
    LET c == job[j].ch IN
    /\ job[j].st = "wait"
    /\ chan[c] # <<>>
    /\ active' = active \cup {job[j].file}
    /\ job' = [job EXCEPT ![j] = Idle]
    /\ UNCHANGED <<startVars, pending, chan, asked, wire, typed, loop, timeouts,
                   mixed, bounds>>

\* The list is here: connect to its peers (Swarm) and startFileDownload.
ReceiveList(j) ==
    LET c == job[j].ch IN
    /\ job[j].st = "wait"
    /\ chan[c] # <<>>
    /\ chan' = [chan EXCEPT ![c] = Tail(@)]
    /\ active' = active \cup {job[j].file}
    /\ job' = [job EXCEPT ![j] = Idle]
    /\ UNCHANGED <<startVars, pending, asked, wire, typed, loop, timeouts,
                   mixed, bounds>>

\* Ten seconds without it.
WaitTimeout(j) ==
    LET f == job[j].file IN
    /\ job[j].st = "wait"
    /\ timeouts' = [timeouts EXCEPT ![f] = @ + 1]
    /\ mixed' = mixed \cup {f}
    /\ job' = [job EXCEPT ![j] = Idle]
    /\ UNCHANGED <<startVars, pending, chan, asked, wire, typed, loop, active,
                   bounds>>

-----------------------------------------------------------------------------
(***************************************************************************)
(* The tracker, the router and handleTrackerMsgs                           *)
(***************************************************************************)

\* The tracker answers the requests in order; one whose query fails is not
\* answered.
TrackerAnswers ==
    /\ asked # <<>>
    /\ asked' = Tail(asked)
    /\ wire' \in {wire, Append(wire, Head(asked))}
    /\ UNCHANGED <<startVars, job, pending, chan, typed, loop, active,
                   timeouts, mixed, bounds>>

\* Another peer's offer, answer or candidate.
PeerSignals ==
    /\ signals < MaxSignals
    /\ signals' = signals + 1
    /\ wire' = Append(wire, Msg("signal", None, 0))
    /\ UNCHANGED <<startVars, job, pending, chan, asked, typed, loop, active,
                   timeouts, mixed, asks>>

\* Read one message and send it to the channel of its type: no drop, so a full
\* channel holds up what comes behind it.
RouteMessage ==
    LET m == Head(wire) IN
    /\ wire # <<>>
    /\ Len(typed[m.kind]) < Cap
    /\ wire' = Tail(wire)
    /\ typed' = [typed EXCEPT ![m.kind] = Append(@, m)]
    /\ UNCHANGED <<startVars, job, pending, chan, asked, loop, active,
                   timeouts, mixed, bounds>>

Selects(k) == loop.resp = NoResponse /\ typed[k] # <<>>

Taken(k) == [typed EXCEPT ![k] = Tail(@)]

HandleId ==
    /\ Selects("id")
    /\ typed' = Taken("id")
    /\ id' = Me
    /\ UNCHANGED <<slots, start, toLoad, early, job, pending, chan, asked, wire,
                   loop, active, timeouts, mixed, bounds>>

\* What the message does is in Signaling.
HandleSignal ==
    /\ Selects("signal")
    /\ typed' = Taken("signal")
    /\ UNCHANGED <<startVars, job, pending, chan, asked, wire, loop, active,
                   timeouts, mixed, bounds>>

\* Mutant: the hash itself is taken for the channel.
HandleListByHash ==
    LET m == Head(typed["list"]) IN
    /\ Selects("list")
    /\ typed' = Taken("list")
    /\ loop' = [resp |-> m, ch |-> m.file]
    /\ UNCHANGED <<startVars, job, pending, chan, asked, wire, active, timeouts,
                   mixed, bounds>>

\* Look the channel of the file up; a hash without one is only logged.
HandleList ==
    LET m == Head(typed["list"]) IN
    /\ Selects("list")
    /\ typed' = Taken("list")
    /\ loop' = [resp |-> m, ch |-> pending[m.file]]
    /\ UNCHANGED <<startVars, job, pending, chan, asked, wire, active, timeouts,
                   mixed, bounds>>

\* Mutant: an unbuffered channel, which takes a list only from a loop whose
\* requester is still waiting.
HandOverUnbuffered ==
    LET c == loop.ch IN
    /\ loop.resp # NoResponse
    /\ c # None
    /\ Waiting(loop.resp.file) # {}
    /\ Len(chan[c]) < Cap
    /\ chan' = [chan EXCEPT ![c] = Append(@, loop.resp)]
    /\ loop' = [resp |-> NoResponse, ch |-> None]
    /\ UNCHANGED <<startVars, job, pending, asked, wire, typed, active,
                   timeouts, mixed, bounds>>

\* channel <- responseMsg.  A nil channel blocks for ever, a full one until
\* somebody receives.
HandOver ==
    LET c == loop.ch IN
    /\ loop.resp # NoResponse
    /\ c # None
    /\ Len(chan[c]) < Cap
    /\ chan' = [chan EXCEPT ![c] = Append(@, loop.resp)]
    /\ loop' = [resp |-> NoResponse, ch |-> None]
    /\ UNCHANGED <<startVars, job, pending, asked, wire, typed, active,
                   timeouts, mixed, bounds>>

-----------------------------------------------------------------------------
InitStep == InitReset \/ \E f \in Files : InitLoad(f)

JobStep(j) ==
    \/ PrepareFile(j) \/ LookupChannel(j) \/ MakeChannel(j) \/ Request(j)
    \/ ReceiveList(j) \/ WaitTimeout(j)

LoopStep == HandleId \/ HandleSignal \/ HandleList \/ HandOver

Next ==
    \/ InitStep
    \/ \E j \in Jobs : JobStep(j) \/ \E f \in Files : DownloadSignal(j, f)
    \/ TrackerAnswers \/ PeerSignals \/ RouteMessage
    \/ LoopStep

Spec == Init /\ [][Next]_vars

(***************************************************************************)
(* Goroutines run and timers fire.  The tracker need not answer, nor peers *)
(* signal, nor need select prefer one of the channels that are ready.      *)
(***************************************************************************)
Fairness ==
    /\ WF_vars(InitStep) /\ WF_vars(RouteMessage) /\ WF_vars(LoopStep)
    /\ \A j \in Jobs : WF_vars(JobStep(j))

FairSpec == Spec /\ Fairness

-----------------------------------------------------------------------------
(***************************************************************************)
(* Properties                                                              *)
(***************************************************************************)

JobStates == {"idle", "slot", "lookup", "make", "request", "wait"}
Responses == [kind : {"list"}, file : Files, req : Nat]

\* Every variable has its type.
TypeOK ==
    /\ id \in Ids
    /\ slots \subseteq Ids \X Files
    /\ start \in {"load", "done"}
    /\ toLoad \subseteq Files
    /\ early \subseteq Files
    /\ job \in [Jobs -> [st : JobStates, file : Files \cup {None},
                         ch : Channels \cup {None}, req : Nat]]
    /\ pending \in [Files -> Channels \cup {None}]
    /\ chan \in [Channels -> Seq(Responses)]
    /\ asked \in Seq(Responses)
    /\ wire \in Seq(Responses \cup {Msg("id", None, 0), Msg("signal", None, 0)})
    /\ typed \in [Kinds -> Seq(Responses \cup {Msg("id", None, 0), Msg("signal", None, 0)})]
    /\ loop \in [resp : Responses \cup {NoResponse}, ch : Channels \cup {None}]
    /\ active \subseteq Files
    /\ timeouts \in [Files -> Nat]
    /\ mixed \subseteq Files
    /\ asks \in 0..MaxAsks
    /\ signals \in 0..MaxSignals

(***************************************************************************)
(* A peer list always has a channel to go to (tracker.go:111 only logs     *)
(* when it has none, and line 119 would block the loop for ever), and that *)
(* channel is one of its file, so line 128 of download.go never refuses a  *)
(* list: whichever goroutines look the channel up at the same time.        *)
(***************************************************************************)
ListsExpected ==
    /\ loop.resp # NoResponse => loop.ch # None /\ loop.ch[2] = loop.resp.file
    /\ \A c \in Channels : \A k \in 1..Len(chan[c]) : chan[c][k].file = c[2]

(***************************************************************************)
(* handleChunkResponse indexes peerChunkMap[n.id][hash] of a download that *)
(* runs: the entry exists under the present id, although init empties the  *)
(* map and the id changes while signals are served, if the last signal for *)
(* the file came after both.                                               *)
(***************************************************************************)
SlotSettled == Settled => \A f \in active \ early : <<id, f>> \in slots

(***************************************************************************)
(* A download gets the list it asked for, unless a request for its file    *)
(* was given up before or two goroutines asked for it at once: only then   *)
(* does an old list lie in the channel (download.go:113 keeps it).         *)
(***************************************************************************)
FreshList ==
    [][\A j \in Jobs : ReceiveList(j) =>
          Head(chan[job[j].ch]).req = job[j].req \/ job[j].file \in mixed]_vars

(***************************************************************************)
(* The one loop that serves lists, signaling and the ID does not stop:     *)
(* what another peer signals is handled, unless more lists of a file than  *)
(* a channel holds came too late.                                          *)
(***************************************************************************)
SignalsHandled ==
    typed["signal"] # <<>> ~> \/ typed["signal"] = <<>>
                              \/ \E f \in Files : timeouts[f] > Cap
=============================================================================
