# Verification of peer-it

peer-it shares files between peers. A tracker server knows which peers share
which files; a daemon (node) on every machine registers files, finds peers
through the tracker, connects to them over WebRTC and exchanges chunks; a CLI
tells the daemon what to do. This directory models the tracker, the nodes (their
start, their library of files, their connections and transfers), the CLI and the
transport package in TLA+, checks them with TLC and proves the safety properties
of all the models with TLAPS.

## Inventory

| Part | Source | State | Operations | Talks to |
|---|---|---|---|---|
| Tracker | `internal/tracker/tracker.go`, `cmd/tracker/main.go` | `DaemonRouters`, `Channels`, one goroutine per connection | accept, CreatePeer, ID, announce, peer list, signaling, heartbeat, goodbye, timeout, Stop | nodes (TCP, protobuf), its database |
| Tables | `internal/store`, `internal/db` | SQLite: files, chunks, peers, swarms | one SQL statement each | tracker, node |
| Download signal | `node/download.go` | `peerChunkMap[n.id]`, file on disk, rows, `pendingPeerListRequests` | parse, rows, preallocate, ask tracker, connect, start | tracker, peers, CLI |
| Register signal | `node/register.go`, `node/file.go` | rows, copy on disk, `.p2p` file | hash, rows, copy, announce | tracker, CLI |
| Download manager | `node/manager.go` | `activeDownloads`, `ActivePeers` | tick: complete? else ask one peer for the first missing chunk | peers, CLI |
| Chunks | `node/chunk.go` | rows, file, own map | serve a request, store a response | peers |
| Introductions | `node/peer.go` | `peerChunkMap[peer]` | exchange chunk maps | peers |
| Connections | `node/webrtc.go`, `node/tracker.go` | `peerConnections`, `peerDataChannels` | offer, answer, ICE, OnOpen, OnMessage, OnClose, Disconnected | tracker (signaling), peers |
| Node start | `node/node.go` | `n.id`, `peerChunkMap` | init: announce the rows, reset the own map | tracker |
| IPC | `node/ipc.go` | `cliRouter`, two shared signal channels | one goroutine per CLI connection | CLI |
| Message router | `shared/prouter` | routes to typed channels of capacity 100 | read, route (blocking), write (two calls) | all TCP connections |
| CLI | `internal/client` | log channel, two unbuffered channels | send a signal, follow the logs until "done" | node |
| `.p2p` parser | `internal/parser` | none | generate, parse | node, CLI |
| Transport | `internal/transport` | `connections`, `incoming`, and per connection `recvChan` | Connect, HandleSignal, Accept, Recv, Close, the callbacks of the stack | peers; not used by the node yet |

What is hard in this code, with the lines, is the `hazards` list of
`PROJECT.json`. In short: most maps are shared between goroutines without a lock
or are checked at one line and used at another; rows, files and maps of one
operation are changed one after the other and a crash may fall between; chunk
maps are sent once and trusted for ever; callbacks identify a connection by the
peer's id alone; the tracker's tables outlive its process.

What makes the parts correct:

- *Library*: what the rows offer is what is on disk; "done" means complete; an
  announced file can be served; a download ends.
- *Tracker*: lists and forwarded messages name the right daemons; every
  announced file is recorded; who is gone is delisted.
- *Swarm*: chunk maps are true; peers are asked only for what they have;
  `ActivePeers` follows the connections; a download completes.
- *NodeLoop*: every peer list finds the channel of its file; the own chunk map is
  there when a chunk comes; late answers do not stop the one loop that serves all.
- *Signaling*: two nodes get one connection, whoever offers; an accepted offer
  connects.
- *Transport*: messages are received in order and once; a connection is handed to
  Accept once.
- *Cli*: a client that prints success tells the truth; it sees the end of its
  download; clients do not stop the daemon.
- *Transfer*: the chunks of a file, put together, are the file; the `.p2p` file
  says what was registered.

## Modules

| Module | Contents |
|---|---|
| `Library` | one node: rows, download directory, own chunk map, CLI goroutines, download managers, response callbacks, crashes |
| `Tracker` | the tracker process, its tables and one goroutine per connection |
| `Swarm` | several nodes: connections, introductions, chunk maps, managers, chunk messages |
| `NodeLoop` | the tracker side of one node: router, `handleTrackerMsgs`, pending peer lists, `init` |
| `Signaling` | offers, answers and candidates between nodes, and the table of connections |
| `Stream` | abstract: what a connection of the transport package promises of `Recv` |
| `Transport` | the transport package, which implements `Stream` |
| `Cli` | the daemon's IPC server and its writers, and the CLI clients |
| `Transfer` | one file byte by byte: chunks, `.p2p` file, offsets |
| `MCLibrary`, `MCTracker`, `MCSwarm`, `MCNodeLoop`, `MCSignaling`, `MCTransport`, `MCCli`, `MCTransfer` | constants for TLC |
| `LibraryProofs`, `TrackerProofs`, `SwarmProofs`, `NodeLoopProofs`, `SignalingProofs`, `TransportProofs`, `CliProofs`, `TransferProofs` | theorems |

The models meet where one leaves out what another has: Swarm takes the exchange of
offers and the storing of a chunk as one step each (Signaling and Library have
their steps), takes peer lists as given (Tracker and NodeLoop say what is in them
and when they come), and knows chunks by number (Transfer has their bytes).

*History* variables record what has happened and decide no step: `torn`, `early`
(Library), `skipped` (Tracker), `early`, `timeouts`, `mixed` (NodeLoop), `forgot`
(Signaling), `quiet` (Cli). Properties use them to name the executions in which
the code does go wrong, which are listed under "Runs", and to hold the code to its
promise in all others.

Definitions called "Mutant" in a comment are deliberately wrong versions of the
definition that follows them. They are used by no action and show that a property
can fail: `PROJECT.json` says which of them breaks which property.

### Library

One step is one SQL statement, one file operation or one critical section.

| State | Code |
|---|---|
| `fileRow`, `rows`, `avail` | tables files and chunks, `is_available` |
| `onDisk`, `disk` | `downloads/daemon-<index>/`; a slot holds the file whose chunk is there, `Zero` (hole) or `Eof` |
| `hasMap`, `ownMap` | `peerChunkMap[n.id]` |
| `active` | `activeDownloads`, each with its manager |
| `requested` | requests that may still be answered, any number of times |
| `job`, `handler` | where each CLI goroutine and each OnMessage callback is |
| `reported`, `announced` | "done" sent; announced to the tracker by this process |
| `torn` | history: files whose rows and bytes a fault cut short while they were created |
| `early` | history: files a second signal went on with while their rows were being created |

A job goes through `handleDownloadSignal` (`DownloadSignal`, `ClearOwnMap`,
`CreateFile` or `CreateFileLost`, `CreateChunk`..., `Preallocate`,
`StartFileDownload` or `PeerListTimeout`) or `handleRegisterSignal`
(`RegisterSignal`, `RegisterChunk`..., `CreateCopy`, `CopyFile`, `Announce`). A
callback runs `handleChunkResponse` (`ReceiveChunk`, `WriteChunkData`,
`UpdateOwnMap`, `MarkChunkAvailable`). `Crash` is a kill followed by a restart
through `init`. `JobFails` and `ResponseFails` are the error returns.

Simplifications: the node has its id and has finished `init` before the first
signal; the source of a registration lies outside the download directory; a copy
that fails half way is one that fails before its first byte (the slots it wrote
would hold the right file); a response whose file cannot be opened changes
nothing and is no step.

### Tracker

`peers`, `swarms`, `fileRow`, `nextId` are the tables, `routers` is
`DaemonRouters`, `pc` and `work` say where the goroutine of each connection is,
`inbox` is what lies in its channels: a set, because `select` takes from the typed
channels in any order. Nobody reads the channels of a goroutine that has ended,
so they are emptied then and stay empty. `client`, `sent`, `targets` are the daemon's end and
`list`, `heard` what was written to it; `skipped` is history, the files for which
`handleAnnounce` logged an error and went on. `CreateFile` is its SELECT (`LookupFile`)
and its INSERT (`InsertFile`). `DeletePeer` removes swarms rows or not: the PRAGMA
in `db/connection.go` holds for one connection of the pool. Time is left out. A
connection may be timed out whenever its goroutine waits, also when its daemon is
alive: a heartbeat may come late. `Crash` keeps the tables; `StopSwarms`,
`StopPeers`, `StopExit` are `Stop`, during which goroutines go on.

`PeerListsSound` and `SignalsSolicited` speak of the *address* that announced a
file rather than of the connection: between the statements of `Stop`, a goroutine
that is still running can add the row of a later connection from the same address
to a swarm, so the form with the connection is false there.

### Swarm

A node's `peerChunkMap` is `mapFiles` and `mapBits`; `pcon` and `dc` are
`peerConnections` and `peerDataChannels`; `link[<<n, p>>]` is the connection n
started to p; `chan` is the data channel, reliable and ordered as configured in
`webrtc.go`; `events` are the callbacks of broken connections that are still to
run, which may be after a new connection was made; `mgr` is
`requestOneMissingChunk` between its check (manager.go:91) and its `Send` (103).
The WebRTC stack is external: an offer to a node that already has an entry for the
sender comes to nothing (`dead`), another is answered and the channel opens.

`EstablishedCompletes` is what one would expect of a download whose connection is
accepted while it runs; it does not hold. `FreshCompletes` is the part that does:
the peer has no entry for the download yet, no other file comes between the two,
and the new data channel is in its place.

Simplifications: a node serves one signal at a time (Library has several);
answers and ICE candidates are part of `HandleOffer` and `ChannelOpens`; the
retries of a failed `Send` are that step taken later; storing a chunk is one step
(Library has it in four); `ProcessPeer` looks the entry up and stores the new
connection in one step (Signaling has them apart); nodes do not crash, their
connections break.

### NodeLoop

| State | Code |
|---|---|
| `id`, `slots` | `n.id`; which `peerChunkMap[i][f]` exist, `i` being the id of the moment, "" at first |
| `start`, `toLoad` | where `init` is |
| `job` | each download goroutine: the slot, the channel of its file, the request, the wait |
| `pending`, `chan` | `pendingPeerListRequests` and the contents of its channels |
| `asked`, `wire`, `typed` | the connection to the tracker and the router's channel of each message type |
| `loop` | the response `handleTrackerMsgs` is handing over |
| `early`, `timeouts`, `mixed` | history: files signalled before the start settled, requests given up, files with requests that overlapped |

`LookupChannel` and `MakeChannel` are apart, as the map is read and written at two
lines without a lock. `RouteMessage` waits while the channel of the type is full;
`HandleId`, `HandleSignal` and `HandleList` are the cases of the select; `HandOver`
blocks while the channel of the file is full. A response has the number of its
request, which the code does not have: only properties look at it.

Simplifications: one capacity for all channels (100 in the code); what a signaling
message does is in Signaling; connecting to the listed peers is part of
`ReceiveList`.

### Signaling

`conns` are the PeerConnection objects of all nodes in the order they were made,
`entry` is `peerConnections`, a position in `conns`. `job` is the goroutine of a
download signal at one peer (`CheckPeer`, `CreateInitiator`, `CreateOffer`,
`SendOffer`), `loop` is `handleTrackerMsgs` (`HandleOffer`, `CreateResponder`,
`ApplyOffer`, `SendAnswer`, `HandleAnswer`, `HandleCandidate`). Between the check,
the new connection and the lines that read the entry again the other goroutine
and the callback (`OnDisconnected`) may come. What the stack does (pion) is listed
in the module's head: when descriptions and candidates are refused, when a
connection opens. In particular a second remote description with other credentials
(tracker.go:44 on an entry that is described already) restarts ICE towards the
other connection, while DTLS keeps the certificate of the first: `WithRemote` then
breaks an open link and keeps one that is not open from ever opening. That happens
when a node stores its own connection over the one that answered, or makes a new
one after a disconnection, and offers it. `forgot` is history: a callback has
deleted an entry.

Simplifications: one download goroutine at a time; candidates are counted; a lost
connection is lost at both ends at once, while the callbacks run at any time
after; a disconnection for a moment (`Blinks`) has a callback like a final one.

### Transport and Stream

`table` is `t.connections`, `incoming` its channel, `recv` and `closed` are
`recvChan`. `stage`, `reading` and `states` are the stack's end of a connection:
the state of its data channel, whether the goroutine that calls OnMessage and
OnClose runs, and the calls of the state handler that are still to run. A caller of
`HandleSignal` looks the connection up under the lock and makes one in another
step. Each call in the signal handler that can fail may fail: a description is
refused, or set without an answer being sent (`HandleSignal`). `OnMessage` drops a
message when the buffer is full. A message is the number it was sent as. `Stream` has only `sent` and `got`, variables of Transport as well, so
the mapping (`S == INSTANCE Stream WITH ...`) takes each to itself: a Stream's
`Send` is an `OnMessage`, its `Deliver` a `Recv`, and every other step of Transport
is a stutter.

Simplifications: `Send` hands its bytes to the stack and is no step; the stack
reads on for ever, until the connection ends.

### Cli

Clients start in order (`Start`, `Accept`); the daemon serves a signal by any of
its `handleCLIMsgs` goroutines (`TakeDownload`, `TakeRegister`), since they share
the two channels; every writer (goroutines, managers, callbacks of peers) writes to
`cliRouter` of the moment, a length and then a body (`WriteMessage`), and a client
that reads two pieces that do not belong together is `garbled`. `Listen`,
`TakeLog`, `TakeDone` and `DrawBar` are the client: `listen` and
`ListenForDaemonLogs`, the goroutine of the bar, and the two channels between them
without a buffer (`listener`, `bar`). A manager gives up its entry in `activeDownloads`
(`FinishDownload`) before it sends "done" (`ManagerDone`), and between the two
another client may be accepted or start the same download: `finishing`. `quiet` is
history: the clients accepted while nothing was under way.

Simplifications: one writer per download manager, callback and signal goroutine;
at most two clients; every peer has the whole file; texts to a client that is gone
fail at once; rows and connections are in Library and Swarm.

### Transfer

`data` is the file, numbers in order, so that a misplaced byte shows. `seedRows`,
`p2p`, `rows`, `disk` are the registered rows, the lines of the `.p2p` file, the
downloader's rows and its file; a request carries an index and a response the
bytes. The operators carry the arithmetic of the code: `CalculateTotalChunks`,
`ReadChunkData` (which fails where `ReadAt` would), `WriteChunkData`,
`CreatePreallocatedFile` (an eighth of the size), `FindMissingChunkIndex`. A line is
the sequence of its parts between colons. The `.p2p` file may be read as
soon as its size and number of chunks are written, and after any chunk line.

Simplifications: no line breaks in names, no line written by half, no `.p2p` file
that the program did not write.

## Runs

Passing:

| Run | Bounds | Shows |
|---|---|---|
| `Library` | 1 file of 2 chunks, 2 jobs, 2 callbacks, 2 faults, fair | `TypeOK`, `Integrity` (an available row implies the bytes), `SlotReady` (no index into a missing map), `ReportedComplete`, `AnnouncedServable`, `DownloadsEnd` |
| `TrackerTables` | 3 connections, 2 addresses, 1 file, 1 failed statement, 1 crash or stop | `TypeOK`, `PeerListsSound`, `SignalsSolicited` |
| `TrackerSwarm` | 2 connections at 2 addresses, 2 files of which both have one and the first the other, no fault, fair | `ListedRoutable`, `SwarmComplete`, `Delisted` |
| `Swarm` | 2 nodes, 2 files of 2 chunks, 3 signals, 1 break, fair | `TypeOK`, `MapSound`, `RequestsServable`, `ActiveConnected`, `FreshCompletes` |
| `NodeLoop` | 2 files (1 known), 2 goroutines, 2 requests, 1 signaling message, capacity 1, fair | `TypeOK`, `ListsExpected`, `SlotSettled`, `FreshList`, `SignalsHandled` |
| `Signaling` | 2 nodes, 2 offers, 1 candidate each, 2 losses, fair | `TypeOK`, `OneLink`, `AcceptedConnects` |
| `Transport` | 2 connections, 1 peer, 2 callers, buffers of 2 and 1, 3 messages | `TypeOK`, `AcceptedOnce`, `Ordered` (refinement of `Stream`) |
| `Cli` | 2 clients (2 downloads, or a download and a registration with 2 introductions), 1 peer, 1 chunk, connections of 2 pieces, log of 1, fair | `TypeOK`, `SuccessTrue`, `StuckNeedsOverlap`, `DoneSeen`, `WritesEnd` |
| `Transfer` | sizes 0 to 9, chunks of 2 to 4 bytes, names with and without a colon, fair | `TypeOK`, `ChunksAgree`, `ParseInverts`, `BytesInPlace`, `TransferEnds` |

The largest, `Transport`, has 1.8 million distinct states (a minute); `Cli` has
366,000 (under three minutes, most of it for the liveness properties), `Swarm`
161,000 (over two minutes), `Library` 128,000, `TrackerSwarm` 105,000, `Signaling`
91,000, `Transfer` 8,600.

Violated by what the code does (the findings of `PROJECT.json` quote the lines that
promise otherwise):

| Run | Property | What happens |
|---|---|---|
| `TrackerRace` | `EveryoneJoins` | two daemons announce one new file at once; the one whose INSERT comes second is not added to the swarm (tracker.go:216) |
| `SwarmReconnect` | `EstablishedCompletes` | after a reconnect the introduction is not answered (peer.go:54), and the download stands still |
| `SwarmForget` | `EstablishedCompletes` | the first introduction for a second file discards the map of the first (peer.go:62), of which nothing more is asked |

`TrackerRace` has the constants of `TrackerSwarm`. `SwarmForget` is checked under
`EagerSpec`, in which a manager's tick also meets, in the end, what is there only
again and again: otherwise the counterexample could be one of unlucky ticks.

The models have further executions of this kind, which no run of their own
records. The properties of the passing runs are stated so that they leave exactly
these out, by a history variable or a premise.

- *Library.* Where a name is shared (`NameOf` maps two files to one name),
  `Integrity` fails: the later file truncates the earlier, whose rows stay
  available. A crash among the chunk rows leaves a file that the next signal
  reports as done, one between the rows and the copy of a registration announces
  what cannot be read, and after one between the rows and the preallocated file
  the download never ends (`torn`). A second signal for a file whose chunk rows are
  still being inserted finds the row (download.go:26), starts a manager that sees
  no chunk missing, and the client prints success (download_cmd.go:84) before there
  is a chunk (`early`).
- *Tracker.* With `MaxDowns = 1` in `TrackerSwarm`, `Delisted` fails: the rows of
  the connected peers outlive a kill of the tracker. A list taken between
  `delete(DaemonRouters)` and `DeletePeer` names a peer that cannot be reached. A
  daemon timed out while alive is read no more and not told.
- *Swarm.* With two files whose introductions cross, each discards the other's map
  and is answered as a first one, and the introductions may go back and forth for
  ever. An entry deleted between the check of `requestOneMissingChunk` and its
  `Send` is a nil dereference (`panicked`); the other properties hold of the nodes
  that go on. The answer to an introduction that is handled before
  `startFileDownload` is lost to the download; a late OnClose removes the data
  channel of a new connection. `Established` and the premises of `FreshCompletes`
  leave both out.
- *NodeLoop.* A second goroutine replaces the channel of the first, which then
  waits its ten seconds in vain; a list that came too late answers the next request
  (`mixed`); a file signalled before the ID and `init` may have no slot (`early`).
- *Signaling.* A Disconnected callback deletes the entry of a newer connection, or
  of one that comes back, and a second one is opened beside it; the same callback
  between the two readings of the entry makes a method be called on nil
  (`forgot`). Two nodes that offer to each other at once may get no connection:
  each refuses the other's offer, or one stores its own connection over the one
  that answered and its offer moves the other's, and neither opens. A connection
  whose candidates all arrive before the descriptions never opens and is never
  given up.
- *Transport.* After an end, `recvChan` is closed by OnClose and by the state
  handler, or sent to after it was closed: `panicked`. Two signals of a new peer at
  once make two connections, of which both may be accepted.
- *Cli.* A client accepted while another's download runs may print success for the
  wrong file, or hang at an unbuffered channel; two writers at once garble a
  connection; a registration's client takes the messages of a download.
- *Transfer.* A name with a colon is cut there (parser.go:96), although the format
  documented in parser.go:15-27 has `fileName:string`: the download is stored under
  another name. A `.p2p` file without its last lines gives a download that is done
  when the rows it has are.

Why the bounds are enough for what is asked: two chunks give a first and a last
one, two goroutines or callbacks give every race on one file, two faults a fault
in the recovery from another. Two daemons with a file in common and one apart reach
both branches of `handleAnnounce` and its race. Three connections with two addresses are the
smallest case in which an address returns while another daemon holds a list. One
break allows a reconnect with the old callbacks still pending. `MaxQueue` stops a
manager from asking again while that many messages are under way; without it the
queue of repeated requests is unbounded and nothing else changes. In NodeLoop a
capacity of 1 is filled by one late answer, and two requests are two goroutines at
one file, or one file asked for again; `MaxAsks` and `MaxSignals` end the run. Two
offers in Signaling are offers that cross, or an attempt after a loss. In Transport
three messages overflow a buffer of two, two callers make two connections for one
peer, and `MaxMsgs` lets the second connection carry none, since connections do
not share a stream. In Cli a pipe of two pieces and a log of one message fill with
the first two messages; `MaxDue` bounds repeated requests like `MaxQueue`,
`MaxIntros` the introductions, whose texts are the only traffic of a client that
registers; `Killable` lets the user stop the first client, the one whose messages a
later client takes. Sizes up to nine with chunks of two to four bytes have an empty
file, multiples of the chunk size and one byte to either side of them. The safety
properties are proved for every bound, see "Proofs".

Deadlock is checked for Library, where a signal is always possible. The other
systems may stop: connections, signals, offers, messages and faults are finite in
number, and so are the requests of a finished transfer.

### Fairness

- Library: goroutines and callbacks run, the manager's ticker ticks (weak). A
  peer that is asked again and again answers some requests (strong): the ticker
  repeats the request every 50 ms and data channels are reliable.
- Tracker: goroutines run; the ticker of a connection whose daemon is gone fires,
  since nothing resets it (weak). Daemons need do nothing.
- Swarm: goroutines and callbacks run, tickers tick, an open channel delivers
  (weak). Signals and breaks need never happen.
- NodeLoop: `init`, the router, the loop and every goroutine run, and the ten
  seconds pass (weak). The tracker need not answer, nor peers signal, nor select
  prefer one of the channels that are ready.
- Signaling: goroutines run; the stack gathers candidates, opens what can open and
  calls back (weak). Offers and losses need never happen.
- Cli: some goroutine, callback or client runs while one can (weak, of all of them
  together, the least a scheduler gives). Users need do nothing.
- Transfer: the manager ticks, requests are answered and responses handled (weak).
  Registration may stop between any two lines.

## Proofs

Every safety property of the passing runs is a theorem, for every value of the
constants that the modules' assumptions allow. Four theorems have hypotheses:

| Theorem | Hypotheses | Why |
|---|---|---|
| `IntegrityHolds`, `AnnouncedServableHolds`, `ReportedCompleteHolds` | `NamesDistinct` | two files of one name share their bytes; the run has one file |
| `ListedRoutableHolds` | `MaxFaults = 0`, `MaxDowns = 0` | rows outlive the process and, if a DELETE fails, the goroutine; the run has the same bounds |

No theorem bounds the number of files, chunks, nodes, connections, goroutines,
clients or messages. Each rests on an inductive invariant, stated at the head of its
section of the proof module.

- `LibraryProofs`: `TypeCorrect`; `IntegrityHolds` under `NamesDistinct` (without
  it the property fails, see above); `SlotReadyHolds`. Integrity alone
  is not inductive: a truncation of a file would break it. The invariant `IInv`
  adds that one goroutine owns the creation of a file (`OneOwner`, from
  UNIQUE(hash)), that its rows are created before its bytes and none is available
  while a download is being set up (`RowsFirst`, `Downloading`), that nobody asks
  for chunks of a file being registered (`Registering`), and that a file with
  requests or responses under way is never truncated again (`Trusted`,
  `Arriving`). `SlotReady` follows from `MapReady`: jobs, downloads, requests and
  responses exist only for files whose own map exists.
  `AnnouncedServableHolds` adds `KeptInv`: a hash with a file row is being worked on
  by the goroutine that created it (`Owned`), has all rows and its bytes for good
  (`Settled`) or is torn, and what is announced or about to be is settled or torn.
  `ReportedCompleteHolds` adds `DoneInv`: a download starts on a settled file, so
  that the manager, which looks only for a row that is not available, cannot find
  too few rows, or on one that is torn or early (`Excused`).
- `TrackerProofs`: `TypeCorrect`; `PeerListsSoundHolds`. `IInv` follows an id from
  the counter (`IdsUnique`) to its row (`RowsOwned`), to the swarms rows, which
  may outlive it (`SwarmsAnnounced`), and the file from the announcement through
  the goroutine's work (`WorkAnnounced`). `SignalsSolicitedHolds` adds `SInv`: the
  router under an id is the connection with that id (`RoutersNamed`), so a daemon
  hears only from those that addressed it (`HeardFrom`), and it was addressed
  because it was listed or had addressed somebody (`TargetsSolicited`).
  `SwarmCompleteHolds` adds `CInv`: a goroutine past CreatePeer has the only row of
  its address, what its daemon announced is in the channel, at hand, in the swarm or
  skipped (`Complete`), and where its INSERT is going to fail, or has failed without
  a fault, a daemon at another address announced the file (`Raced`, `Excused`): the
  goroutines of one address take turns, since CreatePeer refuses a second row.
  That holds after any number of restarts too, over rows of earlier
  connections. `ListedRoutableHolds` adds `RInv`: a swarms row with its peers row
  belongs to a goroutine between `RegisterRouter` and `DeletePeer`.
- `SwarmProofs`: `TypeCorrect`; `MapSoundHolds` (chunks are never lost, so a map
  that was true when sent stays true, through channels, maps and picks);
  `RequestsServableHolds`, from the same invariant;
  `ActiveConnectedHolds`, whose invariant `ConnInv` says that there is at most one
  live connection between two nodes (`OneLink`), that a broken one leaves
  its callbacks to run (`LostOnce`), and that messages exist only on live ones
  (`Carried`).
- `NodeLoopProofs`: `TypeCorrect`, whose invariant also says which messages each
  channel of the router holds; `SlotSettledHolds`: before the start has settled all
  files at work are early, afterwards a signal makes a slot that nothing empties
  (`SlotInv`); `ListsExpectedHolds`: a goroutine asks only when its file has a
  channel, an entry is replaced but never removed, and so every list under way has
  a channel of its file (`ListInv`: `Asking`, `OwnChannels`, `Queued`).
  `FreshListHolds`, an action property: all queues between a request and the
  goroutine that waits for its answer hold at most one message of a file whose
  requests never overlapped, and it carries the request of the one goroutine
  that waits for the file (`FreshInv`). The proof treats requests on the wire, the
  tracker, the router, the loop and the file's channel as one family of queues
  through which a message moves (`LoneMoved`, `LoneDropped`, `LoneAppended`).
- `SignalingProofs`: `TypeCorrect`, whose invariant also says that whatever refers to
  a connection (an entry, a message, a goroutine, the other end) refers to one
  between the right two nodes. `OneLinkHolds`: an open connection and the one at its
  other end point to each other (`Linked`), also when a second description moves a
  connection (`SetsRemote`). While no entry was deleted every connection made has one
  (`Listed`, `Rereads`), and at most one of two nodes has made, or is about to
  make, two connections to the other (`Single`): to make a second one a node must
  have offered before it took an offer, whose sender then has an entry and ignores
  the node's offer.
- `TransportProofs`: `OrderedHolds`, the refinement of `Stream`: what was received
  is older than what is buffered and that older than what will be sent
  (`StreamInv`), so every step is a step of `Stream` or a stutter. `TypeCorrect`,
  `AcceptedOnceHolds` from one invariant, `SafeInv`: what is used was made (`Made`),
  a described connection of the peer's has at most one answer, and one if it was
  opened (`Answered`, `Given`), and a connection is queued, offered or accepted only
  once (`Queued`).
- `CliProofs`: `TypeCorrect`, with what an unaccepted client cannot have been sent
  (`NothingYet`). `SuccessIsTrue`: what is on the way to a client accepted in a calm
  moment (`quiet`) is about its file, and a "done" among it is true (`Honest`); as
  long as it is the latest client, only its download is served (`Alone`).
  `NeverStuck`: lengths and bodies on a connection alternate per writer or the
  connection is garbled (`InStep`), such a client has at most one total, before all
  its progress (`InOrder`), because its download starts only after the total was
  written (`Staged`).
- `TransferProofs`: `TypeCorrect`, `ParseInvertsHolds`, `BytesInPlaceHolds` and
  `ChunksAgreeHolds` from one invariant: the rows cut the file into consecutive chunks
  (`Cut`), the `.p2p` file is a beginning of the header and the lines of these rows
  (`Written`), the downloader has what its parsed beginning says (`Loaded`), and an
  available row has its bytes in their place (`Placed`). That the chunks, put
  together, are the file is a statement about a fold; it is proved from a least
  counterexample (`LeastOf`) where an induction theorem cannot be used.

`ParseInvertsHolds` is an action property: the step in which `parserFile` changes
sets it to what was registered.

Only model-checked are the liveness properties: `DownloadsEnd`, `Delisted`,
`FreshCompletes`, `SignalsHandled`, `AcceptedConnects`,
`DoneSeen`, `WritesEnd`, `TransferEnds`. They need fairness and ENABLED, which are out
of the prover's reach.

## Not modelled, and the plan

Left to do, in this order:

1. Larger instances of the liveness runs: three offers in Signaling with the
   callbacks of two losses, two chunks in Cli, three nodes in Swarm.
2. Two files that share a name in Library: which of the two the bytes and the rows
   belong to after any order of their signals.
3. `.p2p` files that the program did not write, and names with colons.

Left out: marshalling (generated), flags, the drawing of the progress bar and
logging (pure I/O), opening the databases, `parse` (it prints a parsed file),
hashes (no code compares them after registration), STUN (configuration of the
stack). The heartbeats only reset the tracker's ticker, whose time is left out.
Unsynchronised accesses to the Go maps are single steps in the models; that the
runtime may end the process for one is a crash, which Library and Tracker have.
