--------------------------------- MODULE Cli ---------------------------------
(***************************************************************************)
(* The daemon and the command line clients that talk to it.                *)
(*                                                                         *)
(* The daemon accepts connections (startIPCServer), serves the signals of  *)
(* all of them from shared channels by one goroutine per connection        *)
(* (handleCLIMsgs), and writes all its messages to the router of the       *)
(* latest connection (messageCLI).  Writers are the goroutines that serve  *)
(* a signal, the download managers and the callbacks of remote peers.      *)
(* WriteMessage writes a length and a body in two calls without a lock.    *)
(*                                                                         *)
(* A client reads its connection (listen), takes the messages one by one   *)
(* (ListenForDaemonLogs) and hands totals and progress to a goroutine that *)
(* draws the bar, over channels without a buffer.                          *)
(***************************************************************************)
EXTENDS Naturals, Sequences, SequencesExt

CONSTANTS
    NClis,      \* number of client processes, in the order they connect
    Wants,      \* what the clients may ask for: a file to download, or NoFile to register one
    Files,
    Peers,      \* remote peers, each with a callback that handles one message at a time
    NChunks,    \* chunks of a file
    PipeCap,    \* lengths and bodies a connection holds
    LogCap,     \* capacity of LogChan (100 in the code)
    Killable,   \* bound: the clients the user may stop
    MaxDue,     \* bound on requests for one chunk that wait for their response
    MaxIntros,  \* bound on introductions of remote peers, for each of Wants
    NoFile

Clis == 1..NClis
NoCli == 0

ASSUME CliAssumption ==
    /\ NClis \in Nat
    /\ NoFile \notin Files /\ Killable \subseteq Clis
    /\ Wants \subseteq [Clis -> Files \cup {NoFile}]
    /\ NChunks \in Nat \ {0} /\ MaxDue \in Nat \ {0} /\ MaxIntros \in [Wants -> Nat]
    /\ PipeCap \in Nat \ {0, 1} /\ LogCap \in Nat \ {0}

VARIABLES
    want,       \* what each client asks for
    cli,        \* state of each client process
    accepted,   \* the connections the daemon has accepted
    pending,    \* clients whose signal is in a channel of the daemon
    quiet,      \* clients accepted while no download was under way
    cliRouter,  \* n.cliRouter
    job,        \* the file each handleCLIMsgs is downloading
    active,     \* activeDownloads
    finishing,  \* files whose manager is between its last tick and "done"
    due,        \* responses that remote peers have still to send
    have,       \* chunks stored
    callback,   \* where each peer's handleChunkResponse is
    intros,
    pen,        \* where each writer is in WriteMessage
    pipe,       \* bytes on the way to each client, as lengths and bodies
    garbled,    \* clients that have read a length and a body that do not belong together
    log,        \* LogChan
    listener,   \* what ListenForDaemonLogs waits for
    bar,        \* what the goroutine of the progress bar waits for
    seen        \* the file whose "done" ended a client

daemonVars == <<accepted, pending, quiet, cliRouter, job, active, finishing>>
peerVars == <<due, have, callback, intros>>
clientVars == <<want, cli, garbled, log, listener, bar, seen>>
vars == <<daemonVars, peerVars, pen, pipe, clientVars>>

Chunks == 1..NChunks
Writers == Clis \cup Files \cup Peers
Message(kind, f) == [kind |-> kind, file |-> f]
Text == Message("text", NoFile)
Messages == [kind : {"total", "progress", "done"}, file : Files] \cup {Text}

Piece(w, part, m) == [by |-> w, part |-> part, msg |-> m]
Writing(part, k, m) == [part |-> part, to |-> k, msg |-> m]
Resting == Writing("none", NoCli, Text)
Rests(w) == pen[w] = Resting

At(st, f, c) == [st |-> st, file |-> f, chunk |-> c]
NoCall == At("idle", NoFile, 0)

Complete(f) == have[f] = Chunks
Alive(k) == cli[k] = "waiting"

Init ==
    /\ want \in Wants
    /\ cli = [k \in Clis |-> "new"]
    /\ accepted = {}
    /\ pending = {}
    /\ quiet = {}
    /\ cliRouter = NoCli
    /\ job = [k \in Clis |-> NoFile]
    /\ active = {}
    /\ finishing = {}
    /\ due = [f \in Files |-> [c \in Chunks |-> 0]]
    /\ have = [f \in Files |-> {}]
    /\ callback = [p \in Peers |-> NoCall]
    /\ intros = 0
    /\ pen = [w \in Writers |-> Resting]
    /\ pipe = [k \in Clis |-> <<>>]
    /\ garbled = {}
    /\ log = [k \in Clis |-> <<>>]
    /\ listener = [k \in Clis |-> "range"]
    /\ bar = [k \in Clis |-> "total"]
    /\ seen = [k \in Clis |-> NoFile]

-----------------------------------------------------------------------------
(***************************************************************************)
(* WriteMessage                                                            *)
(***************************************************************************)

\* messageCLI reads n.cliRouter once and begins to write.  Without a client,
\* or when the latest one is gone, the first write fails and nothing is sent.
MessageCLI(w, m) ==
    /\ Rests(w)
    /\ pen' = IF cliRouter # NoCli /\ Alive(cliRouter)
              THEN [pen EXCEPT ![w] = Writing("len", cliRouter, m)] ELSE pen

\* Mutant: a write to a client that is gone is not given up.
WriteMessageWaits(w) ==
    LET k == pen[w].to IN
    /\ ~Rests(w)
    /\ Alive(k)
    /\ Len(pipe[k]) < PipeCap
    /\ pipe' = [pipe EXCEPT ![k] = Append(@, Piece(w, pen[w].part, pen[w].msg))]
    /\ pen' = [pen EXCEPT ![w] = IF @.part = "len" THEN Writing("body", k, @.msg) ELSE Resting]
    /\ UNCHANGED <<daemonVars, peerVars, clientVars>>

\* The length, then the body.  A write waits while the connection is full and
\* fails once the client is gone; a client that waits for the rest of a body
\* of arbitrary length takes everything.
WriteMessage(w) ==
    LET k == pen[w].to IN
    /\ ~Rests(w)
    /\ \/ /\ ~Alive(k)
          /\ pen' = [pen EXCEPT ![w] = Resting]
          /\ UNCHANGED pipe
       \/ /\ Alive(k)
          /\ k \in garbled \/ Len(pipe[k]) < PipeCap
          /\ pipe' = IF k \in garbled THEN pipe
                     ELSE [pipe EXCEPT ![k] = Append(@, Piece(w, pen[w].part, pen[w].msg))]
          /\ pen' = [pen EXCEPT ![w] = IF @.part = "len" THEN Writing("body", k, @.msg)
                                       ELSE Resting]
    /\ UNCHANGED <<daemonVars, peerVars, clientVars>>

-----------------------------------------------------------------------------
(***************************************************************************)
(* The daemon: connections and signals                                     *)
(***************************************************************************)

\* No download is under way, being reported or asked for, and no response is
\* expected.
Calm ==
    /\ active = {} /\ finishing = {}
    /\ \A k \in Clis : job[k] = NoFile
    /\ \A k \in pending : want[k] = NoFile
    /\ \A f \in Files, c \in Chunks : due[f][c] = 0
    /\ \A p \in Peers : callback[p] = NoCall

\* startIPCServer: the new connection is the one that gets all messages.
Accept(k) ==
    /\ accepted = 1..(k - 1) /\ cli[k] # "new"
    /\ accepted' = accepted \cup {k}
    /\ pending' = pending \cup {k}
    /\ quiet' = IF Calm THEN quiet \cup {k} ELSE quiet
    /\ cliRouter' = k
    /\ UNCHANGED <<job, active, finishing, peerVars, pen, pipe, clientVars>>

\* Mutant: the download is started before the total is sent.
TakeDownloadStarts(j, k) ==
    /\ j \in accepted /\ job[j] = NoFile
    /\ k \in pending /\ want[k] \in Files
    /\ pending' = pending \ {k}
    /\ job' = [job EXCEPT ![j] = want[k]]
    /\ active' = active \cup {want[k]}
    /\ MessageCLI(j, Message("total", want[k]))
    /\ UNCHANGED <<accepted, quiet, cliRouter, finishing, peerVars, pipe, clientVars>>

\* Mutant: the goroutine remembers the client for the file.
TakeDownloadClient(j, k) ==
    /\ j \in accepted /\ job[j] = NoFile
    /\ k \in pending /\ want[k] \in Files
    /\ pending' = pending \ {k}
    /\ job' = [job EXCEPT ![j] = k]
    /\ MessageCLI(j, Message("total", want[k]))
    /\ UNCHANGED <<accepted, quiet, cliRouter, active, finishing, peerVars, pipe, clientVars>>

\* handleCLIMsgs of connection j takes a download signal, its own or another
\* client's, and sends the total.
TakeDownload(j, k) ==
    /\ j \in accepted /\ job[j] = NoFile
    /\ k \in pending /\ want[k] \in Files
    /\ pending' = pending \ {k}
    /\ job' = [job EXCEPT ![j] = want[k]]
    /\ MessageCLI(j, Message("total", want[k]))
    /\ UNCHANGED <<accepted, quiet, cliRouter, active, finishing, peerVars, pipe, clientVars>>

\* A register signal sends nothing to a client.
TakeRegister(j, k) ==
    /\ j \in accepted /\ job[j] = NoFile
    /\ k \in pending /\ want[k] = NoFile
    /\ pending' = pending \ {k}
    /\ UNCHANGED <<accepted, quiet, cliRouter, job, active, finishing, peerVars, pen, pipe, clientVars>>

\* handleDownloadSignal ends: with a download, or after an error or timeout.
StartFileDownload(j) ==
    /\ job[j] # NoFile /\ Rests(j)
    /\ \/ active' = active \cup {job[j]}
       \/ UNCHANGED active
    /\ job' = [job EXCEPT ![j] = NoFile]
    /\ UNCHANGED <<accepted, pending, quiet, cliRouter, finishing, peerVars, pen, pipe, clientVars>>

-----------------------------------------------------------------------------
(***************************************************************************)
(* The daemon: managers and callbacks                                      *)
(***************************************************************************)

\* A tick asks for the first missing chunk, possibly again.
RequestOneMissingChunk(f) ==
    /\ f \in active /\ Rests(f)
    /\ \E c \in Chunks \ have[f] :
          /\ 1..(c - 1) \subseteq have[f]
          /\ due[f][c] < MaxDue
          /\ due' = [due EXCEPT ![f][c] = @ + 1]
    /\ UNCHANGED <<daemonVars, have, callback, intros, pen, pipe, clientVars>>

\* Mutant: one chunk less will do.
FinishDownloadEarly(f) ==
    /\ f \in active \ finishing
    /\ Chunks \ have[f] \subseteq {NChunks}
    /\ active' = active \ {f}
    /\ finishing' = finishing \cup {f}
    /\ UNCHANGED <<accepted, pending, quiet, cliRouter, job, peerVars, pen, pipe, clientVars>>

\* A tick finds every chunk available: the manager gives its entry up ...
FinishDownload(f) ==
    /\ f \in active \ finishing
    /\ Complete(f)
    /\ active' = active \ {f}
    /\ finishing' = finishing \cup {f}
    /\ UNCHANGED <<accepted, pending, quiet, cliRouter, job, peerVars, pen, pipe, clientVars>>

\* ... and then, without the lock, sends "done".
ManagerDone(f) ==
    /\ f \in finishing
    /\ finishing' = finishing \ {f}
    /\ MessageCLI(f, Message("done", f))
    /\ UNCHANGED <<accepted, pending, quiet, cliRouter, job, active, peerVars, pipe, clientVars>>

\* A remote peer introduces itself, at any time.
HandleIntroduction(p) ==
    /\ callback[p] = NoCall
    /\ intros < MaxIntros[want]
    /\ intros' = intros + 1
    /\ MessageCLI(p, Text)
    /\ UNCHANGED <<daemonVars, due, have, callback, pipe, clientVars>>

\* handleChunkResponse: "Got chunk", "progress", then the chunk is stored.
HandleChunkResponse(p) ==
    /\ callback[p] = NoCall
    /\ \E f \in Files, c \in Chunks :
          /\ due[f][c] > 0
          /\ due' = [due EXCEPT ![f][c] = @ - 1]
          /\ callback' = [callback EXCEPT ![p] = At("got", f, c)]
    /\ MessageCLI(p, Text)
    /\ UNCHANGED <<daemonVars, have, intros, pipe, clientVars>>

SendProgress(p) ==
    /\ callback[p].st = "got"
    /\ callback' = [callback EXCEPT ![p].st = "progress"]
    /\ MessageCLI(p, Message("progress", callback[p].file))
    /\ UNCHANGED <<daemonVars, due, have, intros, pipe, clientVars>>

StoreChunk(p) ==
    /\ callback[p].st = "progress" /\ Rests(p)
    /\ have' = [have EXCEPT ![callback[p].file] = @ \cup {callback[p].chunk}]
    /\ callback' = [callback EXCEPT ![p] = NoCall]
    /\ UNCHANGED <<daemonVars, due, intros, pen, pipe, clientVars>>

-----------------------------------------------------------------------------
(***************************************************************************)
(* The client                                                              *)
(***************************************************************************)

\* The command connects and sends its signal.  register does not wait for
\* anything.
Start(k) ==
    /\ cli[k] = "new" /\ \A i \in 1..(k - 1) : cli[i] # "new"
    /\ cli' = [cli EXCEPT ![k] = IF want[k] = NoFile THEN "exited" ELSE "waiting"]
    /\ UNCHANGED <<daemonVars, peerVars, pen, pipe, want, garbled, log, listener, bar, seen>>

\* The process ends and its connection with it.
Ends(k, st) ==
    /\ cli' = [cli EXCEPT ![k] = st]
    /\ pipe' = [pipe EXCEPT ![k] = <<>>]
    /\ log' = [log EXCEPT ![k] = <<>>]
    /\ listener' = [listener EXCEPT ![k] = "range"]
    /\ bar' = [bar EXCEPT ![k] = "total"]
    /\ garbled' = garbled \ {k}

\* The user stops a client that waits.
Kill(k) ==
    /\ k \in Killable /\ Alive(k)
    /\ Ends(k, "exited")
    /\ UNCHANGED <<daemonVars, peerVars, pen, want, seen>>

\* listen and routeMessage: a length and a body; a body of another writer, or
\* another length, takes the stream out of step for good.
Listen(k) ==
    /\ Alive(k) /\ k \notin garbled
    /\ Len(pipe[k]) >= 2
    /\ LET len == pipe[k][1]
           body == pipe[k][2]
       IN \/ /\ body.part = "body" /\ body.by = len.by
             /\ Len(log[k]) < LogCap
             /\ log' = [log EXCEPT ![k] = Append(@, body.msg)]
             /\ pipe' = [pipe EXCEPT ![k] = SubSeq(@, 3, Len(@))]
             /\ UNCHANGED garbled
          \/ /\ body.part = "len" \/ body.by # len.by
             /\ garbled' = garbled \cup {k}
             /\ pipe' = [pipe EXCEPT ![k] = <<>>]
             /\ UNCHANGED log
    /\ UNCHANGED <<daemonVars, peerVars, pen, want, cli, listener, bar, seen>>

\* Mutant: "done" is passed over once the bar is drawn.
TakeDoneLate(k) ==
    /\ Alive(k) /\ listener[k] = "range"
    /\ log[k] # <<>> /\ Head(log[k]).kind = "done"
    /\ IF bar[k] = "total" THEN Ends(k, "success")
       ELSE log' = [log EXCEPT ![k] = Tail(@)] /\ UNCHANGED <<cli, pipe, listener, bar, garbled>>
    /\ seen' = [seen EXCEPT ![k] = Head(log[k]).file]
    /\ UNCHANGED <<daemonVars, peerVars, pen, want>>

\* ListenForDaemonLogs takes "done": the command prints its success.
TakeDone(k) ==
    /\ Alive(k) /\ listener[k] = "range"
    /\ log[k] # <<>> /\ Head(log[k]).kind = "done"
    /\ Ends(k, "success")
    /\ seen' = [seen EXCEPT ![k] = Head(log[k]).file]
    /\ UNCHANGED <<daemonVars, peerVars, pen, want>>

\* It takes another message; totals and progress go to the bar's goroutine.
TakeLog(k) ==
    /\ Alive(k) /\ listener[k] = "range"
    /\ log[k] # <<>> /\ Head(log[k]).kind # "done"
    /\ listener' = [listener EXCEPT ![k] = IF Head(log[k]) = Text THEN "range" ELSE Head(log[k]).kind]
    /\ log' = [log EXCEPT ![k] = Tail(@)]
    /\ UNCHANGED <<daemonVars, peerVars, pen, pipe, want, cli, garbled, bar, seen>>

\* The goroutine of the bar receives the total once, then progress for ever.
DrawBar(k) ==
    /\ Alive(k)
    /\ listener[k] = bar[k]
    /\ listener' = [listener EXCEPT ![k] = "range"]
    /\ bar' = [bar EXCEPT ![k] = "progress"]
    /\ UNCHANGED <<daemonVars, peerVars, pen, pipe, want, cli, garbled, log, seen>>

-----------------------------------------------------------------------------
JobStep(j) ==
    \/ \E k \in Clis : TakeDownload(j, k) \/ TakeRegister(j, k)
    \/ StartFileDownload(j)

ManagerStep(f) == RequestOneMissingChunk(f) \/ FinishDownload(f) \/ ManagerDone(f)

CallbackStep(p) == HandleChunkResponse(p) \/ SendProgress(p) \/ StoreChunk(p)

ClientStep(k) == Listen(k) \/ TakeDone(k) \/ TakeLog(k) \/ DrawBar(k)

\* What goes on by itself, once clients have been started.
SystemStep ==
    \/ \E k \in Clis : Accept(k) \/ JobStep(k) \/ ClientStep(k)
    \/ \E f \in Files : ManagerStep(f)
    \/ \E p \in Peers : CallbackStep(p)
    \/ \E w \in Writers : WriteMessage(w)

Next ==
    \/ SystemStep
    \/ \E k \in Clis : Start(k) \/ Kill(k)
    \/ \E p \in Peers : HandleIntroduction(p)

Spec == Init /\ [][Next]_vars

\* Some goroutine, callback or client runs while one of them can; peers answer.
FairSpec == Spec /\ WF_vars(SystemStep)

-----------------------------------------------------------------------------
(***************************************************************************)
(* Properties                                                              *)
(***************************************************************************)

\* Every variable has its type.
TypeOK ==
    /\ want \in Wants
    /\ cli \in [Clis -> {"new", "waiting", "success", "exited"}]
    /\ accepted \subseteq Clis
    /\ pending \subseteq accepted
    /\ quiet \subseteq accepted
    /\ cliRouter \in Clis \cup {NoCli}
    /\ job \in [Clis -> Files \cup {NoFile}]
    /\ active \subseteq Files
    /\ finishing \subseteq Files
    /\ due \in [Files -> [Chunks -> 0..MaxDue]]
    /\ have \in [Files -> SUBSET Chunks]
    /\ callback \in [Peers -> [st : {"idle", "got", "progress"}, file : Files \cup {NoFile},
                               chunk : Chunks \cup {0}]]
    /\ intros \in 0..MaxIntros[want]
    /\ pen \in [Writers -> [part : {"none", "len", "body"}, to : Clis \cup {NoCli}, msg : Messages]]
    /\ pipe \in [Clis -> Seq([by : Writers, part : {"len", "body"}, msg : Messages])]
    /\ garbled \subseteq Clis
    /\ log \in [Clis -> Seq(Messages)]
    /\ listener \in [Clis -> {"range", "total", "progress"}]
    /\ bar \in [Clis -> {"total", "progress"}]
    /\ seen \in [Clis -> Files \cup {NoFile}]

(***************************************************************************)
(* A client that was accepted while no download was under way prints its   *)
(* success only for the file it asked for and only when every chunk of it  *)
(* is stored, whatever clients come after it and are given its signals or  *)
(* its messages.                                                           *)
(***************************************************************************)
SuccessTrue ==
    \A k \in quiet : cli[k] = "success" => seen[k] = want[k] /\ Complete(want[k])

\* The listener of a client hands over what the bar's goroutine never takes.
Stuck(k) == k # NoCli /\ Alive(k) /\ listener[k] \notin {"range", bar[k]}

(***************************************************************************)
(* Such a client never hangs on its unbuffered channels: the total comes   *)
(* before all progress and comes once.                                     *)
(***************************************************************************)
StuckNeedsOverlap == \A k \in quiet : ~Stuck(k)

(***************************************************************************)
(* Once the download of such a client is running it reports success, or    *)
(* the user stops it, a later client takes the messages, or two writers    *)
(* garble the connection.                                                  *)
(***************************************************************************)
DoneSeen ==
    \A k \in Clis :
       (Alive(k) /\ k \in quiet /\ want[k] \in active) ~>
          (~Alive(k) \/ cliRouter # k \/ k \in garbled)

(***************************************************************************)
(* Every goroutine and callback of the daemon that writes to a client gets *)
(* its message written or fails, unless that client hangs: the buffers on  *)
(* the way to a client do not stop the daemon by themselves.               *)
(***************************************************************************)
WritesEnd == []<>(\A w \in Writers : Rests(w) \/ Stuck(pen[w].to))
=============================================================================
