------------------------------ MODULE CliProofs ------------------------------
(***************************************************************************)
(* Proofs about Cli for any clients, files, peers and chunks, whatever the *)
(* clients ask for, and any capacity of a connection and of LogChan.       *)
(***************************************************************************)
EXTENDS Cli, TLAPS

Pens == [part : {"none", "len", "body"}, to : Clis \cup {NoCli}, msg : Messages]
Pieces == [by : Writers, part : {"len", "body"}, msg : Messages]
Calls == [st : {"idle", "got", "progress"}, file : Files \cup {NoFile}, chunk : Chunks \cup {0}]

\* The daemon's connections, and the goroutines that serve them.
Daemon ==
    /\ want \in Wants
    /\ cliRouter \in Clis \cup {NoCli}
    /\ accepted = 1..cliRouter
    /\ pending \subseteq accepted
    /\ quiet \subseteq accepted
    /\ job \in [Clis -> Files \cup {NoFile}]
    /\ active \subseteq Files /\ finishing \subseteq Files

Remote ==
    /\ due \in [Files -> [Chunks -> 0..MaxDue]]
    /\ have \in [Files -> SUBSET Chunks]
    /\ callback \in [Peers -> Calls]
    /\ \A p \in Peers : callback[p] # NoCall => callback[p].file \in Files /\ callback[p].chunk \in Chunks
    /\ intros \in 0..MaxIntros[want]

Clients ==
    /\ cli \in [Clis -> {"new", "waiting", "success", "exited"}]
    /\ garbled \subseteq Clis
    /\ log \in [Clis -> Seq(Messages)]
    /\ listener \in [Clis -> {"range", "total", "progress"}]
    /\ bar \in [Clis -> {"total", "progress"}]
    /\ seen \in [Clis -> Files \cup {NoFile}]

\* A writer that is in WriteMessage writes to a connection that was accepted.
Targets(r) == r # Resting => r.part \in {"len", "body"} /\ r.to \in accepted

Wires ==
    /\ pen \in [Writers -> Pens]
    /\ \A w \in Writers : Targets(pen[w])
    /\ pipe \in [Clis -> Seq(Pieces)]

TypeInv == Daemon /\ Remote /\ Clients /\ Wires

\* Nothing was sent to a client that the daemon is still to accept.
Untouched(k) ==
    /\ pipe[k] = <<>> /\ log[k] = <<>> /\ k \notin garbled
    /\ listener[k] = "range" /\ bar[k] = "total" /\ cli[k] # "success"

NothingYet == /\ \A k \in Clis \ accepted : Untouched(k)
              /\ \A k \in accepted : cli[k] # "new"

\* What a client that was accepted in a calm moment is told is of its file, and true.
About(m, k) == m.kind # "text" => m.file = want[k] /\ (m.kind = "done" => Complete(m.file))

Honest ==
    \A k \in quiet :
        /\ \A w \in Writers : pen[w].to = k => About(pen[w].msg, k)
        /\ \A i \in 1..Len(pipe[k]) : About(pipe[k][i].msg, k)
        /\ \A i \in 1..Len(log[k]) : About(log[k][i], k)
        /\ cli[k] = "success" => seen[k] = want[k] /\ Complete(want[k])

\* While it is the latest client, only its download is served.
Served(k) ==
    /\ \A i \in pending : i # k => want[i] = NoFile
    /\ \A j \in Clis : job[j] \in {NoFile, want[k]}
    /\ active \subseteq {want[k]}
    /\ finishing \subseteq {want[k]} /\ \A f \in finishing : Complete(f)
    /\ \A f \in Files, c \in Chunks : due[f][c] # 0 => f = want[k]
    /\ \A p \in Peers : callback[p] = NoCall \/ callback[p].file = want[k]

Alone == cliRouter \in quiet => Served(cliRouter)

-----------------------------------------------------------------------------
\* Lengths and bodies on a connection that is in step: a body has its length
\* before it, and nothing of its writer between the two.
Follows(k, w, i) ==
    \E j \in 1..(i - 1) :
        /\ pipe[k][j].by = w /\ pipe[k][j].part = "len"
        /\ \A m \in (j + 1)..(i - 1) : pipe[k][m].by # w

InStep ==
    \A k \in Clis :
        /\ k \in garbled => pipe[k] = <<>>
        /\ \A i \in 1..Len(pipe[k]) : pipe[k][i].part = "body" => Follows(k, pipe[k][i].by, i)
        /\ Alive(k) /\ k \notin garbled =>
             \A w \in Writers : pen[w].to = k /\ pen[w].part = "body" => Follows(k, w, Len(pipe[k]) + 1)

\* Where the total of a client is, and progress.
Writes(k, kind) == {w \in Writers : pen[w].to = k /\ pen[w].msg.kind = kind}
Bodies(k, kind) == {i \in 1..Len(pipe[k]) : pipe[k][i].part = "body" /\ pipe[k][i].msg.kind = kind}
Logs(k, kind) == {i \in 1..Len(log[k]) : log[k][i].kind = kind}

\* The total has left the log, the connection, the writer.
Taken(k) == bar[k] = "progress" \/ listener[k] = "total"
Logged(k) == Taken(k) \/ Logs(k, "total") # {}
Sent(k) == Logged(k) \/ Bodies(k, "total") # {}

\* Once only.
Once(k) ==
    /\ bar[k] = "progress" => listener[k] # "total"
    /\ listener[k] = "progress" => bar[k] = "progress"
    /\ Taken(k) => Logs(k, "total") = {}
    /\ Logged(k) => Bodies(k, "total") = {}
    /\ Sent(k) => Writes(k, "total") = {}
    /\ \A i, j \in Logs(k, "total") : i = j
    /\ \A i, j \in Bodies(k, "total") : i = j
    /\ \A v, w \in Writes(k, "total") : v = w

\* And before all progress.
Before(k) ==
    /\ \A i \in Logs(k, "progress") : Taken(k) \/ \E j \in Logs(k, "total") : j < i
    /\ \A i \in Bodies(k, "progress") : Logged(k) \/ \E j \in Bodies(k, "total") : j < i
    /\ Writes(k, "progress") # {} => Sent(k) \/ k \in garbled

InOrder == \A k \in quiet : Alive(k) => Once(k) /\ Before(k)

\* The download runs once the total is written.
Idle == /\ active = {} /\ \A p \in Peers : callback[p] = NoCall
        /\ \A f \in Files, c \in Chunks : due[f][c] = 0
NoJob == \A j \in Clis : job[j] = NoFile

Waits(k) ==
    /\ k \in pending /\ want[k] \in Files => Idle /\ NoJob /\ ~Sent(k) /\ Writes(k, "total") = {}
    /\ ~NoJob => Idle
    /\ \A i, j \in Clis : job[i] # NoFile /\ job[j] # NoFile => i = j
    /\ \A j \in Clis : job[j] # NoFile => Sent(k) \/ k \in garbled \/ Writes(k, "total") = {j}
    /\ ~Idle => Sent(k) \/ k \in garbled

Staged == cliRouter \in quiet /\ Alive(cliRouter) => Waits(cliRouter)

-----------------------------------------------------------------------------
(***************************************************************************)
(* Types, by groups of variables                                           *)
(***************************************************************************)

LEMMA NoFileApart == NoFile \notin Files
  BY CliAssumption

LEMMA DaemonStays ==
  ASSUME Daemon, UNCHANGED <<daemonVars, want>>
  PROVE  Daemon'
  BY DEF Daemon, daemonVars

LEMMA RemoteStays ==
  ASSUME Remote, UNCHANGED <<peerVars, want>>
  PROVE  Remote'
  BY DEF Remote, peerVars

LEMMA ClientsStay ==
  ASSUME Clients, UNCHANGED clientVars
  PROVE  Clients'
  BY DEF Clients, clientVars

LEMMA WiresStay ==
  ASSUME Wires, UNCHANGED <<pen, pipe, accepted>>
  PROVE  Wires'
  BY DEF Wires, Targets

LEMMA NothingStays ==
  ASSUME NothingYet, UNCHANGED <<accepted, pipe, cli, log, listener, bar, garbled>>
  PROVE  NothingYet'
  BY DEF NothingYet, Untouched

LEMMA MessagesAre ==
  /\ Text \in Messages /\ Text.kind = "text"
  /\ \A kind \in {"total", "progress", "done"}, f \in Files :
        Message(kind, f) \in Messages /\ Message(kind, f).kind = kind /\ Message(kind, f).file = f
  BY DEF Text, Message, Messages

LEMMA WritingIs ==
  ASSUME NEW part, NEW k, NEW m
  PROVE  Writing(part, k, m).part = part /\ Writing(part, k, m).to = k /\ Writing(part, k, m).msg = m
  BY DEF Writing

LEMMA RestingIs == Resting.part = "none" /\ Resting.to = NoCli /\ Resting.msg = Text /\ Resting \in Pens
  BY MessagesAre DEF Resting, Writing, Pens, NoCli

LEMMA PensAre ==
  ASSUME NEW part \in {"len", "body"}, NEW k \in Clis, NEW m \in Messages
  PROVE  Writing(part, k, m) \in Pens
  BY DEF Writing, Pens

\* What messageCLI does: nothing, or it begins to write to the latest client.
LEMMA Says ==
  ASSUME TypeInv, NEW w \in Writers, NEW m \in Messages, MessageCLI(w, m)
  PROVE  \/ pen' = pen
         \/ /\ cliRouter \in Clis /\ cliRouter \in accepted /\ Alive(cliRouter) /\ Rests(w)
            /\ pen' = [pen EXCEPT ![w] = Writing("len", cliRouter, m)]
            /\ Writing("len", cliRouter, m) \in Pens
<1>1. CASE cliRouter # NoCli /\ Alive(cliRouter)
  <2>1. cliRouter \in Clis /\ cliRouter \in accepted
    BY <1>1 DEF TypeInv, Daemon, Clis, NoCli
  <2> QED BY <1>1, <2>1, PensAre DEF MessageCLI
<1>2. CASE ~(cliRouter # NoCli /\ Alive(cliRouter))
  BY <1>2 DEF MessageCLI
<1> QED BY <1>1, <1>2

LEMMA SaysTyped ==
  ASSUME TypeInv, NEW w \in Writers, NEW m \in Messages, MessageCLI(w, m), UNCHANGED <<pipe, accepted>>
  PROVE  Wires'
<1>1. CASE pen' = pen
  BY <1>1, WiresStay DEF TypeInv
<1>2. CASE /\ cliRouter \in accepted
           /\ pen' = [pen EXCEPT ![w] = Writing("len", cliRouter, m)]
           /\ Writing("len", cliRouter, m) \in Pens
  <2>1. PICK r \in Pens : /\ r.part = "len" /\ r.to = cliRouter
                          /\ pen' = [pen EXCEPT ![w] = r]
    <3>1. Writing("len", cliRouter, m).part = "len" /\ Writing("len", cliRouter, m).to = cliRouter
      BY WritingIs
    <3> QED BY <1>2, <3>1
  <2>2. pen' \in [Writers -> Pens]
    BY <2>1 DEF TypeInv, Wires
  <2>3. \A v \in Writers : pen'[v] # Resting => pen'[v].part \in {"len", "body"} /\ pen'[v].to \in accepted
    BY <1>2, <2>1 DEF TypeInv, Wires, Targets
  <2> QED BY <2>2, <2>3 DEF TypeInv, Wires, Targets
<1> QED BY <1>1, <1>2, Says

\* WriteMessage gives up, or puts a length or a body on the connection.
LEMMA Puts ==
  ASSUME TypeInv, NEW w \in Writers, WriteMessage(w)
  PROVE  \E k \in accepted :
            /\ k \in Clis /\ pen[w].to = k /\ pen[w] \in Pens /\ pen[w].part \in {"len", "body"}
            /\ \/ /\ ~Alive(k)
                  /\ pen' = [pen EXCEPT ![w] = Resting]
                  /\ UNCHANGED pipe
               \/ /\ Alive(k)
                  /\ pipe' = IF k \in garbled THEN pipe
                             ELSE [pipe EXCEPT ![k] = Append(@, Piece(w, pen[w].part, pen[w].msg))]
                  /\ Piece(w, pen[w].part, pen[w].msg) \in Pieces
                  /\ pen' = [pen EXCEPT ![w] = IF pen[w].part = "len" THEN Writing("body", k, pen[w].msg)
                                               ELSE Resting]
<1>1. /\ pen[w] \in Pens /\ pen[w].part \in {"len", "body"} /\ pen[w].to \in accepted
      /\ pen \in [Writers -> Pens]
  BY DEF TypeInv, Wires, Targets, WriteMessage, Rests
<1>2. accepted \subseteq Clis
  BY CliAssumption DEF TypeInv, Daemon, Clis, NoCli
<1>3. Piece(w, pen[w].part, pen[w].msg) \in Pieces
  BY <1>1 DEF Piece, Pieces, Pens
<1> QED BY <1>1, <1>2, <1>3 DEF WriteMessage

LEMMA WriteMessageTyped ==
  ASSUME TypeInv, NothingYet, NEW w \in Writers, WriteMessage(w)
  PROVE  TypeInv' /\ NothingYet'
<1>1. PICK k \in accepted :
            /\ k \in Clis /\ pen[w].to = k /\ pen[w] \in Pens /\ pen[w].part \in {"len", "body"}
            /\ \/ /\ ~Alive(k)
                  /\ pen' = [pen EXCEPT ![w] = Resting]
                  /\ UNCHANGED pipe
               \/ /\ Alive(k)
                  /\ pipe' = IF k \in garbled THEN pipe
                             ELSE [pipe EXCEPT ![k] = Append(@, Piece(w, pen[w].part, pen[w].msg))]
                  /\ Piece(w, pen[w].part, pen[w].msg) \in Pieces
                  /\ pen' = [pen EXCEPT ![w] = IF pen[w].part = "len" THEN Writing("body", k, pen[w].msg)
                                               ELSE Resting]
  BY Puts
<1>2. UNCHANGED <<daemonVars, peerVars, clientVars>>
  BY DEF WriteMessage
<1>3. UNCHANGED <<accepted, want, cli, log, listener, bar, garbled>>
  BY <1>2 DEF daemonVars, clientVars
<1>4. PICK r \in Pens : (r # Resting => r.part = "body" /\ r.to = k) /\ pen' = [pen EXCEPT ![w] = r]
  <2>1. Writing("body", k, pen[w].msg) \in Pens
    BY <1>1, PensAre DEF Pens
  <2>2. Writing("body", k, pen[w].msg).part = "body" /\ Writing("body", k, pen[w].msg).to = k
    BY WritingIs
  <2>3. CASE pen' = [pen EXCEPT ![w] = Resting]
    BY <2>3, RestingIs
  <2>4. CASE pen' = [pen EXCEPT ![w] = Writing("body", k, pen[w].msg)]
    BY <2>1, <2>2, <2>4
  <2> QED BY <1>1, <2>3, <2>4
<1>5. /\ pen' \in [Writers -> Pens]
      /\ \A v \in Writers : pen'[v] # Resting => pen'[v].part \in {"len", "body"} /\ pen'[v].to \in accepted
  BY <1>1, <1>4 DEF TypeInv, Wires, Targets
<1>6. pipe' \in [Clis -> Seq(Pieces)] /\ \A i \in Clis : i # k => pipe'[i] = pipe[i]
  <2>1. CASE UNCHANGED pipe
    BY <2>1 DEF TypeInv, Wires
  <2>2. CASE /\ pipe' = [pipe EXCEPT ![k] = Append(@, Piece(w, pen[w].part, pen[w].msg))]
             /\ Piece(w, pen[w].part, pen[w].msg) \in Pieces
    <3>1. pipe[k] \in Seq(Pieces)
      BY <1>1 DEF TypeInv, Wires
    <3>2. Append(pipe[k], Piece(w, pen[w].part, pen[w].msg)) \in Seq(Pieces)
      BY <2>2, <3>1
    <3> QED BY <2>2, <3>2 DEF TypeInv, Wires
  <2> QED BY <1>1, <2>1, <2>2
<1>7. Wires'
  BY <1>3, <1>5, <1>6 DEF Wires, Targets
<1>8. NothingYet'
  BY <1>1, <1>3, <1>6 DEF NothingYet, Untouched
<1> QED BY <1>2, <1>3, <1>7, <1>8, DaemonStays, RemoteStays, ClientsStay DEF TypeInv

-----------------------------------------------------------------------------
(***************************************************************************)
(* Types: the daemon                                                       *)
(***************************************************************************)

LEMMA AcceptTyped ==
  ASSUME TypeInv, NothingYet, NEW k \in Clis, Accept(k)
  PROVE  TypeInv' /\ NothingYet'
<1>1. /\ k \in Nat /\ k # 0 /\ NClis \in Nat /\ cliRouter \in Nat
      /\ accepted = 1..(k - 1) /\ accepted' = accepted \cup {k} /\ cliRouter' = k
      /\ cli[k] # "new"
  BY CliAssumption DEF Accept, Clis, TypeInv, Daemon, NoCli
<1>2. accepted' = 1..k /\ accepted \subseteq accepted'
  BY <1>1
<1>3. UNCHANGED <<job, active, finishing, peerVars, pen, pipe, clientVars>>
  BY DEF Accept
<1>4. UNCHANGED <<want, cli, log, listener, bar, garbled>>
  BY <1>3 DEF clientVars
<1>5. pending' \subseteq accepted' /\ quiet' \subseteq accepted'
  BY <1>1, <1>2 DEF Accept, TypeInv, Daemon
<1>6. Daemon'
  BY <1>1, <1>2, <1>3, <1>4, <1>5 DEF Daemon, TypeInv
<1>7. Wires'
  BY <1>2, <1>3 DEF TypeInv, Wires, Targets
<1>8. NothingYet'
  BY <1>1, <1>2, <1>3, <1>4 DEF NothingYet, Untouched
<1> QED BY <1>3, <1>4, <1>6, <1>7, <1>8, RemoteStays, ClientsStay DEF TypeInv

LEMMA TakeDownloadTyped ==
  ASSUME TypeInv, NothingYet, NEW j \in Clis, NEW k \in Clis, TakeDownload(j, k)
  PROVE  TypeInv' /\ NothingYet'
<1>1. want[k] \in Files /\ j \in Writers
  BY DEF TakeDownload, Writers
<1>2. UNCHANGED <<accepted, quiet, cliRouter, active, finishing, peerVars, pipe, clientVars>>
  BY DEF TakeDownload
<1>3. UNCHANGED <<want, cli, log, listener, bar, garbled>>
  BY <1>2 DEF clientVars
<1>4. Message("total", want[k]) \in Messages
  BY <1>1, MessagesAre
<1>5. Wires'
  BY <1>1, <1>2, <1>4, SaysTyped DEF TakeDownload
<1>6. Daemon'
  BY <1>1, <1>2, <1>3 DEF TypeInv, Daemon, TakeDownload
<1>7. NothingYet'
  BY <1>2, <1>3, NothingStays
<1> QED BY <1>2, <1>3, <1>5, <1>6, <1>7, RemoteStays, ClientsStay DEF TypeInv

LEMMA TakeRegisterTyped ==
  ASSUME TypeInv, NothingYet, NEW j \in Clis, NEW k \in Clis, TakeRegister(j, k)
  PROVE  TypeInv' /\ NothingYet'
<1>1. UNCHANGED <<accepted, quiet, cliRouter, job, active, finishing, peerVars, pen, pipe, clientVars>>
  BY DEF TakeRegister
<1>2. UNCHANGED <<want, cli, log, listener, bar, garbled>>
  BY <1>1 DEF clientVars
<1>3. Daemon'
  BY <1>1, <1>2 DEF TypeInv, Daemon, TakeRegister
<1> QED BY <1>1, <1>2, <1>3, NothingStays, RemoteStays, ClientsStay, WiresStay DEF TypeInv

LEMMA StartFileDownloadTyped ==
  ASSUME TypeInv, NothingYet, NEW j \in Clis, StartFileDownload(j)
  PROVE  TypeInv' /\ NothingYet'
<1>1. UNCHANGED <<accepted, pending, quiet, cliRouter, finishing, peerVars, pen, pipe, clientVars>>
  BY DEF StartFileDownload
<1>2. UNCHANGED <<want, cli, log, listener, bar, garbled>>
  BY <1>1 DEF clientVars
<1>3. job[j] \in Files
  BY DEF TypeInv, Daemon, StartFileDownload
<1>4. active' \subseteq Files /\ job' \in [Clis -> Files \cup {NoFile}]
  BY <1>3 DEF TypeInv, Daemon, StartFileDownload
<1>5. Daemon'
  BY <1>1, <1>2, <1>4 DEF TypeInv, Daemon
<1> QED BY <1>1, <1>2, <1>5, NothingStays, RemoteStays, ClientsStay, WiresStay DEF TypeInv

LEMMA RequestOneMissingChunkTyped ==
  ASSUME TypeInv, NothingYet, NEW f \in Files, RequestOneMissingChunk(f)
  PROVE  TypeInv' /\ NothingYet'
<1>1. UNCHANGED <<daemonVars, have, callback, intros, pen, pipe, clientVars>>
  BY DEF RequestOneMissingChunk
<1>2. UNCHANGED <<want, accepted, cli, log, listener, bar, garbled>>
  BY <1>1 DEF clientVars, daemonVars
<1>3. PICK c \in Chunks : due[f][c] < MaxDue /\ due' = [due EXCEPT ![f][c] = @ + 1]
  BY DEF RequestOneMissingChunk
<1>4. due[f] \in [Chunks -> 0..MaxDue] /\ due[f][c] + 1 \in 0..MaxDue
  BY <1>3, CliAssumption DEF TypeInv, Remote
<1>5. due' \in [Files -> [Chunks -> 0..MaxDue]]
  BY <1>3, <1>4 DEF TypeInv, Remote
<1>6. Remote'
  BY <1>1, <1>2, <1>5 DEF TypeInv, Remote
<1> QED BY <1>1, <1>2, <1>6, NothingStays, DaemonStays, ClientsStay, WiresStay DEF TypeInv

LEMMA FinishDownloadTyped ==
  ASSUME TypeInv, NothingYet, NEW f \in Files, FinishDownload(f)
  PROVE  TypeInv' /\ NothingYet'
<1>1. UNCHANGED <<accepted, pending, quiet, cliRouter, job, peerVars, pen, pipe, clientVars>>
  BY DEF FinishDownload
<1>2. UNCHANGED <<want, cli, log, listener, bar, garbled>>
  BY <1>1 DEF clientVars
<1>3. Daemon'
  BY <1>1, <1>2 DEF TypeInv, Daemon, FinishDownload
<1> QED BY <1>1, <1>2, <1>3, NothingStays, RemoteStays, ClientsStay, WiresStay DEF TypeInv

LEMMA ManagerDoneTyped ==
  ASSUME TypeInv, NothingYet, NEW f \in Files, ManagerDone(f)
  PROVE  TypeInv' /\ NothingYet'
<1>1. UNCHANGED <<accepted, pending, quiet, cliRouter, job, active, peerVars, pipe, clientVars>>
  BY DEF ManagerDone
<1>2. UNCHANGED <<want, cli, log, listener, bar, garbled>>
  BY <1>1 DEF clientVars
<1>3. Message("done", f) \in Messages /\ f \in Writers
  BY MessagesAre DEF Writers
<1>4. Wires'
  BY <1>1, <1>3, SaysTyped DEF ManagerDone
<1>5. Daemon'
  BY <1>1, <1>2 DEF TypeInv, Daemon, ManagerDone
<1> QED BY <1>1, <1>2, <1>4, <1>5, NothingStays, RemoteStays, ClientsStay DEF TypeInv

LEMMA HandleIntroductionTyped ==
  ASSUME TypeInv, NothingYet, NEW p \in Peers, HandleIntroduction(p)
  PROVE  TypeInv' /\ NothingYet'
<1>1. UNCHANGED <<daemonVars, due, have, callback, pipe, clientVars>>
  BY DEF HandleIntroduction
<1>2. UNCHANGED <<want, accepted, cli, log, listener, bar, garbled>>
  BY <1>1 DEF clientVars, daemonVars
<1>3. Text \in Messages /\ p \in Writers
  BY MessagesAre DEF Writers
<1>4. Wires'
  BY <1>1, <1>2, <1>3, SaysTyped DEF HandleIntroduction
<1>5. MaxIntros[want] \in Nat
  BY CliAssumption DEF TypeInv, Daemon
<1>6. intros' \in 0..MaxIntros[want]
  BY <1>5 DEF HandleIntroduction, TypeInv, Remote
<1>7. Remote'
  BY <1>1, <1>2, <1>6 DEF TypeInv, Remote
<1> QED BY <1>1, <1>2, <1>4, <1>7, NothingStays, DaemonStays, ClientsStay DEF TypeInv

LEMMA AtIs ==
  ASSUME NEW st \in {"idle", "got", "progress"}, NEW f \in Files, NEW c \in Chunks
  PROVE  At(st, f, c) \in Calls /\ At(st, f, c).file = f /\ At(st, f, c).chunk = c
  BY DEF At, Calls

LEMMA HandleChunkResponseTyped ==
  ASSUME TypeInv, NothingYet, NEW p \in Peers, HandleChunkResponse(p)
  PROVE  TypeInv' /\ NothingYet'
<1>1. UNCHANGED <<daemonVars, have, intros, pipe, clientVars>>
  BY DEF HandleChunkResponse
<1>2. UNCHANGED <<want, accepted, cli, log, listener, bar, garbled>>
  BY <1>1 DEF clientVars, daemonVars
<1>3. Text \in Messages /\ p \in Writers
  BY MessagesAre DEF Writers
<1>4. Wires'
  BY <1>1, <1>2, <1>3, SaysTyped DEF HandleChunkResponse
<1>5. PICK f \in Files, c \in Chunks :
         /\ due[f][c] > 0
         /\ due' = [due EXCEPT ![f][c] = @ - 1]
         /\ callback' = [callback EXCEPT ![p] = At("got", f, c)]
  BY DEF HandleChunkResponse
<1>6. due[f] \in [Chunks -> 0..MaxDue] /\ due[f][c] - 1 \in 0..MaxDue
  BY <1>5, CliAssumption DEF TypeInv, Remote
<1>7. due' \in [Files -> [Chunks -> 0..MaxDue]]
  BY <1>5, <1>6 DEF TypeInv, Remote
<1>8. PICK r \in Calls : r.file = f /\ r.chunk = c /\ callback' = [callback EXCEPT ![p] = r]
  <2>1. At("got", f, c) \in Calls /\ At("got", f, c).file = f /\ At("got", f, c).chunk = c
    BY AtIs
  <2> QED BY <1>5, <2>1
<1>9. /\ callback' \in [Peers -> Calls]
      /\ \A q \in Peers : callback'[q] # NoCall => callback'[q].file \in Files /\ callback'[q].chunk \in Chunks
  BY <1>8 DEF TypeInv, Remote
<1>10. Remote'
  BY <1>1, <1>2, <1>7, <1>9 DEF TypeInv, Remote
<1> QED BY <1>1, <1>2, <1>4, <1>10, NothingStays, DaemonStays, ClientsStay DEF TypeInv

LEMMA SendProgressTyped ==
  ASSUME TypeInv, NothingYet, NEW p \in Peers, SendProgress(p)
  PROVE  TypeInv' /\ NothingYet'
<1>1. UNCHANGED <<daemonVars, due, have, intros, pipe, clientVars>>
  BY DEF SendProgress
<1>2. UNCHANGED <<want, accepted, cli, log, listener, bar, garbled>>
  BY <1>1 DEF clientVars, daemonVars
<1>3. callback[p] \in Calls /\ callback[p].file \in Files /\ callback[p].chunk \in Chunks
  BY DEF SendProgress, TypeInv, Remote, NoCall, At
<1>4. Message("progress", callback[p].file) \in Messages /\ p \in Writers
  BY <1>3, MessagesAre DEF Writers
<1>5. Wires'
  BY <1>1, <1>2, <1>4, SaysTyped DEF SendProgress
<1>6. PICK r \in Calls : /\ r.file = callback[p].file /\ r.chunk = callback[p].chunk
                         /\ callback' = [callback EXCEPT ![p] = r]
  BY <1>3 DEF Calls, SendProgress
<1>7. /\ callback' \in [Peers -> Calls]
      /\ \A q \in Peers : callback'[q] # NoCall => callback'[q].file \in Files /\ callback'[q].chunk \in Chunks
  BY <1>3, <1>6 DEF TypeInv, Remote
<1>8. Remote'
  BY <1>1, <1>2, <1>7 DEF TypeInv, Remote
<1> QED BY <1>1, <1>2, <1>5, <1>8, NothingStays, DaemonStays, ClientsStay DEF TypeInv

LEMMA StoreChunkTyped ==
  ASSUME TypeInv, NothingYet, NEW p \in Peers, StoreChunk(p)
  PROVE  TypeInv' /\ NothingYet'
<1>1. UNCHANGED <<daemonVars, due, intros, pen, pipe, clientVars>>
  BY DEF StoreChunk
<1>2. UNCHANGED <<want, accepted, cli, log, listener, bar, garbled>>
  BY <1>1 DEF clientVars, daemonVars
<1>3. callback[p].file \in Files /\ callback[p].chunk \in Chunks
  BY DEF StoreChunk, TypeInv, Remote, NoCall, At
<1>4. have' \in [Files -> SUBSET Chunks]
  BY <1>3 DEF StoreChunk, TypeInv, Remote
<1>5. NoCall \in Calls
  BY DEF NoCall, At, Calls
<1>6. /\ callback' \in [Peers -> Calls]
      /\ \A q \in Peers : callback'[q] # NoCall => callback'[q].file \in Files /\ callback'[q].chunk \in Chunks
  BY <1>5 DEF StoreChunk, TypeInv, Remote
<1>7. Remote'
  BY <1>1, <1>2, <1>4, <1>6 DEF TypeInv, Remote
<1> QED BY <1>1, <1>2, <1>7, NothingStays, DaemonStays, ClientsStay, WiresStay DEF TypeInv

-----------------------------------------------------------------------------
(***************************************************************************)
(* Types: the clients                                                      *)
(***************************************************************************)

LEMMA StartTyped ==
  ASSUME TypeInv, NothingYet, NEW k \in Clis, Start(k)
  PROVE  TypeInv' /\ NothingYet'
<1>1. UNCHANGED <<daemonVars, peerVars, pen, pipe, want, garbled, log, listener, bar, seen>>
  BY DEF Start
<1>2. UNCHANGED accepted
  BY <1>1 DEF daemonVars
<1>3. PICK st \in {"waiting", "exited"} : cli' = [cli EXCEPT ![k] = st]
  BY DEF Start
<1>4. Clients'
  BY <1>1, <1>3 DEF TypeInv, Clients
<1>5. \A i \in accepted : i \in Clis
  BY CliAssumption DEF TypeInv, Daemon, Clis, NoCli
<1>6. NothingYet'
  BY <1>1, <1>2, <1>3, <1>5 DEF NothingYet, Untouched, TypeInv, Clients
<1> QED BY <1>1, <1>2, <1>4, <1>6, DaemonStays, RemoteStays, WiresStay DEF TypeInv

LEMMA EndsTyped ==
  ASSUME TypeInv, NothingYet, NEW k \in Clis, NEW st \in {"success", "exited"}, Ends(k, st),
         st = "exited" \/ k \in accepted,
         UNCHANGED <<daemonVars, peerVars, pen, want>>, seen' \in [Clis -> Files \cup {NoFile}]
  PROVE  TypeInv' /\ NothingYet'
<1>1. UNCHANGED <<pen, accepted>>
  BY DEF daemonVars
<1>2. Clients'
  <2>1. log' \in [Clis -> Seq(Messages)]
    BY DEF TypeInv, Clients, Ends
  <2>2. cli' \in [Clis -> {"new", "waiting", "success", "exited"}] /\ garbled' \subseteq Clis
    BY DEF TypeInv, Clients, Ends
  <2>3. listener' \in [Clis -> {"range", "total", "progress"}] /\ bar' \in [Clis -> {"total", "progress"}]
    BY DEF TypeInv, Clients, Ends
  <2> QED BY <2>1, <2>2, <2>3 DEF Clients
<1>3. pipe' = [pipe EXCEPT ![k] = <<>>]
  BY DEF Ends
<1>4. pipe' \in [Clis -> Seq(Pieces)]
  BY <1>3 DEF TypeInv, Wires
<1>5. Wires'
  BY <1>1, <1>4 DEF TypeInv, Wires, Targets
<1>6. \A i \in accepted : i \in Clis
  BY CliAssumption DEF TypeInv, Daemon, Clis, NoCli
<1>7. ASSUME NEW i \in Clis \ accepted
      PROVE  /\ pipe'[i] = <<>> /\ log'[i] = <<>> /\ i \notin garbled'
             /\ listener'[i] = "range" /\ bar'[i] = "total" /\ cli'[i] # "success"
  BY <1>7 DEF NothingYet, Untouched, Ends, TypeInv, Clients, Wires
<1>8. \A i \in accepted : cli'[i] # "new"
  BY <1>6 DEF NothingYet, Ends, TypeInv, Clients
<1>9. NothingYet'
  BY <1>1, <1>7, <1>8 DEF NothingYet, Untouched
<1> QED BY <1>2, <1>5, <1>9, DaemonStays, RemoteStays DEF TypeInv

LEMMA KillTyped ==
  ASSUME TypeInv, NothingYet, NEW k \in Clis, Kill(k)
  PROVE  TypeInv' /\ NothingYet'
  BY EndsTyped DEF Kill, TypeInv, Clients

\* The first message of LogChan.
LEMMA HeadTyped ==
  ASSUME Clients, NEW k \in Clis, log[k] # <<>>
  PROVE  /\ Head(log[k]) \in Messages /\ Head(log[k]) = log[k][1] /\ Tail(log[k]) \in Seq(Messages)
         /\ 1 \in 1..Len(log[k]) /\ Len(Tail(log[k])) = Len(log[k]) - 1
         /\ \A i \in 1..Len(Tail(log[k])) : Tail(log[k])[i] = log[k][i + 1] /\ i + 1 \in 1..Len(log[k])
<1>1. log[k] \in Seq(Messages)
  BY DEF Clients
<1> QED BY <1>1

LEMMA KindsAre ==
  ASSUME NEW m \in Messages
  PROVE  /\ m.kind \in {"total", "progress", "done", "text"} /\ (m = Text <=> m.kind = "text")
         /\ m.kind # "text" => m.file \in Files
  BY DEF Messages, Text, Message

\* What a client that was not accepted does not have.
LEMMA HasAccepted ==
  ASSUME TypeInv, NothingYet, NEW k \in Clis,
         pipe[k] # <<>> \/ log[k] # <<>> \/ listener[k] # "range"
  PROVE  k \in accepted
  BY DEF NothingYet, Untouched

LEMMA TakeDoneTyped ==
  ASSUME TypeInv, NothingYet, NEW k \in Clis, TakeDone(k)
  PROVE  TypeInv' /\ NothingYet'
<1>1. Head(log[k]) \in Messages /\ Head(log[k]).file \in Files
  BY HeadTyped, KindsAre DEF TakeDone, TypeInv
<1>2. seen' \in [Clis -> Files \cup {NoFile}]
  BY <1>1 DEF TakeDone, TypeInv, Clients
<1>3. k \in accepted
  BY HasAccepted DEF TakeDone
<1> QED BY <1>2, <1>3, EndsTyped DEF TakeDone

LEMMA TakeLogTyped ==
  ASSUME TypeInv, NothingYet, NEW k \in Clis, TakeLog(k)
  PROVE  TypeInv' /\ NothingYet'
<1>1. UNCHANGED <<daemonVars, peerVars, pen, pipe, want, cli, garbled, bar, seen>>
  BY DEF TakeLog
<1>2. UNCHANGED accepted
  BY <1>1 DEF daemonVars
<1>3. k \in accepted
  BY HasAccepted DEF TakeLog
<1>4. Head(log[k]) \in Messages /\ Tail(log[k]) \in Seq(Messages)
  BY HeadTyped DEF TakeLog, TypeInv
<1>5. PICK st \in {"range", "total", "progress"} : listener' = [listener EXCEPT ![k] = st]
  BY <1>4, KindsAre DEF TakeLog
<1>6. log' = [log EXCEPT ![k] = Tail(log[k])]
  BY DEF TakeLog
<1>7. Clients'
  BY <1>1, <1>4, <1>5, <1>6 DEF TypeInv, Clients
<1>8. NothingYet'
  BY <1>1, <1>2, <1>3, <1>5, <1>6 DEF NothingYet, Untouched, TypeInv, Clients
<1> QED BY <1>1, <1>2, <1>7, <1>8, DaemonStays, RemoteStays, WiresStay DEF TypeInv

LEMMA DrawBarTyped ==
  ASSUME TypeInv, NothingYet, NEW k \in Clis, DrawBar(k)
  PROVE  TypeInv' /\ NothingYet'
<1>1. UNCHANGED <<daemonVars, peerVars, pen, pipe, want, cli, garbled, log, seen>>
  BY DEF DrawBar
<1>2. UNCHANGED accepted
  BY <1>1 DEF daemonVars
<1>3. k \in accepted
  BY HasAccepted DEF DrawBar, TypeInv, Clients
<1>4. Clients'
  BY <1>1 DEF TypeInv, Clients, DrawBar
<1>5. NothingYet'
  BY <1>1, <1>2, <1>3 DEF NothingYet, Untouched, TypeInv, Clients, DrawBar
<1> QED BY <1>1, <1>2, <1>4, <1>5, DaemonStays, RemoteStays, WiresStay DEF TypeInv

\* The connection without its first length and body.
LEMMA PairTaken ==
  ASSUME Wires, NEW k \in Clis, Len(pipe[k]) >= 2
  PROVE  /\ SubSeq(pipe[k], 3, Len(pipe[k])) \in Seq(Pieces)
         /\ Len(SubSeq(pipe[k], 3, Len(pipe[k]))) = Len(pipe[k]) - 2
         /\ \A i \in 1..(Len(pipe[k]) - 2) : SubSeq(pipe[k], 3, Len(pipe[k]))[i] = pipe[k][i + 2]
         /\ pipe[k][1] \in Pieces /\ pipe[k][2] \in Pieces /\ pipe[k] # <<>>
<1>1. pipe[k] \in Seq(Pieces)
  BY DEF Wires
<1> QED BY <1>1

LEMMA ListenTyped ==
  ASSUME TypeInv, NothingYet, NEW k \in Clis, Listen(k)
  PROVE  TypeInv' /\ NothingYet'
<1>1. UNCHANGED <<daemonVars, peerVars, pen, want, cli, listener, bar, seen>>
  BY DEF Listen
<1>2. UNCHANGED accepted
  BY <1>1 DEF daemonVars
<1>3. /\ SubSeq(pipe[k], 3, Len(pipe[k])) \in Seq(Pieces) /\ pipe[k] # <<>>
      /\ pipe[k][2] \in Pieces
  BY PairTaken DEF Listen, TypeInv
<1>4. k \in accepted
  BY <1>3, HasAccepted
<1>5. PICK s \in Seq(Pieces) : pipe' = [pipe EXCEPT ![k] = s]
  <2>1. <<>> \in Seq(Pieces)
    OBVIOUS
  <2> QED BY <1>3, <2>1 DEF Listen
<1>6. PICK l \in Seq(Messages) : log' = [log EXCEPT ![k] = l]
  <2>1. log[k] \in Seq(Messages) /\ pipe[k][2].msg \in Messages
    BY <1>3 DEF TypeInv, Clients, Pieces
  <2>2. CASE UNCHANGED log
    BY <2>1, <2>2 DEF TypeInv, Clients
  <2>3. CASE log' = [log EXCEPT ![k] = Append(@, pipe[k][2].msg)]
    <3>1. Append(log[k], pipe[k][2].msg) \in Seq(Messages)
      BY <2>1
    <3> QED BY <2>3, <3>1
  <2> QED BY <2>2, <2>3 DEF Listen
<1>7. garbled' \subseteq garbled \cup {k}
  BY DEF Listen
<1>8. Clients'
  BY <1>1, <1>6, <1>7 DEF TypeInv, Clients
<1>9. Wires'
  BY <1>1, <1>2, <1>5 DEF TypeInv, Wires, Targets
<1>10. NothingYet'
  BY <1>1, <1>2, <1>4, <1>5, <1>6, <1>7 DEF NothingYet, Untouched, TypeInv, Clients, Wires
<1> QED BY <1>1, <1>2, <1>8, <1>9, <1>10, DaemonStays, RemoteStays DEF TypeInv

-----------------------------------------------------------------------------
LEMMA TypeInit == Init => TypeInv /\ NothingYet
<1> SUFFICES ASSUME Init PROVE TypeInv /\ NothingYet
  OBVIOUS
<1>1. accepted = 1..cliRouter
  BY DEF Init, NoCli
<1>2. Daemon
  BY <1>1 DEF Init, Daemon
<1>3. MaxIntros[want] \in Nat
  BY CliAssumption DEF Init
<1>4. NoCall \in Calls
  BY DEF NoCall, At, Calls
<1>5. Remote
  BY <1>3, <1>4, CliAssumption DEF Init, Remote
<1>6. Clients
  BY DEF Init, Clients
<1>7. Wires
  BY RestingIs DEF Init, Wires, Targets
<1>8. NothingYet
  BY DEF Init, NothingYet, Untouched
<1> QED BY <1>2, <1>5, <1>6, <1>7, <1>8 DEF TypeInv

LEMMA TypeStep == TypeInv /\ NothingYet /\ [Next]_vars => TypeInv' /\ NothingYet'
<1> SUFFICES ASSUME TypeInv, NothingYet, [Next]_vars PROVE TypeInv' /\ NothingYet'
  OBVIOUS
<1>1. CASE \E k \in Clis : Accept(k) \/ JobStep(k)
  BY <1>1, AcceptTyped, TakeDownloadTyped, TakeRegisterTyped, StartFileDownloadTyped DEF JobStep
<1>2. CASE \E k \in Clis : ClientStep(k) \/ Start(k) \/ Kill(k)
  BY <1>2, ListenTyped, TakeDoneTyped, TakeLogTyped, DrawBarTyped, StartTyped, KillTyped DEF ClientStep
<1>3. CASE \E f \in Files : ManagerStep(f)
  BY <1>3, RequestOneMissingChunkTyped, FinishDownloadTyped, ManagerDoneTyped DEF ManagerStep
<1>4. CASE \E p \in Peers : CallbackStep(p) \/ HandleIntroduction(p)
  BY <1>4, HandleChunkResponseTyped, SendProgressTyped, StoreChunkTyped, HandleIntroductionTyped DEF CallbackStep
<1>5. CASE \E w \in Writers : WriteMessage(w)
  BY <1>5, WriteMessageTyped
<1>6. CASE UNCHANGED vars
  <2>1. UNCHANGED <<daemonVars, peerVars, pen, pipe, clientVars>>
    BY <1>6 DEF vars
  <2>2. UNCHANGED <<accepted, want, cli, log, listener, bar, garbled>>
    BY <2>1 DEF daemonVars, clientVars
  <2> QED BY <2>1, <2>2, NothingStays, DaemonStays, RemoteStays, ClientsStay, WiresStay DEF TypeInv
<1> QED BY <1>1, <1>2, <1>3, <1>4, <1>5, <1>6 DEF Next, SystemStep

LEMMA TypeAlways == Spec => [](TypeInv /\ NothingYet)
  BY TypeInit, TypeStep, PTL DEF Spec

(***************************************************************************)
(* Every variable of Cli has its type: a goroutine of the daemon writes to *)
(* a connection it has accepted, about files of the model, and a client    *)
(* reads nothing else (messageCLI, ListenForDaemonLogs).                   *)
(***************************************************************************)
THEOREM TypeCorrect == Spec => []TypeOK
<1>1. TypeInv => TypeOK
  <2> SUFFICES ASSUME TypeInv PROVE TypeOK
    OBVIOUS
  <2>1. accepted \subseteq Clis
    BY CliAssumption DEF TypeInv, Daemon, Clis, NoCli
  <2> QED BY <2>1 DEF TypeOK, TypeInv, Daemon, Remote, Clients, Wires, Pens, Pieces, Calls
<1> QED BY <1>1, TypeAlways, PTL

-----------------------------------------------------------------------------
(***************************************************************************)
(* What a client that was accepted in a calm moment is told                *)
(***************************************************************************)

LEMMA AloneStays ==
  ASSUME Alone, UNCHANGED <<daemonVars, have, due, callback, want>>
  PROVE  Alone'
  BY DEF Alone, Served, Complete, daemonVars

\* No client becomes quiet, and no chunk is stored: what is new is of the
\* file, and true.
LEMMA HonestKept ==
  ASSUME Honest, UNCHANGED <<want, have, quiet>>,
         \A k \in quiet, w \in Writers : pen'[w] # pen[w] /\ pen'[w].to = k => About(pen'[w].msg, k),
         \A k \in quiet : pipe'[k] # pipe[k] => \A i \in 1..Len(pipe'[k]) : About(pipe'[k][i].msg, k),
         \A k \in quiet : log'[k] # log[k] => \A i \in 1..Len(log'[k]) : About(log'[k][i], k),
         \A k \in quiet : cli'[k] = "success" =>
            \/ cli[k] = "success" /\ seen'[k] = seen[k]
            \/ seen'[k] = want[k] /\ Complete(want[k])
  PROVE  Honest'
<1> SUFFICES ASSUME NEW k \in quiet
             PROVE  /\ \A w \in Writers : pen'[w].to = k => About(pen'[w].msg, k)
                    /\ \A i \in 1..Len(pipe'[k]) : About(pipe'[k][i].msg, k)
                    /\ \A i \in 1..Len(log'[k]) : About(log'[k][i], k)
                    /\ cli'[k] = "success" => seen'[k] = want[k] /\ Complete(want[k])
  BY DEF Honest, About, Complete
<1>1. \A w \in Writers : pen'[w].to = k => About(pen'[w].msg, k)
  BY DEF Honest
<1>2. \A i \in 1..Len(pipe'[k]) : About(pipe'[k][i].msg, k)
  BY DEF Honest
<1>3. \A i \in 1..Len(log'[k]) : About(log'[k][i], k)
  BY DEF Honest
<1>4. cli'[k] = "success" => seen'[k] = want[k] /\ Complete(want[k])
  BY DEF Honest
<1> QED BY <1>1, <1>2, <1>3, <1>4

\* messageCLI with a message that is true of the latest client's file.
LEMMA HonestSays ==
  ASSUME TypeInv, Honest, NEW w \in Writers, NEW m \in Messages, MessageCLI(w, m),
         cliRouter \in quiet => About(m, cliRouter),
         UNCHANGED <<have, quiet, pipe, clientVars>>
  PROVE  Honest'
<1>1. UNCHANGED <<want, cli, log, seen>>
  BY DEF clientVars
<1>2. \A k \in quiet, v \in Writers : pen'[v] # pen[v] /\ pen'[v].to = k => About(pen'[v].msg, k)
  <2>1. CASE pen' = pen
    BY <2>1
  <2>2. CASE pen' = [pen EXCEPT ![w] = Writing("len", cliRouter, m)]
    <3>1. /\ Writing("len", cliRouter, m).to = cliRouter /\ Writing("len", cliRouter, m).msg = m
      BY WritingIs
    <3>2. pen'[w] = Writing("len", cliRouter, m) /\ \A v \in Writers : v # w => pen'[v] = pen[v]
      BY <2>2 DEF TypeInv, Wires
    <3> QED BY <3>1, <3>2
  <2> QED BY <2>1, <2>2, Says
<1> QED BY <1>1, <1>2, HonestKept

LEMMA TextSays ==
  ASSUME TypeInv, Honest, NEW w \in Writers, MessageCLI(w, Text),
         UNCHANGED <<have, quiet, pipe, clientVars>>
  PROVE  Honest'
<1>1. Text \in Messages /\ Text.kind = "text"
  BY MessagesAre
<1>2. About(Text, cliRouter)
  BY <1>1 DEF About
<1> QED BY <1>1, <1>2, HonestSays

LEMMA HonestStays ==
  ASSUME Honest, UNCHANGED <<have, quiet, pen, pipe, clientVars>>
  PROVE  Honest'
<1>1. UNCHANGED <<want, cli, log, seen>>
  BY DEF clientVars
<1> QED BY <1>1, HonestKept

LEMMA WriteMessageHonest ==
  ASSUME TypeInv, Honest, Alone, NEW w \in Writers, WriteMessage(w)
  PROVE  Honest' /\ Alone'
<1>1. PICK k \in accepted :
            /\ k \in Clis /\ pen[w].to = k /\ pen[w] \in Pens /\ pen[w].part \in {"len", "body"}
            /\ \/ /\ ~Alive(k)
                  /\ pen' = [pen EXCEPT ![w] = Resting]
                  /\ UNCHANGED pipe
               \/ /\ Alive(k)
                  /\ pipe' = IF k \in garbled THEN pipe
                             ELSE [pipe EXCEPT ![k] = Append(@, Piece(w, pen[w].part, pen[w].msg))]
                  /\ Piece(w, pen[w].part, pen[w].msg) \in Pieces
                  /\ pen' = [pen EXCEPT ![w] = IF pen[w].part = "len" THEN Writing("body", k, pen[w].msg)
                                               ELSE Resting]
  BY Puts
<1>2. UNCHANGED <<want, cli, log, seen, have, quiet, daemonVars, due, callback>>
  BY DEF WriteMessage, daemonVars, peerVars, clientVars
<1>3. \A i \in quiet, v \in Writers : pen'[v] # pen[v] /\ pen'[v].to = i => About(pen'[v].msg, i)
  <2>1. PICK r : (r = Resting \/ (r.to = k /\ r.msg = pen[w].msg)) /\ pen' = [pen EXCEPT ![w] = r]
    <3>1. Writing("body", k, pen[w].msg).to = k /\ Writing("body", k, pen[w].msg).msg = pen[w].msg
      BY WritingIs
    <3> QED BY <1>1, <3>1
  <2>2. pen'[w] = r /\ \A v \in Writers : v # w => pen'[v] = pen[v]
    BY <2>1 DEF TypeInv, Wires
  <2>3. NoCli \notin quiet
    BY DEF TypeInv, Daemon, NoCli
  <2> QED BY <1>1, <2>1, <2>2, <2>3, RestingIs DEF Honest
<1>4. \A i \in quiet : pipe'[i] # pipe[i] => \A j \in 1..Len(pipe'[i]) : About(pipe'[i][j].msg, i)
  <2> SUFFICES ASSUME NEW i \in quiet, pipe'[i] # pipe[i], NEW j \in 1..Len(pipe'[i])
               PROVE  About(pipe'[i][j].msg, i)
    OBVIOUS
  <2>1. /\ i = k /\ pipe[k] \in Seq(Pieces)
        /\ pipe'[k] = Append(pipe[k], Piece(w, pen[w].part, pen[w].msg))
    <3>1. pipe' = [pipe EXCEPT ![k] = Append(pipe[k], Piece(w, pen[w].part, pen[w].msg))]
      BY <1>1
    <3>2. quiet \subseteq Clis /\ pipe \in [Clis -> Seq(Pieces)]
      BY CliAssumption DEF TypeInv, Daemon, Wires, Clis, NoCli
    <3> QED BY <1>1, <3>1, <3>2
  <2>2. \/ j \in 1..Len(pipe[k]) /\ pipe'[k][j] = pipe[k][j]
        \/ pipe'[k][j] = Piece(w, pen[w].part, pen[w].msg)
    BY <2>1
  <2>3. Piece(w, pen[w].part, pen[w].msg).msg = pen[w].msg
    BY DEF Piece
  <2> QED BY <1>1, <2>1, <2>2, <2>3 DEF Honest
<1>5. Honest'
  BY <1>2, <1>3, <1>4, HonestKept
<1> QED BY <1>2, <1>5, AloneStays

LEMMA AcceptHonest ==
  ASSUME TypeInv, NothingYet, Honest, Alone, NEW k \in Clis, Accept(k)
  PROVE  Honest' /\ Alone'
<1>1. /\ k \notin accepted /\ cliRouter' = k /\ k \in Nat /\ k # 0
      /\ pending' = pending \cup {k}
      /\ quiet' = IF Calm THEN quiet \cup {k} ELSE quiet
      /\ UNCHANGED <<job, active, finishing, due, callback, have, pen, pipe, want, cli, log, seen>>
  BY DEF Accept, Clis, peerVars, clientVars
<1>2. quiet \subseteq accepted
  BY DEF TypeInv, Daemon
<1>3. Honest'
  <2> SUFFICES ASSUME NEW i \in quiet'
               PROVE  /\ \A w \in Writers : pen[w].to = i => About(pen[w].msg, i)
                      /\ \A j \in 1..Len(pipe[i]) : About(pipe[i][j].msg, i)
                      /\ \A j \in 1..Len(log[i]) : About(log[i][j], i)
                      /\ cli[i] = "success" => seen[i] = want[i] /\ Complete(want[i])
    BY <1>1 DEF Honest, About, Complete
  <2>1. CASE i \in quiet
    BY <2>1 DEF Honest
  <2>2. CASE i = k
    <3>1. pipe[k] = <<>> /\ log[k] = <<>> /\ cli[k] # "success"
      BY <1>1 DEF NothingYet, Untouched
    <3>2. \A w \in Writers : pen[w].to # k
      BY <1>1, RestingIs DEF TypeInv, Wires, Targets, NoCli
    <3> QED BY <2>2, <3>1, <3>2
  <2> QED BY <1>1, <2>1, <2>2
<1>4. Alone'
  <2>1. CASE Calm
    <3>1. Served(k)'
      BY <1>1, <2>1 DEF Calm, Served, TypeInv, Daemon, Remote
    <3> QED BY <1>1, <3>1 DEF Alone, Served
  <2>2. CASE ~Calm
    BY <1>1, <1>2, <2>2 DEF Alone
  <2> QED BY <2>1, <2>2
<1> QED BY <1>3, <1>4

LEMMA TakeDownloadHonest ==
  ASSUME TypeInv, Honest, Alone, NEW j \in Clis, NEW k \in Clis, TakeDownload(j, k)
  PROVE  Honest' /\ Alone'
<1>1. /\ want[k] \in Files /\ k \in pending /\ j \in Writers
      /\ pending' = pending \ {k} /\ job' = [job EXCEPT ![j] = want[k]]
      /\ UNCHANGED <<accepted, quiet, cliRouter, active, finishing, peerVars, pipe, clientVars>>
      /\ MessageCLI(j, Message("total", want[k]))
  BY DEF TakeDownload, Writers
<1>2. UNCHANGED <<have, due, callback, want>>
  BY <1>1 DEF peerVars, clientVars
<1>3. /\ Message("total", want[k]) \in Messages /\ Message("total", want[k]).kind = "total"
      /\ Message("total", want[k]).file = want[k]
  BY <1>1, MessagesAre
<1>4. cliRouter \in quiet => k = cliRouter
  BY <1>1, NoFileApart DEF Alone, Served
<1>5. cliRouter \in quiet => About(Message("total", want[k]), cliRouter)
  BY <1>3, <1>4 DEF About
<1>6. Honest'
  BY <1>1, <1>2, <1>3, <1>5, HonestSays
<1>7. Alone'
  <2> SUFFICES ASSUME cliRouter \in quiet PROVE Served(cliRouter)'
    BY <1>1 DEF Alone, Served
  <2>1. \A i \in Clis : job'[i] \in {NoFile, want[cliRouter]}
    BY <1>1, <1>4 DEF TypeInv, Daemon, Alone, Served
  <2> QED BY <1>1, <1>2, <2>1 DEF Alone, Served, Complete
<1> QED BY <1>6, <1>7

LEMMA TakeRegisterHonest ==
  ASSUME TypeInv, Honest, Alone, NEW j \in Clis, NEW k \in Clis, TakeRegister(j, k)
  PROVE  Honest' /\ Alone'
<1>1. /\ pending' = pending \ {k}
      /\ UNCHANGED <<accepted, quiet, cliRouter, job, active, finishing, peerVars, pen, pipe, clientVars>>
  BY DEF TakeRegister
<1>2. UNCHANGED <<have, due, callback, want>>
  BY <1>1 DEF peerVars, clientVars
<1>3. Alone'
  BY <1>1, <1>2 DEF Alone, Served, Complete
<1> QED BY <1>1, <1>2, <1>3, HonestStays

LEMMA StartFileDownloadHonest ==
  ASSUME TypeInv, Honest, Alone, NEW j \in Clis, StartFileDownload(j)
  PROVE  Honest' /\ Alone'
<1>1. /\ active' \subseteq active \cup {job[j]} /\ job[j] # NoFile
      /\ job' = [job EXCEPT ![j] = NoFile]
      /\ UNCHANGED <<accepted, pending, quiet, cliRouter, finishing, peerVars, pen, pipe, clientVars>>
  BY DEF StartFileDownload
<1>2. UNCHANGED <<have, due, callback, want>>
  BY <1>1 DEF peerVars, clientVars
<1>3. Alone'
  <2> SUFFICES ASSUME cliRouter \in quiet PROVE Served(cliRouter)'
    BY <1>1 DEF Alone, Served
  <2>1. \A i \in Clis : job'[i] \in {NoFile, want[cliRouter]}
    BY <1>1 DEF TypeInv, Daemon, Alone, Served
  <2>2. active' \subseteq {want[cliRouter]}
    BY <1>1 DEF Alone, Served
  <2> QED BY <1>1, <1>2, <2>1, <2>2 DEF Alone, Served, Complete
<1> QED BY <1>1, <1>2, <1>3, HonestStays

LEMMA RequestOneMissingChunkHonest ==
  ASSUME TypeInv, Honest, Alone, NEW f \in Files, RequestOneMissingChunk(f)
  PROVE  Honest' /\ Alone'
<1>1. f \in active /\ UNCHANGED <<daemonVars, have, callback, intros, pen, pipe, clientVars>>
  BY DEF RequestOneMissingChunk
<1>2. PICK c \in Chunks : due' = [due EXCEPT ![f][c] = @ + 1]
  BY DEF RequestOneMissingChunk
<1>3. UNCHANGED <<quiet, cliRouter, pending, job, active, finishing, want>>
  BY <1>1 DEF daemonVars, clientVars
<1>4. Alone'
  <2> SUFFICES ASSUME cliRouter \in quiet PROVE Served(cliRouter)'
    BY <1>3 DEF Alone, Served
  <2>1. f = want[cliRouter]
    BY <1>1 DEF Alone, Served
  <2>2. \A g \in Files, d \in Chunks : g # f => due'[g][d] = due[g][d]
    BY <1>2 DEF TypeInv, Remote
  <2> QED BY <1>1, <1>3, <2>1, <2>2 DEF Alone, Served, Complete
<1> QED BY <1>1, <1>3, <1>4, HonestStays

LEMMA FinishDownloadHonest ==
  ASSUME TypeInv, Honest, Alone, NEW f \in Files, FinishDownload(f)
  PROVE  Honest' /\ Alone'
<1>1. /\ f \in active /\ Complete(f) /\ active' = active \ {f} /\ finishing' = finishing \cup {f}
      /\ UNCHANGED <<accepted, pending, quiet, cliRouter, job, peerVars, pen, pipe, clientVars>>
  BY DEF FinishDownload
<1>2. UNCHANGED <<have, due, callback, want>>
  BY <1>1 DEF peerVars, clientVars
<1>3. Alone'
  BY <1>1, <1>2 DEF Alone, Served, Complete
<1> QED BY <1>1, <1>2, <1>3, HonestStays

LEMMA ManagerDoneHonest ==
  ASSUME TypeInv, Honest, Alone, NEW f \in Files, ManagerDone(f)
  PROVE  Honest' /\ Alone'
<1>1. /\ f \in finishing /\ f \in Writers /\ finishing' = finishing \ {f}
      /\ MessageCLI(f, Message("done", f))
      /\ UNCHANGED <<accepted, pending, quiet, cliRouter, job, active, peerVars, pipe, clientVars>>
  BY DEF ManagerDone, Writers
<1>2. UNCHANGED <<have, due, callback, want>>
  BY <1>1 DEF peerVars, clientVars
<1>3. /\ Message("done", f) \in Messages /\ Message("done", f).file = f
  BY MessagesAre
<1>4. cliRouter \in quiet => About(Message("done", f), cliRouter)
  BY <1>1, <1>3 DEF About, Alone, Served
<1>5. Alone'
  BY <1>1, <1>2 DEF Alone, Served, Complete
<1> QED BY <1>1, <1>2, <1>3, <1>4, <1>5, HonestSays

LEMMA HandleIntroductionHonest ==
  ASSUME TypeInv, Honest, Alone, NEW p \in Peers, HandleIntroduction(p)
  PROVE  Honest' /\ Alone'
<1>1. /\ p \in Writers /\ MessageCLI(p, Text)
      /\ UNCHANGED <<daemonVars, due, have, callback, pipe, clientVars>>
  BY DEF HandleIntroduction, Writers
<1>2. UNCHANGED <<want, quiet>>
  BY <1>1 DEF clientVars, daemonVars
<1> QED BY <1>1, <1>2, TextSays, AloneStays

LEMMA HandleChunkResponseHonest ==
  ASSUME TypeInv, Honest, Alone, NEW p \in Peers, HandleChunkResponse(p)
  PROVE  Honest' /\ Alone'
<1>1. /\ p \in Writers /\ MessageCLI(p, Text)
      /\ UNCHANGED <<daemonVars, have, intros, pipe, clientVars>>
  BY DEF HandleChunkResponse, Writers
<1>2. PICK f \in Files, c \in Chunks :
         /\ due[f][c] > 0
         /\ due' = [due EXCEPT ![f][c] = @ - 1]
         /\ callback' = [callback EXCEPT ![p] = At("got", f, c)]
  BY DEF HandleChunkResponse
<1>3. UNCHANGED <<quiet, cliRouter, pending, job, active, finishing, want>>
  BY <1>1 DEF daemonVars, clientVars
<1>4. Alone'
  <2> SUFFICES ASSUME cliRouter \in quiet PROVE Served(cliRouter)'
    BY <1>3 DEF Alone, Served
  <2>1. f = want[cliRouter]
    BY <1>2 DEF Alone, Served
  <2>2. \A g \in Files, d \in Chunks : g # f => due'[g][d] = due[g][d]
    BY <1>2 DEF TypeInv, Remote
  <2>3. \A q \in Peers : callback'[q] = NoCall \/ callback'[q].file = want[cliRouter]
    <3>1. At("got", f, c).file = f
      BY AtIs
    <3> QED BY <1>2, <2>1, <3>1 DEF TypeInv, Remote, Alone, Served
  <2> QED BY <1>1, <1>3, <2>1, <2>2, <2>3 DEF Alone, Served, Complete
<1> QED BY <1>1, <1>3, <1>4, TextSays

LEMMA SendProgressHonest ==
  ASSUME TypeInv, Honest, Alone, NEW p \in Peers, SendProgress(p)
  PROVE  Honest' /\ Alone'
<1>1. /\ p \in Writers /\ MessageCLI(p, Message("progress", callback[p].file))
      /\ callback[p] \in Calls /\ callback[p] # NoCall /\ callback[p].file \in Files
      /\ callback' = [callback EXCEPT ![p].st = "progress"]
      /\ UNCHANGED <<daemonVars, due, have, intros, pipe, clientVars>>
  BY DEF SendProgress, Writers, NoCall, At, TypeInv, Remote
<1>2. UNCHANGED <<quiet, cliRouter, pending, job, active, finishing, want>>
  BY <1>1 DEF daemonVars, clientVars
<1>3. PICK m \in Messages : /\ m = Message("progress", callback[p].file) /\ m.kind = "progress"
                            /\ m.file = callback[p].file
  BY <1>1, MessagesAre
<1>4. cliRouter \in quiet => About(m, cliRouter)
  BY <1>1, <1>3 DEF About, Alone, Served
<1>5. Honest'
  BY <1>1, <1>2, <1>3, <1>4, HonestSays
<1>6. Alone'
  <2>1. \A q \in Peers : callback'[q] = callback[q] \/ (q = p /\ callback'[q].file = callback[p].file)
    BY <1>1 DEF TypeInv, Remote, Calls
  <2> QED BY <1>1, <1>2, <2>1 DEF Alone, Served, Complete
<1> QED BY <1>5, <1>6

\* A chunk that is stored takes nothing from what is complete.
LEMMA StoreChunkHonest ==
  ASSUME TypeInv, TypeInv', Honest, Alone, NEW p \in Peers, StoreChunk(p)
  PROVE  Honest' /\ Alone'
<1>1. /\ have' = [have EXCEPT ![callback[p].file] = @ \cup {callback[p].chunk}]
      /\ callback' = [callback EXCEPT ![p] = NoCall]
      /\ UNCHANGED <<daemonVars, due, intros, pen, pipe, clientVars>>
  BY DEF StoreChunk
<1>2. UNCHANGED <<quiet, cliRouter, pending, job, active, finishing, want, pen, pipe, log, cli, seen>>
  BY <1>1 DEF daemonVars, clientVars
<1>3. \A f \in Files : Complete(f) => have'[f] = Chunks
  BY <1>1 DEF Complete, TypeInv, Remote
<1>4. quiet \subseteq Clis
  BY CliAssumption DEF TypeInv, Daemon, Clis, NoCli
<1>5. ASSUME NEW m \in Messages, NEW k \in quiet, About(m, k)
      PROVE  m.kind # "text" => m.file = want[k] /\ (m.kind = "done" => have'[m.file] = Chunks)
  BY <1>3, <1>5, KindsAre DEF About
<1>6. Honest'
  <2> SUFFICES ASSUME NEW k \in quiet
               PROVE  /\ \A w \in Writers : pen[w].to = k => About(pen[w].msg, k)'
                      /\ \A i \in 1..Len(pipe[k]) : About(pipe[k][i].msg, k)'
                      /\ \A i \in 1..Len(log[k]) : About(log[k][i], k)'
                      /\ cli[k] = "success" => seen[k] = want[k] /\ have'[want[k]] = Chunks
    BY <1>2 DEF Honest, About, Complete
  <2>1. \A w \in Writers : pen[w].to = k => About(pen[w].msg, k)'
    <3> SUFFICES ASSUME NEW w \in Writers, pen[w].to = k PROVE About(pen[w].msg, k)'
      OBVIOUS
    <3>1. PICK m : m = pen[w].msg
      OBVIOUS
    <3>2. m \in Messages
      <4>1. pen[w] \in Pens
        BY DEF TypeInv, Wires
      <4> QED BY <3>1, <4>1 DEF Pens
    <3>3. About(m, k)
      BY <3>1 DEF Honest
    <3> QED BY <1>2, <1>5, <3>1, <3>2, <3>3 DEF About, Complete
  <2>2. \A i \in 1..Len(pipe[k]) : About(pipe[k][i].msg, k)'
    <3> SUFFICES ASSUME NEW i \in 1..Len(pipe[k]) PROVE About(pipe[k][i].msg, k)'
      BY <1>2 DEF About
    <3>1. PICK m : m = pipe[k][i].msg
      OBVIOUS
    <3>2. pipe[k] \in Seq(Pieces)
      BY <1>4 DEF TypeInv, Wires
    <3>3. pipe[k][i] \in Pieces
      BY <3>2
    <3>4. m \in Messages
      BY <3>1, <3>3 DEF Pieces
    <3>5. About(m, k)
      BY <3>1 DEF Honest
    <3> QED BY <1>2, <1>5, <3>1, <3>4, <3>5 DEF About, Complete
  <2>3. \A i \in 1..Len(log[k]) : About(log[k][i], k)'
    <3> SUFFICES ASSUME NEW i \in 1..Len(log[k]) PROVE About(log[k][i], k)'
      BY <1>2 DEF About
    <3>1. PICK m : m = log[k][i]
      OBVIOUS
    <3>2. m \in Messages /\ About(m, k)
      BY <1>4, <3>1 DEF Honest, TypeInv, Clients
    <3> QED BY <1>2, <1>5, <3>1, <3>2 DEF About, Complete
  <2>4. cli[k] = "success" => seen[k] = want[k] /\ have'[want[k]] = Chunks
    <3> SUFFICES ASSUME cli[k] = "success" PROVE seen[k] = want[k] /\ have'[want[k]] = Chunks
      OBVIOUS
    <3>1. seen[k] = want[k] /\ have[want[k]] = Chunks
      BY DEF Honest, Complete
    <3>2. CASE callback[p].file = want[k]
      <4>1. callback[p].file \in Files
        BY DEF StoreChunk, TypeInv, Remote, NoCall, At
      <4> QED BY <1>3, <3>1, <3>2, <4>1 DEF Complete
    <3>3. CASE callback[p].file # want[k]
      BY <1>1, <3>1, <3>3 DEF TypeInv, Remote
    <3> QED BY <3>1, <3>2, <3>3
  <2> QED BY <2>1, <2>2, <2>3, <2>4
<1>7. Alone'
  <2> SUFFICES ASSUME cliRouter \in quiet PROVE Served(cliRouter)'
    BY <1>2 DEF Alone, Served
  <2>1. \A f \in finishing : have'[f] = Chunks
    BY <1>3 DEF Alone, Served, TypeInv, Daemon
  <2>2. \A q \in Peers : callback'[q] = NoCall \/ callback'[q] = callback[q]
    BY <1>1 DEF TypeInv, Remote
  <2> QED BY <1>1, <1>2, <2>1, <2>2 DEF Alone, Served, Complete
<1> QED BY <1>6, <1>7

LEMMA StartHonest ==
  ASSUME TypeInv, Honest, Alone, NEW k \in Clis, Start(k)
  PROVE  Honest' /\ Alone'
<1>1. /\ UNCHANGED <<daemonVars, peerVars, pen, pipe, want, garbled, log, listener, bar, seen>>
      /\ \E st \in {"waiting", "exited"} : cli' = [cli EXCEPT ![k] = st]
  BY DEF Start
<1>2. UNCHANGED <<quiet, have, due, callback>>
  BY <1>1 DEF daemonVars, peerVars
<1>3. \A i \in quiet : cli'[i] = "success" => cli[i] = "success"
  <2>1. quiet \subseteq Clis
    BY CliAssumption DEF TypeInv, Daemon, Clis, NoCli
  <2> QED BY <1>1, <2>1 DEF TypeInv, Clients
<1>4. Honest'
  BY <1>1, <1>2, <1>3, HonestKept
<1> QED BY <1>1, <1>2, <1>4, AloneStays

\* A client ends; if with success, on a "done" of its file.
LEMMA EndsHonest ==
  ASSUME TypeInv, Honest, Alone, NEW k \in Clis, NEW st, Ends(k, st),
         UNCHANGED <<daemonVars, peerVars, pen, want>>,
         \A i \in Clis : i # k => seen'[i] = seen[i],
         k \in quiet /\ st = "success" => seen'[k] = want[k] /\ Complete(want[k])
  PROVE  Honest' /\ Alone'
<1>1. UNCHANGED <<quiet, have, due, callback>>
  BY DEF daemonVars, peerVars
<1>2. quiet \subseteq Clis
  BY CliAssumption DEF TypeInv, Daemon, Clis, NoCli
<1>3. \A i \in quiet : pipe'[i] # pipe[i] => pipe'[i] = <<>>
  BY <1>2 DEF Ends, TypeInv, Wires
<1>4. \A i \in quiet : log'[i] # log[i] => log'[i] = <<>>
  BY <1>2 DEF Ends, TypeInv, Clients
<1>5. \A i \in quiet : cli'[i] = "success" =>
        \/ cli[i] = "success" /\ seen'[i] = seen[i]
        \/ seen'[i] = want[i] /\ Complete(want[i])
  BY <1>2 DEF Ends, TypeInv, Clients
<1>6. Honest'
  <2>1. \A i \in quiet : pipe'[i] # pipe[i] => \A j \in 1..Len(pipe'[i]) : About(pipe'[i][j].msg, i)
    BY <1>3
  <2>2. \A i \in quiet : log'[i] # log[i] => \A j \in 1..Len(log'[i]) : About(log'[i][j], i)
    BY <1>4
  <2> QED BY <1>1, <1>5, <2>1, <2>2, HonestKept
<1> QED BY <1>1, <1>6, AloneStays

LEMMA KillHonest ==
  ASSUME TypeInv, Honest, Alone, NEW k \in Clis, Kill(k)
  PROVE  Honest' /\ Alone'
  BY EndsHonest DEF Kill

LEMMA TakeDoneHonest ==
  ASSUME TypeInv, Honest, Alone, NEW k \in Clis, TakeDone(k)
  PROVE  Honest' /\ Alone'
<1>1. /\ Ends(k, "success") /\ seen' = [seen EXCEPT ![k] = Head(log[k]).file]
      /\ UNCHANGED <<daemonVars, peerVars, pen, want>>
      /\ log[k] # <<>> /\ Head(log[k]).kind = "done"
  BY DEF TakeDone
<1>2. 1 \in 1..Len(log[k]) /\ Head(log[k]) = log[k][1]
  BY <1>1, HeadTyped DEF TypeInv
<1>3. k \in quiet => Head(log[k]).file = want[k] /\ Complete(want[k])
  BY <1>1, <1>2 DEF Honest, About
<1>4. seen'[k] = Head(log[k]).file /\ \A i \in Clis : i # k => seen'[i] = seen[i]
  BY <1>1 DEF TypeInv, Clients
<1> QED BY <1>1, <1>3, <1>4, EndsHonest

LEMMA TakeLogHonest ==
  ASSUME TypeInv, Honest, Alone, NEW k \in Clis, TakeLog(k)
  PROVE  Honest' /\ Alone'
<1>1. /\ UNCHANGED <<daemonVars, peerVars, pen, pipe, want, cli, garbled, bar, seen>>
      /\ log' = [log EXCEPT ![k] = Tail(log[k])] /\ log[k] # <<>>
  BY DEF TakeLog
<1>2. UNCHANGED <<quiet, have, due, callback>>
  BY <1>1 DEF daemonVars, peerVars
<1>3. \A i \in quiet : log'[i] # log[i] => \A j \in 1..Len(log'[i]) : About(log'[i][j], i)
  <2> SUFFICES ASSUME NEW i \in quiet, log'[i] # log[i], NEW j \in 1..Len(log'[i])
               PROVE  About(log'[i][j], i)
    OBVIOUS
  <2>1. i = k /\ log'[k] = Tail(log[k])
    <3>1. quiet \subseteq Clis
      BY CliAssumption DEF TypeInv, Daemon, Clis, NoCli
    <3> QED BY <1>1, <3>1 DEF TypeInv, Clients
  <2>2. j \in 1..Len(Tail(log[k]))
    BY <2>1
  <2>3. Tail(log[k])[j] = log[k][j + 1] /\ j + 1 \in 1..Len(log[k])
    BY <1>1, <2>2, HeadTyped DEF TypeInv
  <2> QED BY <2>1, <2>3 DEF Honest
<1>4. Honest'
  BY <1>1, <1>2, <1>3, HonestKept
<1> QED BY <1>1, <1>2, <1>4, AloneStays

LEMMA DrawBarHonest ==
  ASSUME TypeInv, Honest, Alone, NEW k \in Clis, DrawBar(k)
  PROVE  Honest' /\ Alone'
<1>1. UNCHANGED <<daemonVars, peerVars, pen, pipe, want, cli, log, seen>>
  BY DEF DrawBar
<1>2. UNCHANGED <<quiet, have, due, callback>>
  BY <1>1 DEF daemonVars, peerVars
<1>3. Honest'
  BY <1>1, <1>2, HonestKept
<1> QED BY <1>1, <1>2, <1>3, AloneStays

LEMMA ListenHonest ==
  ASSUME TypeInv, Honest, Alone, NEW k \in Clis, Listen(k)
  PROVE  Honest' /\ Alone'
<1>1. UNCHANGED <<daemonVars, peerVars, pen, want, cli, listener, bar, seen>> /\ Len(pipe[k]) >= 2
  BY DEF Listen
<1>2. UNCHANGED <<quiet, have, due, callback>>
  BY <1>1 DEF daemonVars, peerVars
<1>3. /\ Len(SubSeq(pipe[k], 3, Len(pipe[k]))) = Len(pipe[k]) - 2
      /\ \A i \in 1..(Len(pipe[k]) - 2) : SubSeq(pipe[k], 3, Len(pipe[k]))[i] = pipe[k][i + 2]
      /\ Len(pipe[k]) \in Nat
  <2>1. pipe[k] \in Seq(Pieces)
    BY DEF TypeInv, Wires
  <2> QED BY <1>1, <2>1, PairTaken DEF TypeInv
<1>4. quiet \subseteq Clis
  BY CliAssumption DEF TypeInv, Daemon, Clis, NoCli
<1>5. \A i \in quiet : pipe'[i] # pipe[i] => \A j \in 1..Len(pipe'[i]) : About(pipe'[i][j].msg, i)
  <2> SUFFICES ASSUME NEW i \in quiet, pipe'[i] # pipe[i], NEW j \in 1..Len(pipe'[i])
               PROVE  About(pipe'[i][j].msg, i)
    OBVIOUS
  <2>1. i = k /\ (pipe'[k] = <<>> \/ pipe'[k] = SubSeq(pipe[k], 3, Len(pipe[k])))
    BY <1>4 DEF Listen, TypeInv, Wires
  <2>2. pipe'[k] = SubSeq(pipe[k], 3, Len(pipe[k]))
    BY <2>1
  <2>3. j + 2 \in 1..Len(pipe[k]) /\ pipe'[k][j] = pipe[k][j + 2]
    BY <1>3, <2>1, <2>2
  <2> QED BY <2>1, <2>3 DEF Honest
<1>6. \A i \in quiet : log'[i] # log[i] => \A j \in 1..Len(log'[i]) : About(log'[i][j], i)
  <2> SUFFICES ASSUME NEW i \in quiet, log'[i] # log[i], NEW j \in 1..Len(log'[i])
               PROVE  About(log'[i][j], i)
    OBVIOUS
  <2>1. log' = [log EXCEPT ![k] = Append(log[k], pipe[k][2].msg)]
    BY DEF Listen
  <2>2. i = k /\ log'[k] = Append(log[k], pipe[k][2].msg) /\ log[k] \in Seq(Messages)
    BY <1>4, <2>1 DEF TypeInv, Clients
  <2>3. (j \in 1..Len(log[k]) /\ log'[k][j] = log[k][j]) \/ log'[k][j] = pipe[k][2].msg
    BY <2>2
  <2>4. 2 \in 1..Len(pipe[k])
    BY <1>1, <1>3
  <2> QED BY <2>2, <2>3, <2>4 DEF Honest
<1>7. Honest'
  BY <1>1, <1>2, <1>5, <1>6, HonestKept
<1> QED BY <1>1, <1>2, <1>7, AloneStays

-----------------------------------------------------------------------------
ToldInv == TypeInv /\ NothingYet /\ Honest /\ Alone

LEMMA ToldInit == Init => ToldInv
<1> SUFFICES ASSUME Init PROVE ToldInv
  OBVIOUS
<1>1. Honest /\ Alone
  BY DEF Init, Honest, Alone
<1> QED BY <1>1, TypeInit DEF ToldInv

LEMMA ToldStep == ToldInv /\ [Next]_vars => ToldInv'
<1> SUFFICES ASSUME TypeInv, NothingYet, Honest, Alone, [Next]_vars, TypeInv' PROVE Honest' /\ Alone'
  BY TypeStep DEF ToldInv
<1>1. CASE \E k \in Clis : Accept(k) \/ JobStep(k)
  BY <1>1, AcceptHonest, TakeDownloadHonest, TakeRegisterHonest, StartFileDownloadHonest DEF JobStep
<1>2. CASE \E k \in Clis : ClientStep(k) \/ Start(k) \/ Kill(k)
  BY <1>2, ListenHonest, TakeDoneHonest, TakeLogHonest, DrawBarHonest, StartHonest, KillHonest DEF ClientStep
<1>3. CASE \E f \in Files : ManagerStep(f)
  BY <1>3, RequestOneMissingChunkHonest, FinishDownloadHonest, ManagerDoneHonest
     DEF ManagerStep
<1>4. CASE \E p \in Peers : CallbackStep(p) \/ HandleIntroduction(p)
  BY <1>4, HandleChunkResponseHonest, SendProgressHonest, StoreChunkHonest, HandleIntroductionHonest
     DEF CallbackStep
<1>5. CASE \E w \in Writers : WriteMessage(w)
  BY <1>5, WriteMessageHonest
<1>6. CASE UNCHANGED vars
  <2>1. UNCHANGED <<daemonVars, peerVars, pen, pipe, clientVars>>
    BY <1>6 DEF vars
  <2>2. UNCHANGED <<quiet, have, due, callback, want>>
    BY <2>1 DEF daemonVars, peerVars, clientVars
  <2> QED BY <2>1, <2>2, HonestStays, AloneStays
<1> QED BY <1>1, <1>2, <1>3, <1>4, <1>5, <1>6 DEF Next, SystemStep

LEMMA ToldAlways == Spec => []ToldInv
  BY ToldInit, ToldStep, PTL DEF Spec

(***************************************************************************)
(* A client that the daemon accepted while no download was under way       *)
(* prints its success only for the file it asked for, and only when all    *)
(* its chunks are stored: as long as it is the client that messageCLI      *)
(* writes to, only its own signal is served (ipc.go), and what was begun   *)
(* for it stays true after a later client took its place.                  *)
(***************************************************************************)
THEOREM SuccessIsTrue == Spec => []SuccessTrue
<1>1. ToldInv => SuccessTrue
  BY DEF ToldInv, Honest, SuccessTrue
<1> QED BY <1>1, ToldAlways, PTL

-----------------------------------------------------------------------------
(***************************************************************************)
(* The total: once, and before all progress                                *)
(***************************************************************************)

\* What may happen to a client's total in a step that does not begin to write
\* one: it moves on, or it is lost with a connection that is out of step.
Moves(k) ==
    /\ Sent(k) => Sent(k)' \/ k \in garbled'
    /\ Sent(k)' => Sent(k) \/ Writes(k, "total") # {}
    /\ Writes(k, "total")' \subseteq Writes(k, "total")
    /\ Writes(k, "total")' = Writes(k, "total") \/ Sent(k)' \/ k \in garbled'
    /\ k \in garbled => k \in garbled'

LEMMA FlowKept ==
  ASSUME NEW k \in Clis, Once(k), Before(k),
         Bodies(k, "total")' = Bodies(k, "total"), Bodies(k, "progress")' = Bodies(k, "progress"),
         Logs(k, "total")' = Logs(k, "total"), Logs(k, "progress")' = Logs(k, "progress"),
         Writes(k, "total")' \subseteq Writes(k, "total"),
         Writes(k, "progress")' \subseteq Writes(k, "progress"),
         Writes(k, "total")' = Writes(k, "total") \/ k \in garbled',
         listener'[k] = listener[k], bar'[k] = bar[k], k \in garbled => k \in garbled'
  PROVE  Once(k)' /\ Before(k)' /\ Moves(k)
<1>1. /\ Taken(k)' <=> Taken(k)
      /\ Logged(k)' <=> Logged(k)
      /\ Sent(k)' <=> Sent(k)
  BY DEF Taken, Logged, Sent
<1>2. Once(k)'
  BY <1>1 DEF Once
<1>3. Before(k)'
  BY <1>1 DEF Before
<1> QED BY <1>1, <1>2, <1>3 DEF Moves

\* Sets of places in a sequence.
LEMMA PlacesKept ==
  ASSUME NEW k \in Clis, pipe'[k] = pipe[k], log'[k] = log[k]
  PROVE  /\ Bodies(k, "total")' = Bodies(k, "total") /\ Bodies(k, "progress")' = Bodies(k, "progress")
         /\ Logs(k, "total")' = Logs(k, "total") /\ Logs(k, "progress")' = Logs(k, "progress")
  BY DEF Bodies, Logs

LEMMA PensKept ==
  ASSUME NEW k \in Clis, UNCHANGED pen
  PROVE  Writes(k, "total")' = Writes(k, "total") /\ Writes(k, "progress")' = Writes(k, "progress")
  BY DEF Writes

LEMMA FlowStays ==
  ASSUME NEW k \in Clis, Once(k), Before(k), UNCHANGED pen,
         pipe'[k] = pipe[k], log'[k] = log[k], listener'[k] = listener[k], bar'[k] = bar[k],
         k \in garbled => k \in garbled'
  PROVE  Once(k)' /\ Before(k)' /\ Moves(k)
  BY FlowKept, PlacesKept, PensKept

\* What messageCLI adds to the writers.
LEMMA SaysWrites ==
  ASSUME TypeInv, NEW w \in Writers, NEW m \in Messages, MessageCLI(w, m), NEW k \in Clis, NEW kind
  PROVE  Writes(k, kind)' = IF k = cliRouter /\ Alive(k) /\ m.kind = kind
                            THEN Writes(k, kind) \cup {w} ELSE Writes(k, kind)
<1>1. pen \in [Writers -> Pens] /\ pen[w].to = NoCli /\ k # NoCli
  BY RestingIs DEF MessageCLI, Rests, TypeInv, Wires, Clis, NoCli
<1>2. CASE cliRouter # NoCli /\ Alive(cliRouter)
  <2>1. PICK r : r.to = cliRouter /\ r.msg = m /\ pen' = [pen EXCEPT ![w] = r]
    <3>1. Writing("len", cliRouter, m).to = cliRouter /\ Writing("len", cliRouter, m).msg = m
      BY WritingIs
    <3> QED BY <1>2, <3>1 DEF MessageCLI
  <2>2. /\ pen'[w].to = cliRouter /\ pen'[w].msg = m
        /\ \A v \in Writers : v # w => pen'[v] = pen[v]
    BY <1>1, <2>1
  <2> QED BY <1>1, <1>2, <2>2 DEF Writes
<1>3. CASE ~(cliRouter # NoCli /\ Alive(cliRouter))
  <2>1. pen' = pen /\ ~(k = cliRouter /\ Alive(k))
    BY <1>1, <1>3 DEF MessageCLI
  <2> QED BY <2>1 DEF Writes
<1> QED BY <1>2, <1>3

LEMMA SaysInStep ==
  ASSUME TypeInv, InStep, NEW w \in Writers, NEW m \in Messages, MessageCLI(w, m),
         UNCHANGED <<pipe, cli, garbled>>
  PROVE  InStep'
<1>1. \A v \in Writers : pen'[v].part = "body" => pen'[v] = pen[v]
  <2>1. CASE pen' = pen
    BY <2>1
  <2>2. CASE pen' = [pen EXCEPT ![w] = Writing("len", cliRouter, m)]
    <3>1. Writing("len", cliRouter, m).part = "len"
      BY WritingIs
    <3> QED BY <2>2, <3>1 DEF TypeInv, Wires
  <2> QED BY <2>1, <2>2, Says
<1>2. \A k \in Clis, v \in Writers, i \in Nat : Follows(k, v, i)' <=> Follows(k, v, i)
  BY DEF Follows
<1>3. \A k \in Clis : Len(pipe[k]) \in Nat
  <2>1. \A k \in Clis : pipe[k] \in Seq(Pieces)
    BY DEF TypeInv, Wires
  <2> QED BY <2>1
<1>4. \A k \in Clis : k \in garbled' => pipe'[k] = <<>>
  BY DEF InStep
<1>5. ASSUME NEW k \in Clis, NEW i \in 1..Len(pipe[k]), pipe[k][i].part = "body"
      PROVE  Follows(k, pipe[k][i].by, i)'
  BY <1>5 DEF InStep, Follows
<1>6. ASSUME NEW k \in Clis, Alive(k), k \notin garbled, NEW v \in Writers, pen'[v].to = k, pen'[v].part = "body"
      PROVE  Follows(k, v, Len(pipe[k]) + 1)'
  <2>1. Follows(k, v, Len(pipe[k]) + 1)
    BY <1>1, <1>6 DEF InStep
  <2> QED BY <2>1 DEF Follows
<1> QED BY <1>4, <1>5, <1>6 DEF InStep, Alive

\* messageCLI keeps the order if a total is the first one and progress comes
\* after it.
LEMMA SaysFlow ==
  ASSUME TypeInv, NEW w \in Writers, NEW m \in Messages, MessageCLI(w, m),
         UNCHANGED <<pipe, log, listener, bar, garbled>>,
         NEW k \in Clis, Once(k), Before(k), Alive(k),
         k = cliRouter /\ m.kind = "total" => ~Sent(k) /\ Writes(k, "total") = {},
         k = cliRouter /\ m.kind = "progress" => Sent(k) \/ k \in garbled
  PROVE  /\ Once(k)' /\ Before(k)'
         /\ m.kind # "total" => Moves(k)
<1>1. /\ Bodies(k, "total")' = Bodies(k, "total") /\ Bodies(k, "progress")' = Bodies(k, "progress")
      /\ Logs(k, "total")' = Logs(k, "total") /\ Logs(k, "progress")' = Logs(k, "progress")
  BY PlacesKept
<1>2. /\ Taken(k)' <=> Taken(k)
      /\ Logged(k)' <=> Logged(k)
      /\ Sent(k)' <=> Sent(k)
  BY <1>1 DEF Taken, Logged, Sent
<1>3. /\ Writes(k, "total")' = IF k = cliRouter /\ m.kind = "total" THEN Writes(k, "total") \cup {w}
                               ELSE Writes(k, "total")
      /\ Writes(k, "progress")' = IF k = cliRouter /\ m.kind = "progress" THEN Writes(k, "progress") \cup {w}
                                  ELSE Writes(k, "progress")
  BY SaysWrites
<1>4. Once(k)'
  BY <1>1, <1>2, <1>3 DEF Once
<1>5. Before(k)'
  BY <1>1, <1>2, <1>3 DEF Before
<1>6. m.kind # "total" => Moves(k)
  BY <1>2, <1>3 DEF Moves
<1> QED BY <1>4, <1>5, <1>6

-----------------------------------------------------------------------------
\* What WriteMessage takes from the writers.
LEMMA PutsWrites ==
  ASSUME TypeInv, NEW w \in Writers, WriteMessage(w), NEW k \in Clis, NEW kind
  PROVE  Writes(k, kind)' = IF pen[w].part = "body" \/ ~Alive(pen[w].to)
                            THEN Writes(k, kind) \ {w} ELSE Writes(k, kind)
<1>1. pen \in [Writers -> Pens] /\ k # NoCli /\ pen[w].part \in {"len", "body"}
  BY DEF WriteMessage, Rests, TypeInv, Wires, Targets, Clis, NoCli
<1>2. CASE pen[w].part = "body" \/ ~Alive(pen[w].to)
  <2>1. pen' = [pen EXCEPT ![w] = Resting]
    BY <1>1, <1>2 DEF WriteMessage
  <2>2. pen'[w].to = NoCli /\ \A v \in Writers : v # w => pen'[v] = pen[v]
    BY <1>1, <2>1, RestingIs
  <2> QED BY <1>1, <1>2, <2>2 DEF Writes
<1>3. CASE pen[w].part = "len" /\ Alive(pen[w].to)
  <2>1. pen' = [pen EXCEPT ![w] = Writing("body", pen[w].to, pen[w].msg)]
    BY <1>1, <1>3 DEF WriteMessage
  <2>2. PICK r : r.to = pen[w].to /\ r.msg = pen[w].msg /\ pen' = [pen EXCEPT ![w] = r]
    <3>1. /\ Writing("body", pen[w].to, pen[w].msg).to = pen[w].to
          /\ Writing("body", pen[w].to, pen[w].msg).msg = pen[w].msg
      BY WritingIs
    <3> QED BY <2>1, <3>1
  <2>3. /\ pen'[w].to = pen[w].to /\ pen'[w].msg = pen[w].msg
        /\ \A v \in Writers : v # w => pen'[v] = pen[v]
    BY <1>1, <2>2
  <2> QED BY <1>3, <2>3 DEF Writes
<1> QED BY <1>1, <1>2, <1>3

\* A piece that is put on a connection.
LEMMA PieceIs ==
  ASSUME NEW w \in Writers, NEW part, NEW m
  PROVE  Piece(w, part, m).by = w /\ Piece(w, part, m).part = part /\ Piece(w, part, m).msg = m
  BY DEF Piece

LEMMA PutsPiece ==
  ASSUME TypeInv, NEW w \in Writers, WriteMessage(w), NEW k \in Clis
  PROVE  \/ /\ pipe'[k] = pipe[k]
            /\ pen[w].to # k \/ ~Alive(k) \/ k \in garbled
         \/ /\ pen[w].to = k /\ Alive(k) /\ k \notin garbled
            /\ Len(pipe[k]) \in Nat
            /\ Len(pipe'[k]) = Len(pipe[k]) + 1
            /\ \A i \in 1..Len(pipe[k]) : pipe'[k][i] = pipe[k][i]
            /\ pipe'[k][Len(pipe[k]) + 1].by = w
            /\ pipe'[k][Len(pipe[k]) + 1].part = pen[w].part
            /\ pipe'[k][Len(pipe[k]) + 1].msg = pen[w].msg
<1>1. CASE pipe'[k] = pipe[k] /\ (pen[w].to # k \/ ~Alive(k) \/ k \in garbled)
  BY <1>1
<1>2. CASE pen[w].to # k \/ ~Alive(k) \/ k \in garbled
  <2>1. pipe'[k] = pipe[k]
    BY <1>2 DEF WriteMessage, TypeInv, Wires
  <2> QED BY <1>2, <2>1
<1>3. CASE pen[w].to = k /\ Alive(k) /\ k \notin garbled
  <2>1. PICK e : e = Piece(w, pen[w].part, pen[w].msg)
    OBVIOUS
  <2>2. e.by = w /\ e.part = pen[w].part /\ e.msg = pen[w].msg
    BY <2>1, PieceIs
  <2>3. e \in Pieces
    BY <1>3, <2>1, Puts
  <2>4. pipe[k] \in Seq(Pieces)
    BY DEF TypeInv, Wires
  <2>5. pipe'[k] = Append(pipe[k], e)
    BY <1>3, <2>1 DEF WriteMessage, TypeInv, Wires
  <2>6. /\ Len(pipe[k]) \in Nat
        /\ Len(pipe'[k]) = Len(pipe[k]) + 1
        /\ \A i \in 1..Len(pipe[k]) : pipe'[k][i] = pipe[k][i]
        /\ pipe'[k][Len(pipe[k]) + 1] = e
    BY <2>3, <2>4, <2>5
  <2> QED BY <1>3, <2>2, <2>6
<1> QED BY <1>2, <1>3

LEMMA PutsBodies ==
  ASSUME TypeInv, NEW w \in Writers, WriteMessage(w), NEW k \in Clis, Alive(k), NEW kind
  PROVE  Bodies(k, kind)' = IF k \notin garbled /\ pen[w].part = "body" /\ w \in Writes(k, kind)
                            THEN Bodies(k, kind) \cup {Len(pipe[k]) + 1} ELSE Bodies(k, kind)
<1>1. CASE pipe'[k] = pipe[k] /\ (pen[w].to # k \/ k \in garbled)
  BY <1>1 DEF Bodies, Writes
<1>2. CASE /\ pen[w].to = k /\ k \notin garbled
           /\ Len(pipe[k]) \in Nat
           /\ Len(pipe'[k]) = Len(pipe[k]) + 1
           /\ \A i \in 1..Len(pipe[k]) : pipe'[k][i] = pipe[k][i]
           /\ pipe'[k][Len(pipe[k]) + 1].part = pen[w].part
           /\ pipe'[k][Len(pipe[k]) + 1].msg = pen[w].msg
  <2>1. 1..Len(pipe'[k]) = 1..Len(pipe[k]) \cup {Len(pipe[k]) + 1}
    BY <1>2
  <2>2. w \in Writes(k, kind) <=> pen[w].msg.kind = kind
    BY <1>2 DEF Writes
  <2>3. \A i \in 1..Len(pipe[k]) : pipe'[k][i].part = pipe[k][i].part /\ pipe'[k][i].msg = pipe[k][i].msg
    BY <1>2
  <2> DEFINE Is(i) == pipe[k][i].part = "body" /\ pipe[k][i].msg.kind = kind
  <2> PICK n \in Nat : n = Len(pipe[k])
    BY <1>2
  <2>4. Bodies(k, kind) = {i \in 1..n : Is(i)} /\ Bodies(k, kind)' = {i \in 1..n \cup {n + 1} : Is(i)'}
    BY <2>1 DEF Bodies
  <2>5. (\A i \in 1..n : Is(i)' <=> Is(i)) /\ (Is(n + 1)' <=> pen[w].part = "body" /\ pen[w].msg.kind = kind)
    BY <1>2, <2>3
  <2> HIDE DEF Is
  <2>6. Bodies(k, kind)' = IF pen[w].part = "body" /\ pen[w].msg.kind = kind
                           THEN Bodies(k, kind) \cup {n + 1} ELSE Bodies(k, kind)
    BY <2>4, <2>5
  <2> QED BY <1>2, <2>2, <2>6
<1> QED BY <1>1, <1>2, PutsPiece

LEMMA WriteMessageInStep ==
  ASSUME TypeInv, InStep, NEW w \in Writers, WriteMessage(w)
  PROVE  InStep'
<1>1. UNCHANGED <<cli, garbled>> /\ pen[w].part \in {"len", "body"}
  BY DEF WriteMessage, clientVars, Rests, TypeInv, Wires, Targets
<1>2. \A v \in Writers : pen'[v].part = "body" =>
        \/ v # w /\ pen'[v] = pen[v]
        \/ v = w /\ pen[w].part = "len" /\ pen'[w].to = pen[w].to
  <2>1. CASE pen' = [pen EXCEPT ![w] = Resting]
    BY <2>1, RestingIs DEF TypeInv, Wires
  <2>2. CASE pen' = [pen EXCEPT ![w] = Writing("body", pen[w].to, pen[w].msg)] /\ pen[w].part = "len"
    <3>1. Writing("body", pen[w].to, pen[w].msg).to = pen[w].to
      BY WritingIs
    <3> QED BY <2>2, <3>1 DEF TypeInv, Wires
  <2> QED BY <2>1, <2>2 DEF WriteMessage
<1>3. ASSUME NEW k \in Clis, pipe'[k] = pipe[k], pen[w].to # k \/ ~Alive(k) \/ k \in garbled
      PROVE  /\ k \in garbled => pipe'[k] = <<>>
             /\ \A i \in 1..Len(pipe'[k]) : (pipe[k][i].part = "body" => Follows(k, pipe[k][i].by, i))'
             /\ Alive(k) /\ k \notin garbled =>
                  \A v \in Writers : pen'[v].to = k /\ pen'[v].part = "body" => Follows(k, v, Len(pipe[k]) + 1)'
  <2>1. ASSUME NEW i \in 1..Len(pipe[k]), pipe[k][i].part = "body"
        PROVE  Follows(k, pipe[k][i].by, i)'
    BY <1>3, <2>1 DEF Follows, InStep
  <2>2. ASSUME Alive(k), k \notin garbled, NEW v \in Writers, pen'[v].to = k, pen'[v].part = "body"
        PROVE  Follows(k, v, Len(pipe[k]) + 1)'
    <3>1. pen[v].to = k /\ pen[v].part = "body"
      BY <1>2, <1>3, <2>2
    <3>2. Follows(k, v, Len(pipe[k]) + 1)
      BY <2>2, <3>1 DEF InStep
    <3> QED BY <1>3, <3>2 DEF Follows
  <2> QED BY <1>3, <2>1, <2>2 DEF InStep
<1>4. ASSUME NEW k \in Clis, pen[w].to = k, Alive(k), k \notin garbled, NEW n \in Nat, n = Len(pipe[k]),
             Len(pipe'[k]) = n + 1, \A i \in 1..n : pipe'[k][i] = pipe[k][i],
             pipe'[k][n + 1].by = w, pipe'[k][n + 1].part = pen[w].part
      PROVE  /\ \A i \in 1..(n + 1) : (pipe[k][i].part = "body" => Follows(k, pipe[k][i].by, i))'
             /\ \A v \in Writers : pen'[v].to = k /\ pen'[v].part = "body" => Follows(k, v, n + 2)'
  <2>1. ASSUME NEW v, NEW i \in 1..(n + 1), Follows(k, v, i)
        PROVE  Follows(k, v, i)'
    <3>1. PICK j \in 1..(i - 1) : /\ pipe[k][j].by = v /\ pipe[k][j].part = "len"
                                  /\ \A m \in (j + 1)..(i - 1) : pipe[k][m].by # v
      BY <2>1 DEF Follows
    <3>2. j \in 1..n /\ \A m \in (j + 1)..(i - 1) : m \in 1..n
      OBVIOUS
    <3>3. /\ pipe'[k][j].by = v /\ pipe'[k][j].part = "len"
          /\ \A m \in (j + 1)..(i - 1) : pipe'[k][m].by # v
      BY <1>4, <3>1, <3>2
    <3> QED BY <3>3 DEF Follows
  <2>2. ASSUME NEW i \in 1..(n + 1), pipe'[k][i].part = "body", NEW v, v = pipe'[k][i].by
        PROVE  Follows(k, v, i)
    <3>1. CASE i \in 1..n
      BY <1>4, <2>2, <3>1 DEF InStep
    <3>2. CASE i = n + 1
      BY <1>4, <2>2, <3>2 DEF InStep
    <3> QED BY <3>1, <3>2
  <2>3. ASSUME NEW i \in 1..(n + 1), pipe'[k][i].part = "body"
        PROVE  Follows(k, pipe[k][i].by, i)'
    BY <2>1, <2>2, <2>3
  <2>4. ASSUME NEW v \in Writers, pen'[v].to = k, pen'[v].part = "body"
        PROVE  Follows(k, v, n + 2)'
    <3>1. CASE v = w
      <4>1. pipe'[k][n + 1].part = "len"
        BY <1>2, <1>4, <2>4, <3>1
      <4>2. n + 1 \in 1..((n + 2) - 1) /\ ((n + 1) + 1)..((n + 2) - 1) = {}
        OBVIOUS
      <4> QED BY <1>4, <3>1, <4>1, <4>2 DEF Follows
    <3>2. CASE v # w
      <4>1. Follows(k, v, n + 1)
        BY <1>2, <1>4, <2>4, <3>2 DEF InStep
      <4>2. PICK j \in 1..n : /\ pipe[k][j].by = v /\ pipe[k][j].part = "len"
                              /\ \A m \in (j + 1)..n : pipe[k][m].by # v
        BY <4>1 DEF Follows
      <4>3. pipe'[k][j].by = v /\ pipe'[k][j].part = "len"
        BY <1>4, <4>2
      <4>4. \A m \in (j + 1)..(n + 1) : pipe'[k][m].by # v
        BY <1>4, <3>2, <4>2
      <4>5. j \in 1..((n + 2) - 1) /\ (n + 2) - 1 = n + 1
        OBVIOUS
      <4> QED BY <4>3, <4>4, <4>5 DEF Follows
    <3> QED BY <3>1, <3>2
  <2> QED BY <2>3, <2>4
<1>5. ASSUME NEW k \in Clis
      PROVE  /\ k \in garbled => pipe'[k] = <<>>
             /\ \A i \in 1..Len(pipe'[k]) : (pipe[k][i].part = "body" => Follows(k, pipe[k][i].by, i))'
             /\ Alive(k) /\ k \notin garbled =>
                  \A v \in Writers : pen'[v].to = k /\ pen'[v].part = "body" => Follows(k, v, Len(pipe[k]) + 1)'
  <2>1. CASE pipe'[k] = pipe[k] /\ (pen[w].to # k \/ ~Alive(k) \/ k \in garbled)
    BY <1>3, <2>1
  <2>2. CASE ~(pipe'[k] = pipe[k] /\ (pen[w].to # k \/ ~Alive(k) \/ k \in garbled))
    <3>1. PICK n \in Nat : n = Len(pipe[k]) /\ Len(pipe'[k]) = n + 1
      BY <2>2, PutsPiece
    <3>2. /\ pen[w].to = k /\ Alive(k) /\ k \notin garbled
          /\ \A i \in 1..n : pipe'[k][i] = pipe[k][i]
          /\ pipe'[k][n + 1].by = w /\ pipe'[k][n + 1].part = pen[w].part
      BY <2>2, <3>1, PutsPiece
    <3>3. (n + 1) + 1 = n + 2
      OBVIOUS
    <3> QED BY <1>4, <3>1, <3>2, <3>3
  <2> QED BY <2>1, <2>2
<1> QED BY <1>1, <1>5 DEF InStep, Alive

LEMMA PlacesAre ==
  ASSUME TypeInv, NEW k \in Clis, NEW kind
  PROVE  /\ Len(pipe[k]) \in Nat /\ Bodies(k, kind) \subseteq 1..Len(pipe[k])
         /\ Len(log[k]) \in Nat /\ Logs(k, kind) \subseteq 1..Len(log[k])
<1>1. pipe[k] \in Seq(Pieces) /\ log[k] \in Seq(Messages)
  BY DEF TypeInv, Wires, Clients
<1> QED BY <1>1 DEF Bodies, Logs

LEMMA WriteMessageFlow ==
  ASSUME TypeInv, NEW w \in Writers, WriteMessage(w), NEW k \in Clis, Alive(k), Once(k), Before(k)
  PROVE  Once(k)' /\ Before(k)' /\ Moves(k)
<1>1. UNCHANGED <<log, listener, bar, garbled>>
  BY DEF WriteMessage, clientVars
<1>2. Logs(k, "total")' = Logs(k, "total") /\ Logs(k, "progress")' = Logs(k, "progress")
  BY <1>1 DEF Logs
<1>3. DEFINE n == Len(pipe[k]) + 1
             arrives(kind) == k \notin garbled /\ pen[w].part = "body" /\ w \in Writes(k, kind)
<1>4. /\ Bodies(k, "total")' = IF arrives("total") THEN Bodies(k, "total") \cup {n} ELSE Bodies(k, "total")
      /\ Bodies(k, "progress")' =
           IF arrives("progress") THEN Bodies(k, "progress") \cup {n} ELSE Bodies(k, "progress")
  BY PutsBodies
<1>5. \A kind \in {"total", "progress"} : w \in Writes(k, kind) => pen[w].to = k /\ pen[w].msg.kind = kind
  BY DEF Writes
<1>6. pen[w].part \in {"len", "body"}
  BY DEF WriteMessage, Rests, TypeInv, Wires, Targets
<1>7. /\ Writes(k, "total")' = IF pen[w].part = "body" /\ w \in Writes(k, "total")
                               THEN Writes(k, "total") \ {w} ELSE Writes(k, "total")
      /\ Writes(k, "progress")' \subseteq Writes(k, "progress")
  BY <1>5, PutsWrites
<1>8. CASE arrives("total")
  <2>1. ~Sent(k) /\ Writes(k, "total") = {w}
    BY <1>8 DEF Once
  <2>2. /\ Bodies(k, "total") = {} /\ Bodies(k, "progress") = {} /\ Logs(k, "total") = {}
        /\ Logs(k, "progress") = {} /\ ~Taken(k)
    BY <2>1 DEF Before, Sent, Logged
  <2>3. ~arrives("progress")
    BY <1>5, <1>8
  <2>4. /\ Bodies(k, "total")' = {n} /\ Bodies(k, "progress")' = {} /\ Logs(k, "total")' = {}
        /\ Logs(k, "progress")' = {} /\ Writes(k, "total")' = {}
    BY <1>2, <1>4, <1>7, <1>8, <2>1, <2>2, <2>3
  <2>5. ~Taken(k)' /\ ~Logged(k)' /\ Sent(k)'
    BY <1>1, <2>2, <2>4 DEF Taken, Logged, Sent
  <2>6. Once(k)'
    BY <1>1, <2>4, <2>5 DEF Once
  <2>7. Before(k)'
    BY <2>4, <2>5 DEF Before
  <2> QED BY <1>1, <2>1, <2>4, <2>5, <2>6, <2>7 DEF Moves
<1>9. CASE arrives("progress") /\ ~arrives("total")
  <2>1. Sent(k)
    BY <1>9 DEF Before
  <2>2. /\ Bodies(k, "total")' = Bodies(k, "total") /\ Bodies(k, "progress")' = Bodies(k, "progress") \cup {n}
        /\ Writes(k, "total")' = Writes(k, "total")
    BY <1>4, <1>5, <1>7, <1>9
  <2>3. /\ Taken(k)' <=> Taken(k)
        /\ Logged(k)' <=> Logged(k)
        /\ Sent(k)' <=> Sent(k)
    BY <1>1, <1>2, <2>2 DEF Taken, Logged, Sent
  <2>4. Once(k)'
    BY <1>1, <1>2, <2>2, <2>3 DEF Once
  <2>5. \A i \in Bodies(k, "progress")' : Logged(k) \/ \E j \in Bodies(k, "total") : j < i
    <3>1. \A j \in Bodies(k, "total") : j < n
      BY PlacesAre
    <3> QED BY <2>1, <2>2, <3>1 DEF Before, Sent
  <2>6. Before(k)'
    BY <1>1, <1>2, <1>7, <2>1, <2>2, <2>3, <2>5 DEF Before
  <2> QED BY <1>1, <2>2, <2>3, <2>4, <2>6 DEF Moves
<1>10. CASE ~arrives("progress") /\ ~arrives("total")
  <2>1. Writes(k, "total")' = Writes(k, "total") \/ k \in garbled
    BY <1>7, <1>10
  <2> QED BY <1>1, <1>2, <1>4, <1>7, <1>10, <2>1, FlowKept
<1> QED BY <1>8, <1>9, <1>10

\* A client that ends no longer follows anything; the others are not touched.
LEMMA EndsInStep ==
  ASSUME TypeInv, InStep, NEW k \in Clis, NEW st \in {"success", "exited"}, Ends(k, st), UNCHANGED pen
  PROVE  InStep' /\ \A i \in Clis : Alive(i)' => i # k /\ Alive(i)
<1>1. /\ cli' = [cli EXCEPT ![k] = st] /\ pipe' = [pipe EXCEPT ![k] = <<>>] /\ garbled' = garbled \ {k}
  BY DEF Ends
<1>2. pipe'[k] = <<>> /\ ~Alive(k)' /\ \A i \in Clis : i # k => pipe'[i] = pipe[i] /\ cli'[i] = cli[i]
  BY <1>1 DEF Alive, TypeInv, Wires, Clients
<1>3. \A i \in Clis : i \in garbled' => pipe'[i] = <<>>
  BY <1>1, <1>2 DEF InStep
<1>4. ASSUME NEW i \in Clis, NEW j \in 1..Len(pipe'[i]), pipe'[i][j].part = "body"
      PROVE  Follows(i, pipe[i][j].by, j)'
  <2>1. pipe'[i] = pipe[i]
    BY <1>2, <1>4
  <2>2. Follows(i, pipe[i][j].by, j)
    BY <1>4, <2>1 DEF InStep
  <2> QED BY <2>1, <2>2 DEF Follows
<1>5. ASSUME NEW i \in Clis, Alive(i)', i \notin garbled', NEW w \in Writers, pen[w].to = i, pen[w].part = "body"
      PROVE  Follows(i, w, Len(pipe[i]) + 1)'
  <2>1. i # k /\ Alive(i) /\ i \notin garbled /\ pipe'[i] = pipe[i]
    BY <1>1, <1>2, <1>5 DEF Alive
  <2>2. Follows(i, w, Len(pipe[i]) + 1)
    BY <1>5, <2>1 DEF InStep
  <2> QED BY <2>1, <2>2 DEF Follows
<1>6. \A i \in Clis : Alive(i)' => i # k /\ Alive(i)
  BY <1>2 DEF Alive
<1>7. InStep'
  BY <1>3, <1>4, <1>5 DEF InStep
<1> QED BY <1>6, <1>7

LEMMA EndsFlow ==
  ASSUME TypeInv, NEW k \in Clis, NEW st, Ends(k, st), UNCHANGED pen,
         NEW i \in Clis, i # k, Once(i), Before(i)
  PROVE  Once(i)' /\ Before(i)' /\ Moves(i)
<1>1. pipe'[i] = pipe[i] /\ log'[i] = log[i] /\ listener'[i] = listener[i] /\ bar'[i] = bar[i]
  BY DEF Ends, TypeInv, Wires, Clients
<1>2. i \in garbled => i \in garbled'
  BY DEF Ends
<1> QED BY <1>1, <1>2, FlowStays

LEMMA StartInStep ==
  ASSUME TypeInv, NothingYet, InStep, NEW k \in Clis, Start(k)
  PROVE  InStep' /\ \A i \in quiet : Alive(i)' => Alive(i)
<1>1. UNCHANGED <<pen, pipe, garbled, quiet>> /\ cli[k] = "new" /\ \A i \in Clis : i # k => cli'[i] = cli[i]
  BY DEF Start, daemonVars, TypeInv, Clients
<1>2. k \notin accepted
  BY <1>1 DEF NothingYet
<1>3. \A w \in Writers : pen[w].part = "body" => pen[w].to # k
  BY <1>2, RestingIs DEF TypeInv, Wires, Targets
<1>4. ASSUME NEW i \in Clis, NEW j \in 1..Len(pipe[i]), pipe[i][j].part = "body"
      PROVE  Follows(i, pipe[i][j].by, j)'
  BY <1>1, <1>4 DEF InStep, Follows
<1>5. ASSUME NEW i \in Clis, Alive(i)', i \notin garbled, NEW w \in Writers, pen[w].to = i, pen[w].part = "body"
      PROVE  Follows(i, w, Len(pipe[i]) + 1)'
  BY <1>1, <1>3, <1>5 DEF InStep, Follows, Alive
<1>6. InStep'
  BY <1>1, <1>4, <1>5 DEF InStep
<1>7. \A i \in quiet : i \in Clis /\ i # k
  BY <1>2, CliAssumption DEF TypeInv, Daemon, Clis, NoCli
<1> QED BY <1>1, <1>6, <1>7 DEF Alive

\* The step of a client that leaves its connection alone.
LEMMA StepStays ==
  ASSUME InStep, UNCHANGED <<pen, pipe, cli, garbled>>
  PROVE  InStep'
<1>1. \A k \in Clis : k \in garbled' => pipe'[k] = <<>>
  BY DEF InStep
<1>2. ASSUME NEW i \in Clis, NEW j \in 1..Len(pipe[i]), pipe[i][j].part = "body"
      PROVE  Follows(i, pipe[i][j].by, j)'
  BY <1>2 DEF InStep, Follows
<1>3. ASSUME NEW i \in Clis, Alive(i), i \notin garbled, NEW w \in Writers, pen[w].to = i, pen[w].part = "body"
      PROVE  Follows(i, w, Len(pipe[i]) + 1)'
  BY <1>3 DEF InStep, Follows
<1> QED BY <1>1, <1>2, <1>3 DEF InStep, Alive

\* What listen leaves of a connection: nothing, or all but a length and its body.
LEMMA Heard ==
  ASSUME TypeInv, InStep, NEW k \in Clis, Listen(k)
  PROVE  /\ Alive(k) /\ k \notin garbled
         /\ Len(pipe[k]) \in Nat /\ Len(pipe[k]) >= 2
         /\ pipe[k][1].part = "len"
         /\ \/ /\ pipe[k][2].part = "body" /\ pipe[k][2].by = pipe[k][1].by
               /\ log'[k] = Append(log[k], pipe[k][2].msg) /\ pipe[k][2].msg \in Messages
               /\ garbled' = garbled
               /\ Len(pipe'[k]) = Len(pipe[k]) - 2
               /\ \A i \in 1..(Len(pipe[k]) - 2) : pipe'[k][i] = pipe[k][i + 2]
            \/ /\ garbled' = garbled \cup {k} /\ pipe'[k] = <<>> /\ log' = log
<1>1. Alive(k) /\ k \notin garbled /\ Len(pipe[k]) >= 2 /\ pipe[k] \in Seq(Pieces)
  BY DEF Listen, TypeInv, Wires
<1>2. Len(pipe[k]) \in Nat /\ pipe[k][1] \in Pieces /\ pipe[k][2] \in Pieces
  BY <1>1
<1>3. pipe[k][1].part = "len"
  <2>1. ~Follows(k, pipe[k][1].by, 1)
    BY DEF Follows
  <2>2. pipe[k][1].part # "body"
    BY <1>1, <1>2, <2>1 DEF InStep
  <2> QED BY <1>2, <2>2 DEF Pieces
<1>4. CASE /\ pipe[k][2].part = "body" /\ pipe[k][2].by = pipe[k][1].by
           /\ log' = [log EXCEPT ![k] = Append(@, pipe[k][2].msg)]
           /\ pipe' = [pipe EXCEPT ![k] = SubSeq(@, 3, Len(@))]
           /\ UNCHANGED garbled
  <2>1. log'[k] = Append(log[k], pipe[k][2].msg) /\ pipe'[k] = SubSeq(pipe[k], 3, Len(pipe[k]))
    BY <1>4 DEF TypeInv, Wires, Clients
  <2>2. /\ Len(SubSeq(pipe[k], 3, Len(pipe[k]))) = Len(pipe[k]) - 2
        /\ \A i \in 1..(Len(pipe[k]) - 2) : SubSeq(pipe[k], 3, Len(pipe[k]))[i] = pipe[k][i + 2]
    BY <1>1, PairTaken
  <2>3. pipe[k][2].msg \in Messages
    BY <1>2 DEF Pieces
  <2> QED BY <1>1, <1>2, <1>3, <1>4, <2>1, <2>2, <2>3
<1>5. CASE garbled' = garbled \cup {k} /\ pipe' = [pipe EXCEPT ![k] = <<>>] /\ UNCHANGED log
  <2>1. pipe'[k] = <<>>
    BY <1>5 DEF TypeInv, Wires
  <2> QED BY <1>1, <1>2, <1>3, <1>5, <2>1
<1> QED BY <1>4, <1>5 DEF Listen

LEMMA ListenInStep ==
  ASSUME TypeInv, InStep, NEW k \in Clis, Listen(k)
  PROVE  InStep'
<1>1. UNCHANGED <<pen, cli>> /\ \A i \in Clis : i # k => pipe'[i] = pipe[i] /\ (i \in garbled' <=> i \in garbled)
  BY DEF Listen, TypeInv, Wires
<1>2. PICK n \in Nat : n = Len(pipe[k]) /\ n >= 2
  BY Heard
<1>3. CASE garbled' = garbled \cup {k} /\ pipe'[k] = <<>>
  <2>1. \A i \in Clis : i \in garbled' => pipe'[i] = <<>>
    BY <1>1, <1>3 DEF InStep
  <2>2. ASSUME NEW i \in Clis, NEW j \in 1..Len(pipe'[i]), pipe'[i][j].part = "body"
        PROVE  Follows(i, pipe[i][j].by, j)'
    <3>1. i # k
      BY <1>3, <2>2
    <3>2. pipe'[i] = pipe[i]
      BY <1>1, <3>1
    <3>3. Follows(i, pipe[i][j].by, j)
      BY <2>2, <3>2 DEF InStep
    <3> QED BY <3>2, <3>3 DEF Follows
  <2>3. ASSUME NEW i \in Clis, Alive(i), i \notin garbled', NEW w \in Writers, pen[w].to = i, pen[w].part = "body"
        PROVE  Follows(i, w, Len(pipe[i]) + 1)'
    <3>1. i # k /\ i \notin garbled /\ pipe'[i] = pipe[i]
      BY <1>1, <1>3, <2>3
    <3>2. Follows(i, w, Len(pipe[i]) + 1)
      BY <2>3, <3>1 DEF InStep
    <3> QED BY <3>1, <3>2 DEF Follows
  <2> QED BY <1>1, <2>1, <2>2, <2>3 DEF InStep, Alive
<1>4. CASE /\ garbled' = garbled /\ k \notin garbled /\ Alive(k)
           /\ pipe[k][1].part = "len" /\ pipe[k][2].part = "body" /\ pipe[k][2].by = pipe[k][1].by
           /\ Len(pipe'[k]) = n - 2
           /\ \A i \in 1..(n - 2) : pipe'[k][i] = pipe[k][i + 2]
  <2>1. ASSUME NEW v, NEW i \in 1..(n - 1), Follows(k, v, i + 2)
        PROVE  Follows(k, v, i)'
    <3>1. PICK j \in 1..(i + 1) : /\ pipe[k][j].by = v /\ pipe[k][j].part = "len"
                                  /\ \A m \in (j + 1)..(i + 1) : pipe[k][m].by # v
      <4>1. (i + 2) - 1 = i + 1
        OBVIOUS
      <4> QED BY <2>1, <4>1 DEF Follows
    <3>2. j # 2
      BY <1>4, <3>1
    <3>3. j # 1
      <4>1. j = 1 => 2 \in (j + 1)..(i + 1)
        OBVIOUS
      <4> QED BY <1>4, <3>1, <4>1
    <3>4. PICK h \in 1..(i - 1) : j = h + 2
      <4>1. j - 2 \in 1..(i - 1) /\ j = (j - 2) + 2
        BY <3>2, <3>3
      <4> QED BY <4>1
    <3>5. h \in 1..(n - 2) /\ \A m \in (h + 1)..(i - 1) : m \in 1..(n - 2) /\ m + 2 \in (j + 1)..(i + 1)
      BY <3>4
    <3>6. /\ pipe'[k][h].by = v /\ pipe'[k][h].part = "len"
          /\ \A m \in (h + 1)..(i - 1) : pipe'[k][m].by # v
      BY <1>4, <3>1, <3>4, <3>5
    <3> QED BY <3>6 DEF Follows
  <2>2. \A i \in Clis : i \in garbled' => pipe'[i] = <<>>
    BY <1>1, <1>4 DEF InStep
  <2>3. ASSUME NEW i \in Clis, NEW j \in 1..Len(pipe'[i]), pipe'[i][j].part = "body"
        PROVE  Follows(i, pipe[i][j].by, j)'
    <3>1. CASE i # k
      <4>1. pipe'[i] = pipe[i]
        BY <1>1, <3>1
      <4>2. Follows(i, pipe[i][j].by, j)
        BY <2>3, <4>1 DEF InStep
      <4> QED BY <4>1, <4>2 DEF Follows
    <3>2. CASE i = k
      <4>1. j \in 1..(n - 1) /\ j + 2 \in 1..n /\ pipe'[k][j] = pipe[k][j + 2]
        BY <1>2, <1>4, <2>3, <3>2
      <4>2. Follows(k, pipe[k][j + 2].by, j + 2)
        BY <1>2, <2>3, <3>2, <4>1 DEF InStep
      <4>3. PICK v : v = pipe[k][j + 2].by
        OBVIOUS
      <4>4. Follows(k, v, j)'
        BY <2>1, <4>1, <4>2, <4>3
      <4> QED BY <3>2, <4>1, <4>3, <4>4
    <3> QED BY <3>1, <3>2
  <2>4. ASSUME NEW i \in Clis, Alive(i), i \notin garbled', NEW w \in Writers, pen[w].to = i, pen[w].part = "body"
        PROVE  Follows(i, w, Len(pipe[i]) + 1)'
    <3>1. Follows(i, w, Len(pipe[i]) + 1)
      BY <1>1, <1>4, <2>4 DEF InStep
    <3>2. CASE i # k
      BY <1>1, <3>1, <3>2 DEF Follows
    <3>3. CASE i = k
      <4>1. n - 1 \in 1..(n - 1) /\ (n - 1) + 2 = n + 1 /\ (n - 2) + 1 = n - 1
        BY <1>2
      <4>2. Follows(k, w, n - 1)'
        BY <1>2, <2>1, <3>1, <3>3, <4>1
      <4> QED BY <1>4, <3>3, <4>1, <4>2
    <3> QED BY <3>2, <3>3
  <2> QED BY <1>1, <2>2, <2>3, <2>4 DEF InStep, Alive
<1> QED BY <1>2, <1>3, <1>4, Heard

LEMMA ListenFlow ==
  ASSUME TypeInv, InStep, NEW k \in Clis, Listen(k), Once(k), Before(k)
  PROVE  Once(k)' /\ Before(k)' /\ Moves(k)
<1>1. UNCHANGED <<pen, listener, bar>>
  BY DEF Listen
<1>2. Writes(k, "total")' = Writes(k, "total") /\ Writes(k, "progress")' = Writes(k, "progress")
  BY <1>1, PensKept
<1>3. Taken(k)' <=> Taken(k)
  BY <1>1 DEF Taken
<1>4. CASE garbled' = garbled \cup {k} /\ pipe'[k] = <<>> /\ log' = log
  <2>1. /\ Bodies(k, "total")' = {} /\ Bodies(k, "progress")' = {}
        /\ Logs(k, "total")' = Logs(k, "total") /\ Logs(k, "progress")' = Logs(k, "progress")
    BY <1>4 DEF Bodies, Logs
  <2>2. (Logged(k)' <=> Logged(k)) /\ (Sent(k)' <=> Logged(k)) /\ k \in garbled'
    BY <1>3, <1>4, <2>1 DEF Logged, Sent
  <2>3. Once(k)'
    BY <1>1, <1>2, <1>3, <2>1, <2>2 DEF Once, Sent
  <2>4. Before(k)'
    BY <1>2, <1>3, <2>1, <2>2 DEF Before
  <2> QED BY <1>2, <2>2, <2>3, <2>4 DEF Moves, Sent
<1>5. CASE /\ Len(pipe[k]) \in Nat /\ Len(pipe[k]) >= 2
           /\ pipe[k][1].part = "len" /\ pipe[k][2].part = "body"
           /\ log'[k] = Append(log[k], pipe[k][2].msg) /\ pipe[k][2].msg \in Messages
           /\ garbled' = garbled
           /\ Len(pipe'[k]) = Len(pipe[k]) - 2
           /\ \A i \in 1..(Len(pipe[k]) - 2) : pipe'[k][i] = pipe[k][i + 2]
  <2>1. PICK n \in Nat : n = Len(log[k]) + 1
    BY PlacesAre
  <2>2. /\ Len(log'[k]) = n /\ log'[k][n] = pipe[k][2].msg
        /\ \A i \in 1..(n - 1) : log'[k][i] = log[k][i]
    <3>1. log[k] \in Seq(Messages)
      BY DEF TypeInv, Clients
    <3> QED BY <1>5, <2>1, <3>1
  <2>3. ASSUME NEW kind
        PROVE  /\ \A i \in Bodies(k, kind) : i \in Nat /\ i >= 2 /\ (i = 2 \/ i - 2 \in Bodies(k, kind)')
               /\ \A i \in Bodies(k, kind)' : i \in Nat /\ i >= 1 /\ i + 2 \in Bodies(k, kind)
    <3>1. PICK m \in Nat : m + 2 = Len(pipe[k]) /\ m = Len(pipe'[k])
      BY <1>5
    <3>2. ASSUME NEW i \in Bodies(k, kind)
          PROVE  i \in Nat /\ i >= 2 /\ (i = 2 \/ i - 2 \in Bodies(k, kind)')
      <4>1. i \in 1..(m + 2) /\ pipe[k][i].part = "body" /\ pipe[k][i].msg.kind = kind /\ i # 1
        BY <1>5, <3>1 DEF Bodies
      <4>2. CASE i # 2
        <5>1. i - 2 \in 1..m /\ pipe'[k][i - 2] = pipe[k][i]
          BY <1>5, <3>1, <4>1, <4>2
        <5> QED BY <3>1, <4>1, <5>1 DEF Bodies
      <4> QED BY <4>1, <4>2
    <3>3. ASSUME NEW i \in Bodies(k, kind)' PROVE i \in Nat /\ i >= 1 /\ i + 2 \in Bodies(k, kind)
      <4>1. i \in 1..m /\ pipe'[k][i].part = "body" /\ pipe'[k][i].msg.kind = kind
        BY <3>1 DEF Bodies
      <4>2. pipe'[k][i] = pipe[k][i + 2] /\ i + 2 \in 1..(m + 2)
        BY <1>5, <3>1, <4>1
      <4> QED BY <3>1, <4>1, <4>2 DEF Bodies
    <3> QED BY <3>2, <3>3
  <2>4. ASSUME NEW kind
        PROVE  /\ Logs(k, kind)' = IF 2 \in Bodies(k, kind) THEN Logs(k, kind) \cup {n} ELSE Logs(k, kind)
               /\ \A i \in Logs(k, kind) : i < n
    <3>1. 2 \in Bodies(k, kind) <=> pipe[k][2].msg.kind = kind
      BY <1>5 DEF Bodies
    <3>2. 1..n = 1..(n - 1) \cup {n} /\ Len(log[k]) = n - 1
      BY <2>1, PlacesAre
    <3> QED BY <2>2, <3>1, <3>2 DEF Logs
  <2>5. (Logged(k) => Logged(k)') /\ (Logged(k)' => Logged(k) \/ 2 \in Bodies(k, "total"))
    BY <1>3, <2>4 DEF Logged
  <2>6. Sent(k)' <=> Sent(k)
    <3>1. ASSUME Bodies(k, "total") # {} PROVE Sent(k)'
      <4>1. PICK i : i \in Bodies(k, "total")
        BY <3>1
      <4>2. CASE i = 2
        BY <2>4, <4>1, <4>2 DEF Sent, Logged
      <4>3. CASE i # 2
        BY <2>3, <4>1, <4>3 DEF Sent
      <4> QED BY <4>2, <4>3
    <3>2. ASSUME Bodies(k, "total")' # {} PROVE Sent(k)
      <4>1. PICK i : i \in Bodies(k, "total")'
        BY <3>2
      <4> QED BY <2>3, <4>1 DEF Sent
    <3> QED BY <2>5, <3>1, <3>2 DEF Sent
  <2>7. Once(k)'
    <3>1. Taken(k)' => Logs(k, "total")' = {}
      BY <1>3, <2>4 DEF Once, Logged
    <3>2. \A i, j \in Logs(k, "total")' : i = j
      BY <2>4 DEF Once, Logged
    <3>3. \A i, j \in Bodies(k, "total")' : i = j
      BY <2>3 DEF Once
    <3>4. ASSUME Logged(k)', NEW i \in Bodies(k, "total")' PROVE FALSE
      <4>1. i + 2 \in Bodies(k, "total") /\ i \in Nat /\ i >= 1
        BY <2>3
      <4>2. 2 \in Bodies(k, "total")
        BY <2>5, <3>4, <4>1 DEF Once
      <4>3. i + 2 = 2
        BY <4>1, <4>2 DEF Once
      <4> QED BY <4>1, <4>3
    <3> QED BY <1>1, <1>2, <2>6, <3>1, <3>2, <3>3, <3>4 DEF Once
  <2>8. Before(k)'
    <3>1. ASSUME NEW i \in Logs(k, "progress")'
          PROVE  Taken(k) \/ \E j \in Logs(k, "total")' : j < i
      <4>1. CASE i \in Logs(k, "progress")
        BY <2>4, <4>1 DEF Before
      <4>2. CASE i = n /\ 2 \in Bodies(k, "progress")
        <5>1. Logged(k) \/ \E j \in Bodies(k, "total") : j < 2
          BY <4>2 DEF Before
        <5>2. Logged(k)
          BY <2>3, <5>1
        <5> QED BY <2>4, <4>2, <5>2 DEF Logged
      <4> QED BY <2>4, <3>1, <4>1, <4>2
    <3>2. ASSUME NEW i \in Bodies(k, "progress")'
          PROVE  Logged(k)' \/ \E j \in Bodies(k, "total")' : j < i
      <4>1. i \in Nat /\ i + 2 \in Bodies(k, "progress")
        BY <2>3
      <4>2. CASE Logged(k)
        BY <2>5, <4>2
      <4>3. CASE \E j \in Bodies(k, "total") : j < i + 2
        <5>1. PICK j \in Bodies(k, "total") : j < i + 2
          BY <4>3
        <5>2. CASE j = 2
          BY <2>4, <5>1, <5>2 DEF Logged
        <5>3. CASE j # 2
          <6>1. j \in Nat /\ j - 2 \in Bodies(k, "total")' /\ j - 2 < i
            BY <2>3, <4>1, <5>1, <5>3
          <6> QED BY <6>1
        <5> QED BY <5>2, <5>3
      <4> QED BY <4>1, <4>2, <4>3 DEF Before
    <3> QED BY <1>2, <1>3, <1>5, <2>6, <3>1, <3>2 DEF Before
  <2> QED BY <1>2, <1>5, <2>6, <2>7, <2>8 DEF Moves
<1> QED BY <1>4, <1>5, Heard

LEMMA TakeLogFlow ==
  ASSUME TypeInv, NEW k \in Clis, TakeLog(k), Once(k), Before(k)
  PROVE  Once(k)' /\ Before(k)' /\ Moves(k)
<1>1. UNCHANGED <<pen, pipe, bar, garbled>> /\ listener[k] = "range" /\ log[k] # <<>>
  BY DEF TakeLog
<1>2. /\ Writes(k, "total")' = Writes(k, "total") /\ Writes(k, "progress")' = Writes(k, "progress")
      /\ Bodies(k, "total")' = Bodies(k, "total") /\ Bodies(k, "progress")' = Bodies(k, "progress")
  BY <1>1 DEF Writes, Bodies
<1>3. PICK m \in Messages : m = log[k][1] /\ m = Head(log[k]) /\ m.kind # "done"
  BY <1>1, HeadTyped DEF TakeLog, TypeInv
<1>4. /\ log'[k] = Tail(log[k])
      /\ listener'[k] = IF m.kind = "text" THEN "range" ELSE m.kind
  <2>1. log' = [log EXCEPT ![k] = Tail(log[k])]
    BY DEF TakeLog
  <2>2. listener' = [listener EXCEPT ![k] = IF m.kind = "text" THEN "range" ELSE m.kind]
    BY <1>3, KindsAre DEF TakeLog
  <2> QED BY <2>1, <2>2 DEF TypeInv, Clients
<1>5. /\ Len(log[k]) \in Nat /\ 1 \in 1..Len(log[k]) /\ Len(log'[k]) = Len(log[k]) - 1
      /\ \A i \in 1..Len(log'[k]) : log'[k][i] = log[k][i + 1]
  BY <1>1, <1>4, HeadTyped, PlacesAre DEF TypeInv
<1>6. ASSUME NEW kind
      PROVE  /\ \A i \in Logs(k, kind) : i \in Nat /\ i >= 1 /\ (i = 1 \/ i - 1 \in Logs(k, kind)')
             /\ \A i \in Logs(k, kind)' : i \in Nat /\ i >= 1 /\ i + 1 \in Logs(k, kind)
             /\ 1 \in Logs(k, kind) <=> m.kind = kind
  BY <1>3, <1>5 DEF Logs
<1>7. CASE m.kind = "total"
  <2>1. 1 \in Logs(k, "total") /\ Logs(k, "total")' = {}
    <3>1. 1 \in Logs(k, "total")
      BY <1>6, <1>7
    <3>2. ASSUME NEW i \in Logs(k, "total")' PROVE FALSE
      <4>1. i \in Nat /\ i >= 1 /\ i + 1 \in Logs(k, "total")
        BY <1>6
      <4>2. i + 1 = 1
        BY <3>1, <4>1 DEF Once
      <4> QED BY <4>1, <4>2
    <3> QED BY <3>1, <3>2
  <2>2. ~Taken(k) /\ Taken(k)' /\ Logged(k) /\ Logged(k)' /\ Sent(k) /\ Sent(k)'
    BY <1>4, <1>7, <2>1 DEF Once, Taken, Logged, Sent
  <2>3. Once(k)'
    BY <1>1, <1>2, <1>4, <1>7, <2>1, <2>2 DEF Once, Taken
  <2>4. Before(k)'
    BY <1>2, <2>2 DEF Before
  <2> QED BY <1>1, <1>2, <2>2, <2>3, <2>4 DEF Moves
<1>8. CASE m.kind # "total"
  <2>1. ASSUME 1 \in Logs(k, "progress") PROVE bar[k] = "progress"
    <3>1. Taken(k) \/ \E j \in Logs(k, "total") : j < 1
      BY <2>1 DEF Before
    <3> QED BY <1>1, <1>6, <3>1 DEF Taken
  <2>2. m.kind \in {"progress", "text"} /\ (m.kind = "progress" => bar[k] = "progress")
    BY <1>3, <1>6, <1>8, <2>1, KindsAre
  <2>3. Taken(k)' <=> Taken(k)
    BY <1>1, <1>4, <2>2 DEF Taken
  <2>4. (Logs(k, "total")' = {} <=> Logs(k, "total") = {}) /\ \A i, j \in Logs(k, "total")' : i = j
    <3>1. \A i \in Logs(k, "total") : i - 1 \in Logs(k, "total")'
      BY <1>6, <1>8
    <3>2. \A i, j \in Logs(k, "total")' : i = j
      BY <1>6 DEF Once
    <3> QED BY <1>6, <3>1, <3>2
  <2>5. (Logged(k)' <=> Logged(k)) /\ (Sent(k)' <=> Sent(k))
    BY <1>2, <2>3, <2>4 DEF Logged, Sent
  <2>6. Once(k)'
    BY <1>1, <1>2, <1>4, <2>2, <2>3, <2>4, <2>5 DEF Once
  <2>7. ASSUME NEW i \in Logs(k, "progress")'
        PROVE  Taken(k) \/ \E j \in Logs(k, "total")' : j < i
    <3>1. i \in Nat /\ i + 1 \in Logs(k, "progress")
      BY <1>6
    <3>2. CASE \E j \in Logs(k, "total") : j < i + 1
      <4>1. PICK j \in Logs(k, "total") : j < i + 1
        BY <3>2
      <4>2. j \in Nat /\ j - 1 \in Logs(k, "total")' /\ j - 1 < i
        BY <1>6, <1>8, <3>1, <4>1
      <4> QED BY <4>2
    <3> QED BY <3>1, <3>2 DEF Before
  <2>8. Before(k)'
    BY <1>1, <1>2, <2>3, <2>5, <2>7 DEF Before
  <2> QED BY <1>1, <1>2, <2>5, <2>6, <2>8 DEF Moves
<1> QED BY <1>7, <1>8

LEMMA DrawBarFlow ==
  ASSUME TypeInv, NEW k \in Clis, DrawBar(k), Once(k), Before(k)
  PROVE  Once(k)' /\ Before(k)' /\ Moves(k)
<1>1. UNCHANGED <<pen, pipe, log, garbled>> /\ listener'[k] = "range" /\ bar'[k] = "progress" /\ Taken(k)
  BY DEF DrawBar, TypeInv, Clients, Taken
<1>2. /\ Writes(k, "total")' = Writes(k, "total") /\ Writes(k, "progress")' = Writes(k, "progress")
      /\ Bodies(k, "total")' = Bodies(k, "total") /\ Bodies(k, "progress")' = Bodies(k, "progress")
      /\ Logs(k, "total")' = Logs(k, "total") /\ Logs(k, "progress")' = Logs(k, "progress")
  BY <1>1 DEF Writes, Bodies, Logs
<1>3. Taken(k)' /\ Logged(k) /\ Logged(k)' /\ Sent(k) /\ Sent(k)'
  BY <1>1 DEF Taken, Logged, Sent
<1>4. Once(k)'
  BY <1>1, <1>2, <1>3 DEF Once
<1>5. Before(k)'
  BY <1>2, <1>3 DEF Before
<1> QED BY <1>1, <1>2, <1>3, <1>4, <1>5 DEF Moves

-----------------------------------------------------------------------------
(***************************************************************************)
(* The download of a client runs once its total is written                 *)
(***************************************************************************)

LEMMA QuietAre == TypeInv => quiet \subseteq Clis /\ quiet \subseteq accepted /\ pending \subseteq Clis
  BY CliAssumption DEF TypeInv, Daemon, Clis, NoCli

\* A step that begins no total and no job.
LEMMA Flows ==
  ASSUME TypeInv, InOrder, Staged, UNCHANGED <<quiet, cliRouter, want, job>>, pending' \subseteq pending,
         Idle => Idle',
         \A k \in quiet : Alive(k)' => /\ Alive(k)
                                       /\ Once(k) /\ Before(k) => Once(k)' /\ Before(k)' /\ Moves(k)
  PROVE  InOrder' /\ Staged'
<1>1. InOrder'
  BY DEF InOrder
<1>2. ASSUME NEW r \in quiet, r = cliRouter, Alive(r)' PROVE Waits(r)'
  <2>1. Waits(r) /\ Moves(r)
    BY <1>2 DEF Staged, InOrder
  <2>2. NoJob' <=> NoJob
    BY DEF NoJob
  <2>3. r \in pending' /\ want[r] \in Files => Idle' /\ NoJob' /\ ~Sent(r)' /\ Writes(r, "total")' = {}
    BY <2>1, <2>2 DEF Waits, Moves
  <2>4. ~Idle' => Sent(r)' \/ r \in garbled'
    BY <2>1 DEF Waits, Moves
  <2>5. \A j \in Clis : job[j] # NoFile => Sent(r)' \/ r \in garbled' \/ Writes(r, "total")' = {j}
    BY <2>1 DEF Waits, Moves
  <2>6. \A i, j \in Clis : job[i] # NoFile /\ job[j] # NoFile => i = j
    BY <2>1 DEF Waits
  <2>7. ~NoJob' => Idle'
    BY <2>1, <2>2 DEF Waits
  <2> QED BY <2>3, <2>4, <2>5, <2>6, <2>7 DEF Waits
<1>3. Staged'
  BY <1>2 DEF Staged
<1> QED BY <1>1, <1>3

StuckInv == TypeInv /\ NothingYet /\ Honest /\ Alone /\ InStep /\ InOrder /\ Staged

\* A step that leaves the clients and what is on the way to them alone.
LEMMA OthersFlow ==
  ASSUME TypeInv, InStep, InOrder, Staged, UNCHANGED <<quiet, cliRouter, want, job, pen, pipe, clientVars>>,
         pending' \subseteq pending, Idle => Idle'
  PROVE  InStep' /\ InOrder' /\ Staged'
<1>1. UNCHANGED <<cli, garbled, log, listener, bar>>
  BY DEF clientVars
<1>2. InStep'
  BY <1>1, StepStays
<1>3. \A k \in quiet : Alive(k)' => /\ Alive(k)
                                    /\ Once(k) /\ Before(k) => Once(k)' /\ Before(k)' /\ Moves(k)
  BY <1>1, FlowStays, QuietAre DEF Alive
<1> QED BY <1>2, <1>3, Flows

\* A step that writes progress, "done" or a text to the latest client.
LEMMA SaysFlows ==
  ASSUME TypeInv, InStep, InOrder, Staged, NEW w \in Writers, NEW m \in Messages, MessageCLI(w, m),
         m.kind # "total", m.kind = "progress" => ~Idle,
         UNCHANGED <<quiet, cliRouter, want, job, pipe, clientVars>>, pending' \subseteq pending, Idle => Idle'
  PROVE  InStep' /\ InOrder' /\ Staged'
<1>1. UNCHANGED <<cli, garbled, log, listener, bar>>
  BY DEF clientVars
<1>2. InStep'
  BY <1>1, SaysInStep
<1>3. ASSUME NEW k \in quiet, Alive(k)', Once(k), Before(k) PROVE Once(k)' /\ Before(k)' /\ Moves(k)
  <2>1. k \in Clis /\ Alive(k)
    BY <1>1, <1>3, QuietAre DEF Alive
  <2>2. k = cliRouter /\ m.kind = "progress" => Sent(k) \/ k \in garbled
    BY <2>1 DEF Staged, Waits
  <2> QED BY <1>1, <1>3, <2>1, <2>2, SaysFlow
<1>4. \A k \in quiet : Alive(k)' => Alive(k)
  BY <1>1 DEF Alive
<1>5. \A k \in quiet : Alive(k)' => /\ Alive(k)
                                    /\ Once(k) /\ Before(k) => Once(k)' /\ Before(k)' /\ Moves(k)
  BY <1>3, <1>4
<1> QED BY <1>2, <1>5, Flows

LEMMA AcceptFlows ==
  ASSUME StuckInv, TypeInv', NEW k \in Clis, Accept(k)
  PROVE  InStep' /\ InOrder' /\ Staged'
<1>1. /\ accepted = 1..(k - 1) /\ cliRouter' = k /\ quiet' \subseteq quiet \cup {k}
      /\ k \in quiet' => k \in quiet \/ Calm
      /\ UNCHANGED <<job, active, finishing, peerVars, pen, pipe, clientVars>>
  BY DEF Accept
<1>2. UNCHANGED <<due, callback, want, cli, garbled, log, listener, bar>>
  BY <1>1 DEF peerVars, clientVars
<1>3. InStep'
  BY <1>1, <1>2, StepStays DEF StuckInv
<1>4. k \notin accepted /\ k \notin quiet
  BY <1>1, QuietAre, CliAssumption DEF StuckInv, Clis
<1>5. Untouched(k)
  BY <1>4 DEF StuckInv, NothingYet
<1>6. \A kind : Writes(k, kind) = {}
  BY <1>4, RestingIs DEF StuckInv, TypeInv, Wires, Targets, Writes, Clis, NoCli
<1>7. \A kind : Bodies(k, kind) = {} /\ Logs(k, kind) = {}
  BY <1>5 DEF Untouched, Bodies, Logs
<1>8. Once(k) /\ Before(k) /\ ~Sent(k)
  <2>1. ~Taken(k) /\ ~Logged(k) /\ ~Sent(k)
    BY <1>5, <1>7 DEF Untouched, Taken, Logged, Sent
  <2> QED BY <1>5, <1>6, <1>7, <2>1 DEF Untouched, Once, Before
<1>9. \A i \in Clis : Once(i) /\ Before(i) => Once(i)' /\ Before(i)' /\ Moves(i)
  BY <1>1, <1>2, FlowStays
<1>10. InOrder'
  <2> SUFFICES ASSUME NEW i \in quiet', Alive(i)' PROVE Once(i)' /\ Before(i)'
    BY DEF InOrder
  <2>1. i \in Clis /\ Alive(i) /\ Once(i) /\ Before(i)
    BY <1>1, <1>2, <1>8, QuietAre DEF StuckInv, InOrder, Alive
  <2> QED BY <1>9, <2>1
<1>11. Staged'
  <2> SUFFICES ASSUME k \in quiet' PROVE Waits(k)'
    BY <1>1 DEF Staged
  <2>1. Calm
    BY <1>1, <1>4
  <2>2. Idle' /\ NoJob'
    BY <1>1, <1>2, <2>1 DEF Calm, Idle, NoJob
  <2>3. ~Sent(k)' /\ Writes(k, "total")' = {}
    BY <1>6, <1>8, <1>9 DEF Moves
  <2> QED BY <2>2, <2>3 DEF Waits, NoJob
<1> QED BY <1>3, <1>10, <1>11

LEMMA TakeDownloadFlows ==
  ASSUME StuckInv, NEW j \in Clis, NEW k \in Clis, TakeDownload(j, k)
  PROVE  InStep' /\ InOrder' /\ Staged'
<1>1. /\ k \in pending /\ want[k] \in Files /\ pending' = pending \ {k} /\ job' = [job EXCEPT ![j] = want[k]]
      /\ UNCHANGED <<accepted, quiet, cliRouter, active, finishing, peerVars, pipe, clientVars>>
  BY DEF TakeDownload
<1>2. UNCHANGED <<due, callback, want, cli, garbled, log, listener, bar>>
  BY <1>1 DEF peerVars, clientVars
<1>3. PICK m \in Messages : m.kind = "total" /\ MessageCLI(j, m)
  BY <1>1, MessagesAre DEF TakeDownload
<1>4. j \in Writers
  BY DEF Writers
<1>5. InStep'
  BY <1>2, <1>1, <1>3, <1>4, SaysInStep DEF StuckInv
<1>6. ASSUME NEW r \in quiet, r = cliRouter, Alive(r)
      PROVE  r = k /\ Idle /\ NoJob /\ ~Sent(r) /\ Writes(r, "total") = {}
  <2>1. r = k
    BY <1>1, <1>6, NoFileApart DEF StuckInv, Alone, Served
  <2> QED BY <1>1, <1>6, <2>1 DEF StuckInv, Staged, Waits
<1>7. InOrder'
  <2> SUFFICES ASSUME NEW i \in quiet, Alive(i) PROVE Once(i)' /\ Before(i)'
    BY <1>1, <1>2 DEF InOrder, Alive
  <2>1. i \in Clis /\ Once(i) /\ Before(i)
    BY QuietAre DEF StuckInv, InOrder
  <2>2. i = cliRouter => ~Sent(i) /\ Writes(i, "total") = {}
    BY <1>6
  <2> QED BY <1>1, <1>2, <1>3, <1>4, <2>1, <2>2, SaysFlow DEF StuckInv
<1>8. Staged'
  <2> SUFFICES ASSUME NEW r \in quiet, r = cliRouter, Alive(r) PROVE Waits(r)'
    BY <1>1, <1>2 DEF Staged, Alive
  <2>1. r = k /\ Idle /\ NoJob /\ Writes(r, "total") = {}
    BY <1>6
  <2>2. r \notin pending' /\ Idle'
    BY <1>1, <1>2, <2>1 DEF Idle
  <2>3. \A i \in Clis : job'[i] # NoFile => i = j
    BY <1>1, <2>1 DEF NoJob, StuckInv, TypeInv, Daemon
  <2>4. Writes(r, "total")' = {j}
    <3>1. Writes(r, "total")' = Writes(r, "total") \cup {j}
      BY <1>3, <1>4, SaysWrites, QuietAre DEF StuckInv
    <3> QED BY <2>1, <3>1
  <2> QED BY <2>2, <2>3, <2>4 DEF Waits
<1> QED BY <1>5, <1>7, <1>8

LEMMA StartFileDownloadFlows ==
  ASSUME StuckInv, NEW j \in Clis, StartFileDownload(j)
  PROVE  InStep' /\ InOrder' /\ Staged'
<1>1. /\ job[j] # NoFile /\ Rests(j) /\ job' = [job EXCEPT ![j] = NoFile]
      /\ UNCHANGED <<accepted, pending, quiet, cliRouter, finishing, peerVars, pen, pipe, clientVars>>
  BY DEF StartFileDownload
<1>2. UNCHANGED <<due, callback, want, cli, garbled, log, listener, bar>>
  BY <1>1 DEF peerVars, clientVars
<1>3. InStep'
  BY <1>1, <1>2, StepStays DEF StuckInv
<1>4. ASSUME NEW i \in quiet, Alive(i) PROVE Once(i)' /\ Before(i)' /\ Moves(i)
  BY <1>1, <1>2, <1>4, FlowStays, QuietAre DEF StuckInv, InOrder
<1>5. InOrder'
  BY <1>1, <1>2, <1>4 DEF InOrder, Alive
<1>6. Staged'
  <2> SUFFICES ASSUME NEW r \in quiet, r = cliRouter, Alive(r) PROVE Waits(r)'
    BY <1>1, <1>2 DEF Staged, Alive
  <2>1. Waits(r) /\ Moves(r)
    BY <1>4 DEF StuckInv, Staged
  <2>2. Writes(r, "total") # {j}
    BY <1>1, RestingIs, QuietAre DEF Rests, Writes, StuckInv, Clis, NoCli
  <2>3. Sent(r)' \/ r \in garbled'
    BY <1>1, <2>1, <2>2 DEF Waits, Moves
  <2>4. NoJob' /\ \A i \in Clis : job'[i] = NoFile
    BY <1>1, <2>1 DEF Waits, NoJob, StuckInv, TypeInv, Daemon
  <2>5. ~(r \in pending /\ want[r] \in Files)
    BY <1>1, <2>1 DEF Waits, NoJob
  <2> QED BY <1>1, <1>2, <2>3, <2>4, <2>5 DEF Waits
<1> QED BY <1>3, <1>5, <1>6

LEMMA ManagerFlows ==
  ASSUME StuckInv, NEW f \in Files, ManagerStep(f)
  PROVE  InStep' /\ InOrder' /\ Staged'
<1>1. CASE RequestOneMissingChunk(f)
  <2>1. UNCHANGED <<daemonVars, callback, pen, pipe, clientVars>> /\ f \in active
    BY <1>1 DEF RequestOneMissingChunk
  <2>2. UNCHANGED <<quiet, cliRouter, job, pending, want>> /\ ~Idle
    BY <2>1 DEF daemonVars, clientVars, Idle
  <2> QED BY <2>1, <2>2, OthersFlow DEF StuckInv
<1>2. CASE FinishDownload(f)
  <2>1. UNCHANGED <<quiet, cliRouter, job, pending, pen, pipe, clientVars>> /\ f \in active
    BY <1>2 DEF FinishDownload
  <2>2. ~Idle /\ UNCHANGED want
    BY <2>1 DEF Idle, clientVars
  <2> QED BY <2>1, <2>2, OthersFlow DEF StuckInv
<1>3. CASE ManagerDone(f)
  <2>1. /\ UNCHANGED <<quiet, cliRouter, job, pending, active, peerVars, pipe, clientVars>>
        /\ MessageCLI(f, Message("done", f))
    BY <1>3 DEF ManagerDone
  <2>2. Idle => Idle'
    BY <2>1 DEF Idle, peerVars
  <2>3. f \in Writers /\ UNCHANGED want
    BY <2>1 DEF Writers, clientVars
  <2>4. PICK m \in Messages : m.kind = "done" /\ MessageCLI(f, m)
    BY <2>1, MessagesAre
  <2> QED BY <2>1, <2>2, <2>3, <2>4, SaysFlows DEF StuckInv
<1> QED BY <1>1, <1>2, <1>3 DEF ManagerStep

LEMMA CallbackFlows ==
  ASSUME StuckInv, NEW p \in Peers, CallbackStep(p) \/ HandleIntroduction(p)
  PROVE  InStep' /\ InOrder' /\ Staged'
<1>1. p \in Writers
  BY DEF Writers
<1>2. CASE HandleIntroduction(p)
  <2>1. UNCHANGED <<daemonVars, due, callback, pipe, clientVars>> /\ MessageCLI(p, Text)
    BY <1>2 DEF HandleIntroduction
  <2>2. UNCHANGED <<quiet, cliRouter, job, pending, want>> /\ (Idle => Idle')
    BY <2>1 DEF daemonVars, clientVars, Idle
  <2> QED BY <1>1, <2>1, <2>2, MessagesAre, SaysFlows DEF StuckInv
<1>3. CASE HandleChunkResponse(p)
  <2>1. UNCHANGED <<daemonVars, pipe, clientVars>> /\ MessageCLI(p, Text)
    BY <1>3 DEF HandleChunkResponse
  <2>2. UNCHANGED <<quiet, cliRouter, job, pending, want>>
    BY <2>1 DEF daemonVars, clientVars
  <2>3. ~Idle
    <3>1. PICK f \in Files, c \in Chunks : due[f][c] > 0
      BY <1>3 DEF HandleChunkResponse
    <3> QED BY <3>1 DEF Idle
  <2> QED BY <1>1, <2>1, <2>2, <2>3, MessagesAre, SaysFlows DEF StuckInv
<1>4. CASE SendProgress(p)
  <2>1. /\ UNCHANGED <<daemonVars, pipe, clientVars>> /\ MessageCLI(p, Message("progress", callback[p].file))
        /\ callback[p].st = "got"
    BY <1>4 DEF SendProgress
  <2>2. UNCHANGED <<quiet, cliRouter, job, pending, want>>
    BY <2>1 DEF daemonVars, clientVars
  <2>3. callback[p] # NoCall /\ ~Idle
    BY <2>1 DEF Idle, NoCall, At
  <2>4. callback[p].file \in Files
    BY <2>3 DEF StuckInv, TypeInv, Remote
  <2>5. PICK m \in Messages : m.kind = "progress" /\ MessageCLI(p, m)
    BY <2>1, <2>4, MessagesAre
  <2> QED BY <1>1, <2>1, <2>2, <2>3, <2>5, SaysFlows DEF StuckInv
<1>5. CASE StoreChunk(p)
  <2>1. UNCHANGED <<daemonVars, due, pen, pipe, clientVars>> /\ callback[p].st = "progress"
    BY <1>5 DEF StoreChunk
  <2>2. UNCHANGED <<quiet, cliRouter, job, pending, want>> /\ ~Idle
    BY <2>1 DEF daemonVars, clientVars, Idle, NoCall, At
  <2> QED BY <2>1, <2>2, OthersFlow DEF StuckInv
<1> QED BY <1>2, <1>3, <1>4, <1>5 DEF CallbackStep

\* The daemon's variables that no client and no writer changes.
LEMMA IdleKept ==
  ASSUME UNCHANGED <<daemonVars, peerVars, want>>
  PROVE  UNCHANGED <<quiet, cliRouter, want, job>> /\ pending' \subseteq pending /\ (Idle => Idle')
<1>1. UNCHANGED <<quiet, cliRouter, want, job, pending, active, due, callback>>
  BY DEF daemonVars, peerVars
<1> QED BY <1>1 DEF Idle

LEMMA ClientFlows ==
  ASSUME StuckInv, NEW k \in Clis, ClientStep(k) \/ Start(k) \/ Kill(k)
  PROVE  InStep' /\ InOrder' /\ Staged'
<1>1. CASE Listen(k)
  <2>1. UNCHANGED <<daemonVars, peerVars, pen, want, cli, listener, bar>>
    BY <1>1 DEF Listen
  <2>2. ASSUME NEW i \in quiet, i # k, Once(i), Before(i) PROVE Once(i)' /\ Before(i)' /\ Moves(i)
    <3>1. /\ i \in Clis /\ pipe'[i] = pipe[i] /\ log'[i] = log[i] /\ listener'[i] = listener[i] /\ bar'[i] = bar[i]
          /\ i \in garbled => i \in garbled'
      BY <1>1, <2>1, <2>2, QuietAre DEF Listen, StuckInv, TypeInv, Wires, Clients
    <3> QED BY <2>1, <2>2, <3>1, FlowStays
  <2>3. \A i \in quiet : Alive(i)' => /\ Alive(i)
                                      /\ Once(i) /\ Before(i) => Once(i)' /\ Before(i)' /\ Moves(i)
    BY <1>1, <2>1, <2>2, ListenFlow DEF StuckInv, Alive
  <2> QED BY <1>1, <2>1, <2>3, IdleKept, ListenInStep, Flows DEF StuckInv
<1>2. CASE TakeLog(k) \/ DrawBar(k)
  <2>1. /\ UNCHANGED <<daemonVars, peerVars, pen, pipe, want, cli, garbled>>
        /\ \A i \in Clis : i # k => log'[i] = log[i] /\ listener'[i] = listener[i] /\ bar'[i] = bar[i]
    BY <1>2 DEF TakeLog, DrawBar, StuckInv, TypeInv, Clients
  <2>2. ASSUME NEW i \in quiet, i # k, Once(i), Before(i) PROVE Once(i)' /\ Before(i)' /\ Moves(i)
    BY <2>1, <2>2, FlowStays, QuietAre DEF StuckInv
  <2>3. \A i \in quiet : Alive(i)' => /\ Alive(i)
                                      /\ Once(i) /\ Before(i) => Once(i)' /\ Before(i)' /\ Moves(i)
    BY <1>2, <2>1, <2>2, TakeLogFlow, DrawBarFlow DEF StuckInv, Alive
  <2> QED BY <2>1, <2>3, IdleKept, StepStays, Flows DEF StuckInv
<1>3. CASE TakeDone(k) \/ Kill(k)
  <2>1. PICK st \in {"success", "exited"} : Ends(k, st)
    BY <1>3 DEF TakeDone, Kill
  <2>2. UNCHANGED <<daemonVars, peerVars, pen, want>>
    BY <1>3 DEF TakeDone, Kill
  <2>3. InStep' /\ \A i \in Clis : Alive(i)' => i # k /\ Alive(i)
    BY <2>1, <2>2, EndsInStep DEF StuckInv
  <2>4. \A i \in quiet : Alive(i)' => /\ Alive(i)
                                      /\ Once(i) /\ Before(i) => Once(i)' /\ Before(i)' /\ Moves(i)
    BY <2>1, <2>2, <2>3, QuietAre, EndsFlow DEF StuckInv
  <2> QED BY <2>2, <2>3, <2>4, IdleKept, Flows DEF StuckInv
<1>4. CASE Start(k)
  <2>1. UNCHANGED <<daemonVars, peerVars, pen, pipe, want, garbled, log, listener, bar>>
    BY <1>4 DEF Start
  <2>2. InStep' /\ \A i \in quiet : Alive(i)' => Alive(i)
    BY <1>4, StartInStep DEF StuckInv
  <2>3. \A i \in quiet : Alive(i)' => /\ Alive(i)
                                      /\ Once(i) /\ Before(i) => Once(i)' /\ Before(i)' /\ Moves(i)
    BY <2>1, <2>2, QuietAre, FlowStays DEF StuckInv
  <2> QED BY <2>1, <2>2, <2>3, IdleKept, Flows DEF StuckInv
<1> QED BY <1>1, <1>2, <1>3, <1>4 DEF ClientStep

LEMMA WriteMessageFlows ==
  ASSUME StuckInv, NEW w \in Writers, WriteMessage(w)
  PROVE  InStep' /\ InOrder' /\ Staged'
<1>1. UNCHANGED <<daemonVars, peerVars, clientVars>>
  BY DEF WriteMessage
<1>2. UNCHANGED <<want, cli>>
  BY <1>1 DEF clientVars
<1>3. \A i \in quiet : Alive(i)' => /\ Alive(i)
                                    /\ Once(i) /\ Before(i) => Once(i)' /\ Before(i)' /\ Moves(i)
  BY <1>2, QuietAre, WriteMessageFlow DEF StuckInv, Alive
<1> QED BY <1>1, <1>2, <1>3, IdleKept, WriteMessageInStep, Flows DEF StuckInv

-----------------------------------------------------------------------------
LEMMA StuckInit == Init => StuckInv
<1> SUFFICES ASSUME Init PROVE StuckInv
  OBVIOUS
<1>1. InStep
  <2>1. \A w \in Writers : pen[w].part = "none"
    BY RestingIs DEF Init
  <2> QED BY <2>1 DEF Init, InStep
<1>2. InOrder /\ Staged
  BY DEF Init, InOrder, Staged
<1> QED BY <1>1, <1>2, ToldInit DEF StuckInv, ToldInv

LEMMA StuckStep == StuckInv /\ [Next]_vars => StuckInv'
<1> SUFFICES ASSUME StuckInv, TypeInv', [Next]_vars PROVE InStep' /\ InOrder' /\ Staged'
  BY ToldStep DEF StuckInv, ToldInv
<1>1. CASE \E j \in Clis : Accept(j) \/ JobStep(j)
  <2>1. ASSUME NEW j \in Clis, NEW k \in Clis, TakeRegister(j, k) PROVE InStep' /\ InOrder' /\ Staged'
    <3>1. /\ UNCHANGED <<accepted, quiet, cliRouter, job, active, finishing, peerVars, pen, pipe, clientVars>>
          /\ pending' \subseteq pending
      BY <2>1 DEF TakeRegister
    <3>2. UNCHANGED want /\ (Idle => Idle')
      BY <3>1 DEF clientVars, peerVars, Idle
    <3> QED BY <3>1, <3>2, OthersFlow DEF StuckInv
  <2> QED BY <1>1, <2>1, AcceptFlows, TakeDownloadFlows, StartFileDownloadFlows DEF JobStep
<1>2. CASE \E k \in Clis : ClientStep(k) \/ Start(k) \/ Kill(k)
  BY <1>2, ClientFlows
<1>3. CASE \E f \in Files : ManagerStep(f)
  BY <1>3, ManagerFlows
<1>4. CASE \E p \in Peers : CallbackStep(p) \/ HandleIntroduction(p)
  BY <1>4, CallbackFlows
<1>5. CASE \E w \in Writers : WriteMessage(w)
  BY <1>5, WriteMessageFlows
<1>6. CASE UNCHANGED vars
  <2>1. UNCHANGED <<daemonVars, peerVars, pen, pipe, clientVars>>
    BY <1>6 DEF vars
  <2>2. UNCHANGED want
    BY <2>1 DEF clientVars
  <2> QED BY <2>1, <2>2, IdleKept, OthersFlow DEF StuckInv
<1> QED BY <1>1, <1>2, <1>3, <1>4, <1>5, <1>6 DEF Next, SystemStep

(***************************************************************************)
(* A client that the daemon accepted while no download was under way never *)
(* hangs on the channels without a buffer between ListenForDaemonLogs and  *)
(* the goroutine of its bar (download_cmd.go), even when writers garble    *)
(* its connection and later clients take its messages: handleDownload-     *)
(* Signal has written the total before it starts the download that makes   *)
(* progress, and nothing else writes a total while it is the latest.       *)
(***************************************************************************)
THEOREM NeverStuck == Spec => []StuckNeedsOverlap
<1>1. StuckInv => StuckNeedsOverlap
  <2> SUFFICES ASSUME StuckInv, NEW k \in quiet, Alive(k) PROVE listener[k] \in {"range", bar[k]}
    BY DEF StuckNeedsOverlap, Stuck
  <2>1. Once(k) /\ k \in Clis
    BY QuietAre DEF StuckInv, InOrder
  <2> QED BY <2>1 DEF Once, StuckInv, TypeInv, Clients
<1>2. Spec => []StuckInv
  BY StuckInit, StuckStep, PTL DEF Spec
<1> QED BY <1>1, <1>2, PTL
=============================================================================
