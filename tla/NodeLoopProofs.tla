--------------------------- MODULE NodeLoopProofs ---------------------------
(***************************************************************************)
(* Proofs about NodeLoop for any files, goroutines, requests and signals   *)
(* and any capacity of the channels.                                       *)
(***************************************************************************)
EXTENDS NodeLoop, TLAPS

Others == {Msg("id", None, 0), Msg("signal", None, 0)}
Wired == Responses \cup Others
Kind(k) == {m \in Wired : m.kind = k}

Job == [st : JobStates, file : Files \cup {None}, ch : Channels \cup {None}, req : Nat]

\* What each channel of the router holds.
Sorted == typed \in [Kinds -> Seq(Wired)] /\ \A k \in Kinds : typed[k] \in Seq(Kind(k))

\* The file a goroutine works for, and its channel.
Busy(r) == /\ r.st # "idle" => r.file \in Files
           /\ r.st \in {"request", "wait"} => r.ch \in Channels

Working == job \in [Jobs -> Job] /\ \A j \in Jobs : Busy(job[j])

Held == loop.resp # NoResponse => loop.resp \in Responses

Loops == [resp : Responses \cup {NoResponse}, ch : Channels \cup {None}]

Wires == asked \in Seq(Responses) /\ wire \in Seq(Wired)

LEMMA NoneApart == None \notin Channels /\ None \notin Files
  BY NodeLoopAssumption DEF Channels

LEMMA ListKind == Kind("list") = Responses
<1>1. \A m \in Others : m.kind # "list"
  BY DEF Others, Msg
<1>2. \A m \in Responses : m.kind = "list"
  BY DEF Responses
<1> QED BY <1>1, <1>2 DEF Kind, Wired

LEMMA KindsAre == \A m \in Wired : m.kind \in Kinds /\ m \in Kind(m.kind)
  BY DEF Kind, Wired, Others, Responses, Msg, Kinds

\* The variables outside the job table, the channels and the queues.
Plain ==
    /\ id \in Ids /\ slots \subseteq Ids \X Files /\ start \in {"load", "done"}
    /\ toLoad \subseteq Files /\ early \subseteq Files /\ active \subseteq Files
    /\ timeouts \in [Files -> Nat] /\ mixed \subseteq Files
    /\ asks \in 0..MaxAsks /\ signals \in 0..MaxSignals

Tables ==
    /\ pending \in [Files -> Channels \cup {None}]
    /\ chan \in [Channels -> Seq(Responses)]
    /\ loop \in Loops

TypeInv == Plain /\ Tables /\ Sorted /\ Working /\ Held /\ Wires

-----------------------------------------------------------------------------
LEMMA TypeInit == Init => TypeInv
<1> SUFFICES ASSUME Init PROVE TypeInv
  OBVIOUS
<1>1. Plain
  <2>1. /\ id = "" /\ slots = {} /\ start = "load" /\ toLoad = Known /\ early = {}
        /\ active = {} /\ mixed = {} /\ asks = 0 /\ signals = 0
        /\ timeouts = [f \in Files |-> 0]
    BY DEF Init
  <2>2. timeouts \in [Files -> Nat]
    BY <2>1
  <2>3. 0 \in 0..MaxAsks /\ 0 \in 0..MaxSignals /\ Known \subseteq Files
    BY NodeLoopAssumption
  <2> QED BY <2>1, <2>2, <2>3 DEF Plain, Ids
<1>2. Tables /\ Held
  <2>1. pending \in [Files -> Channels \cup {None}] /\ chan \in [Channels -> Seq(Responses)]
    <3>1. pending = [f \in Files |-> None] /\ chan = [c \in Channels |-> <<>>]
      BY DEF Init
    <3>2. <<>> \in Seq(Responses)
      OBVIOUS
    <3> QED BY <3>1, <3>2
  <2>2. loop = [resp |-> NoResponse, ch |-> None]
    BY DEF Init
  <2>3. loop \in Loops /\ Held
    BY <2>2 DEF Loops, Held
  <2> QED BY <2>1, <2>3 DEF Tables
<1>3. Sorted
  <2>1. typed = [k \in Kinds |-> <<>>]
    BY DEF Init
  <2> QED BY <2>1 DEF Sorted
<1>4. Working
  <2>1. Idle \in Job /\ Busy(Idle)
    BY DEF Idle, Job, JobStates, Busy
  <2> QED BY <2>1 DEF Init, Working
<1>5. Wires
  <2>1. Msg("id", None, 0) \in Wired
    BY DEF Wired, Others
  <2>2. asked = <<>> /\ wire = <<Msg("id", None, 0)>>
    BY DEF Init
  <2> QED BY <2>1, <2>2 DEF Wires
<1> QED BY <1>1, <1>2, <1>3, <1>4, <1>5 DEF TypeInv

\* One entry of the job table changes.
LEMMA JobBecomes ==
  ASSUME Working, NEW j \in Jobs, NEW r \in Job, Busy(r), job' = [job EXCEPT ![j] = r]
  PROVE  Working'
  BY DEF Working

LEMMA TypeStart ==
  ASSUME TypeInv, InitStep
  PROVE  TypeInv'
<1>1. CASE InitReset
  <2>1. Plain' /\ UNCHANGED <<pending, chan, loop, typed, job, asked, wire>>
    BY <1>1 DEF TypeInv, InitReset, Plain, bounds
  <2> QED BY <2>1 DEF TypeInv, Tables, Sorted, Working, Held, Wires
<1>2. ASSUME NEW f \in Files, InitLoad(f) PROVE TypeInv'
  <2>1. Plain' /\ UNCHANGED <<pending, chan, loop, typed, job, asked, wire>>
    BY <1>2 DEF TypeInv, InitLoad, Plain, bounds
  <2> QED BY <2>1 DEF TypeInv, Tables, Sorted, Working, Held, Wires
<1> QED BY <1>1, <1>2 DEF InitStep

LEMMA TypeSignal ==
  ASSUME TypeInv, NEW j \in Jobs, NEW f \in Files, DownloadSignal(j, f)
  PROVE  TypeInv'
<1> DEFINE r == [Idle EXCEPT !.st = "slot", !.file = f]
<1>1. r \in Job /\ Busy(r)
  BY DEF Idle, Job, JobStates, Busy
<1>2. job' = [job EXCEPT ![j] = r]
  BY DEF DownloadSignal
<1>3. Working'
  <2> HIDE DEF r
  <2> QED BY <1>1, <1>2, JobBecomes DEF TypeInv
<1>4. Plain'
  BY NodeLoopAssumption DEF TypeInv, Plain, DownloadSignal
<1>5. UNCHANGED <<pending, chan, loop, typed, asked, wire>>
  BY DEF DownloadSignal
<1> QED BY <1>3, <1>4, <1>5 DEF TypeInv, Tables, Sorted, Held, Wires

LEMMA TypeJob ==
  ASSUME TypeInv, NEW j \in Jobs, JobStep(j)
  PROVE  TypeInv'
<1> DEFINE f == job[j].file
           now == job[j]
<1>0. now \in Job /\ Busy(now)
  BY DEF TypeInv, Working
<1>1. CASE PrepareFile(j)
  <2> DEFINE r == [now EXCEPT !.st = "lookup"]
  <2>1. r \in Job /\ Busy(r) /\ f \in Files
    BY <1>0, <1>1 DEF Job, JobStates, Busy, PrepareFile
  <2>2. job' = [job EXCEPT ![j] = r]
    BY <1>1 DEF PrepareFile
  <2>3. Working'
    BY <2>1, <2>2, JobBecomes DEF TypeInv
  <2>4. Plain'
    BY <1>1, <2>1 DEF TypeInv, Plain, PrepareFile, bounds
  <2>5. UNCHANGED <<pending, chan, loop, typed, asked, wire>>
    BY <1>1 DEF PrepareFile
  <2> QED BY <2>3, <2>4, <2>5 DEF TypeInv, Tables, Sorted, Held, Wires
<1>2. CASE LookupChannel(j)
  <2> DEFINE r == [now EXCEPT !.st = IF pending[f] = None THEN "make" ELSE "request",
                              !.ch = pending[f]]
  <2>0. f \in Files
    BY <1>0, <1>2 DEF Busy, LookupChannel
  <2>1. r \in Job /\ Busy(r)
    BY <1>0, <2>0 DEF TypeInv, Job, JobStates, Busy, Tables
  <2>2. job' = [job EXCEPT ![j] = r]
    BY <1>2 DEF LookupChannel
  <2>3. Working'
    BY <2>1, <2>2, JobBecomes DEF TypeInv
  <2>4. UNCHANGED <<startVars, pending, chan, asked, wire, typed, loop, active,
                    timeouts, mixed, bounds>>
    BY <1>2 DEF LookupChannel
  <2> QED BY <2>3, <2>4 DEF TypeInv, Plain, Tables, Sorted, Held, Wires, startVars, bounds
<1>3. CASE MakeChannel(j)
  <2> DEFINE r == [now EXCEPT !.st = "request", !.ch = <<j, f>>]
  <2>0. f \in Files /\ <<j, f>> \in Channels
    BY <1>0, <1>3 DEF Busy, MakeChannel, Channels
  <2>1. r \in Job /\ Busy(r)
    BY <1>0, <2>0 DEF Job, JobStates, Busy
  <2>2. job' = [job EXCEPT ![j] = r]
    BY <1>3 DEF MakeChannel
  <2>3. Working'
    BY <2>1, <2>2, JobBecomes DEF TypeInv
  <2>4. UNCHANGED <<startVars, chan, asked, wire, typed, loop, active, timeouts,
                    mixed, bounds>>
    BY <1>3 DEF MakeChannel
  <2>5. pending' \in [Files -> Channels \cup {None}]
    BY <1>3, <2>0 DEF TypeInv, MakeChannel, Tables
  <2> QED BY <2>3, <2>4, <2>5
      DEF TypeInv, Plain, Tables, Sorted, Held, Wires, startVars, bounds
<1>4. CASE Request(j)
  <2> DEFINE r == [now EXCEPT !.st = "wait", !.req = asks]
  <2>0. f \in Files /\ now.ch \in Channels /\ asks \in Nat
    BY <1>0, <1>4, NodeLoopAssumption DEF TypeInv, Busy, Request, Plain
  <2>1. r \in Job /\ Busy(r)
    BY <1>0, <2>0 DEF Job, JobStates, Busy
  <2>2. job' = [job EXCEPT ![j] = r]
    BY <1>4 DEF Request
  <2>3. Working'
    BY <2>1, <2>2, JobBecomes DEF TypeInv
  <2>4. Msg("list", f, asks) \in Responses
    BY <2>0 DEF Msg, Responses
  <2>5. Wires'
    BY <1>4, <2>4 DEF TypeInv, Request, Wires
  <2>6. UNCHANGED <<startVars, pending, chan, typed, loop, active, timeouts, bounds>>
    BY <1>4 DEF Request
  <2>7. mixed' \subseteq Files
    BY <1>4, <2>0 DEF TypeInv, Request, Plain
  <2> QED BY <2>3, <2>5, <2>6, <2>7
      DEF TypeInv, Plain, Tables, Sorted, Held, startVars, bounds
<1>5. Idle \in Job /\ Busy(Idle)
  BY DEF Idle, Job, JobStates, Busy
<1>6. CASE ReceiveList(j)
  <2>0. f \in Files /\ now.ch \in Channels
    BY <1>0, <1>6 DEF Busy, ReceiveList
  <2>1. Working'
    BY <1>5, <1>6, JobBecomes DEF TypeInv, ReceiveList
  <2>2. chan' \in [Channels -> Seq(Responses)]
    BY <1>6, <2>0 DEF TypeInv, ReceiveList, Tables
  <2>3. active' \subseteq Files
    BY <1>6, <2>0 DEF TypeInv, ReceiveList, Plain
  <2>4. UNCHANGED <<startVars, pending, asked, wire, typed, loop, timeouts, mixed, bounds>>
    BY <1>6 DEF ReceiveList
  <2> QED BY <2>1, <2>2, <2>3, <2>4
      DEF TypeInv, Plain, Tables, Sorted, Held, Wires, startVars, bounds
<1>7. CASE WaitTimeout(j)
  <2>0. f \in Files
    BY <1>0, <1>7 DEF Busy, WaitTimeout
  <2>1. Working'
    BY <1>5, <1>7, JobBecomes DEF TypeInv, WaitTimeout
  <2>2. timeouts' \in [Files -> Nat] /\ mixed' \subseteq Files
    BY <1>7, <2>0 DEF TypeInv, WaitTimeout, Plain
  <2>3. UNCHANGED <<startVars, pending, chan, asked, wire, typed, loop, active, bounds>>
    BY <1>7 DEF WaitTimeout
  <2> QED BY <2>1, <2>2, <2>3
      DEF TypeInv, Plain, Tables, Sorted, Held, Wires, startVars, bounds
<1> QED BY <1>1, <1>2, <1>3, <1>4, <1>6, <1>7 DEF JobStep

LEMMA TypeWire ==
  ASSUME TypeInv, TrackerAnswers \/ PeerSignals
  PROVE  TypeInv'
<1>1. CASE TrackerAnswers
  <2> DEFINE h == Head(asked)
  <2>1. h \in Wired /\ asked' \in Seq(Responses)
    BY <1>1 DEF TypeInv, TrackerAnswers, Wires, Wired
  <2>2. wire' = wire \/ wire' = Append(wire, h)
    BY <1>1 DEF TrackerAnswers
  <2>3. Wires'
    <3> HIDE DEF h
    <3>1. wire \in Seq(Wired)
      BY DEF TypeInv, Wires
    <3>2. wire' \in Seq(Wired)
      BY <2>1, <2>2, <3>1
    <3> QED BY <2>1, <3>2 DEF Wires
  <2>4. UNCHANGED <<startVars, job, pending, chan, typed, loop, active, timeouts, mixed, bounds>>
    BY <1>1 DEF TrackerAnswers
  <2> QED BY <2>3, <2>4 DEF TypeInv, Plain, Tables, Sorted, Held, Working, startVars, bounds
<1>2. CASE PeerSignals
  <2>1. Msg("signal", None, 0) \in Wired
    BY DEF Wired, Others
  <2>2. Wires'
    BY <1>2, <2>1 DEF TypeInv, PeerSignals, Wires
  <2>3. Plain'
    BY <1>2, NodeLoopAssumption DEF TypeInv, PeerSignals, Plain, startVars
  <2>4. UNCHANGED <<job, pending, chan, typed, loop>>
    BY <1>2 DEF PeerSignals
  <2> QED BY <2>2, <2>3, <2>4 DEF TypeInv, Tables, Sorted, Held, Working
<1> QED BY <1>1, <1>2

LEMMA TypeRoute ==
  ASSUME TypeInv, RouteMessage
  PROVE  TypeInv'
<1> DEFINE m == Head(wire)
<1>1. m \in Wired /\ wire' \in Seq(Wired) /\ asked' = asked
  BY DEF TypeInv, RouteMessage, Wires
<1>2. typed' = [typed EXCEPT ![m.kind] = Append(@, m)]
  BY DEF RouteMessage
<1>3. m.kind \in Kinds /\ m \in Kind(m.kind)
  BY <1>1, KindsAre
<1>4. Sorted'
  <2> HIDE DEF m
  <2>1. typed' \in [Kinds -> Seq(Wired)]
    BY <1>1, <1>2, <1>3 DEF TypeInv, Sorted
  <2>2. ASSUME NEW k \in Kinds PROVE typed'[k] \in Seq(Kind(k))
    <3>1. typed \in [Kinds -> Seq(Wired)] /\ typed[k] \in Seq(Kind(k))
      BY DEF TypeInv, Sorted
    <3>2. CASE k = m.kind
      <4>1. typed'[k] = Append(typed[k], m)
        BY <1>2, <3>1, <3>2
      <4> QED BY <1>3, <3>1, <3>2, <4>1
    <3>3. CASE k # m.kind
      BY <1>2, <3>1, <3>3
    <3> QED BY <3>2, <3>3
  <2> QED BY <2>1, <2>2 DEF Sorted
<1>5. UNCHANGED <<startVars, job, pending, chan, loop, active, timeouts, mixed, bounds>>
  BY DEF RouteMessage
<1> QED BY <1>1, <1>4, <1>5
      DEF TypeInv, Plain, Tables, Wires, Held, Working, startVars, bounds

\* The loop takes the first message of one channel.
LEMMA TypeTaken ==
  ASSUME Sorted, NEW k \in Kinds, typed[k] # <<>>, typed' = Taken(k)
  PROVE  Sorted' /\ Head(typed[k]) \in Kind(k)
<1>1. typed \in [Kinds -> Seq(Wired)] /\ typed[k] \in Seq(Kind(k))
  BY DEF Sorted
<1>2. typed' = [typed EXCEPT ![k] = Tail(typed[k])]
  BY DEF Taken
<1>3. Tail(typed[k]) \in Seq(Kind(k)) /\ Head(typed[k]) \in Kind(k)
  BY <1>1
<1>4. typed[k] \in Seq(Wired) /\ Tail(typed[k]) \in Seq(Wired)
  BY <1>1
<1>5. ASSUME NEW i \in Kinds PROVE typed'[i] \in Seq(Kind(i))
  <2>1. CASE i = k
    BY <1>1, <1>2, <1>3, <2>1
  <2>2. CASE i # k
    BY <1>1, <1>2, <2>2 DEF Sorted
  <2> QED BY <2>1, <2>2
<1> QED BY <1>1, <1>2, <1>3, <1>4, <1>5 DEF Sorted

LEMMA TypeLoop ==
  ASSUME TypeInv, LoopStep
  PROVE  TypeInv'
<1>0. {"id", "signal", "list"} = Kinds
  BY DEF Kinds
<1>1. CASE HandleId
  <2>1. Sorted'
    BY <1>0, <1>1, TypeTaken DEF TypeInv, HandleId, Selects
  <2>2. Plain'
    BY <1>1 DEF TypeInv, HandleId, Plain, Ids, bounds
  <2>3. UNCHANGED <<job, pending, chan, asked, wire, loop>>
    BY <1>1 DEF HandleId
  <2> QED BY <2>1, <2>2, <2>3 DEF TypeInv, Tables, Held, Working, Wires
<1>2. CASE HandleSignal
  <2>1. Sorted'
    BY <1>0, <1>2, TypeTaken DEF TypeInv, HandleSignal, Selects
  <2>2. UNCHANGED <<startVars, job, pending, chan, asked, wire, loop, active, timeouts,
                    mixed, bounds>>
    BY <1>2 DEF HandleSignal
  <2> QED BY <2>1, <2>2 DEF TypeInv, Plain, Tables, Held, Working, Wires, startVars, bounds
<1>3. CASE HandleList
  <2> DEFINE m == Head(typed["list"])
  <2>1. Sorted' /\ m \in Responses
    BY <1>0, <1>3, TypeTaken, ListKind DEF TypeInv, HandleList, Selects
  <2>2. m.file \in Files
    BY <2>1 DEF Responses
  <2>3. loop' = [resp |-> m, ch |-> pending[m.file]]
    BY <1>3 DEF HandleList
  <2>4. UNCHANGED <<startVars, job, pending, chan, asked, wire, active, timeouts, mixed, bounds>>
    BY <1>3 DEF HandleList
  <2>5. loop' \in Loops /\ Held'
    <3> HIDE DEF m
    <3> QED BY <2>1, <2>2, <2>3 DEF TypeInv, Tables, Loops, Held
  <2> QED BY <2>1, <2>4, <2>5 DEF TypeInv, Plain, Tables, Working, Wires, startVars, bounds
<1>4. CASE HandOver
  <2>1. loop.ch \in Channels /\ loop.resp \in Responses
    BY <1>4 DEF TypeInv, HandOver, Tables, Held, Loops
  <2>2. chan' \in [Channels -> Seq(Responses)]
    BY <1>4, <2>1 DEF TypeInv, HandOver, Tables
  <2>3. loop' \in Loops /\ Held'
    BY <1>4 DEF HandOver, Loops, Held
  <2>4. UNCHANGED <<startVars, job, pending, asked, wire, typed, active, timeouts, mixed, bounds>>
    BY <1>4 DEF HandOver
  <2> QED BY <2>2, <2>3, <2>4
      DEF TypeInv, Plain, Tables, Sorted, Working, Wires, startVars, bounds
<1> QED BY <1>1, <1>2, <1>3, <1>4 DEF LoopStep

LEMMA TypeNext == TypeInv /\ [Next]_vars => TypeInv'
<1>1. ASSUME TypeInv, UNCHANGED vars PROVE TypeInv'
  BY <1>1
      DEF TypeInv, vars, startVars, bounds, Plain, Tables, Sorted, Working, Held, Wires
<1> QED BY <1>1, TypeStart, TypeSignal, TypeJob, TypeWire, TypeRoute, TypeLoop DEF Next

(***************************************************************************)
(* Every reachable state of the start and the loop of a node is well       *)
(* typed; in particular only peer lists lie in the channel of peer lists.  *)
(***************************************************************************)
THEOREM TypeCorrect == Spec => []TypeOK
<1>1. TypeInv => TypeOK
  BY DEF TypeInv, TypeOK, Plain, Tables, Sorted, Working, Wires, Wired, Others, Job, Loops
<1> QED BY <1>1, TypeInit, TypeNext, PTL DEF Spec

-----------------------------------------------------------------------------
(***************************************************************************)
(* SlotSettled: before the start has settled every file at work is early,  *)
(* and afterwards a signal makes a slot that nothing empties.              *)
(***************************************************************************)
Started == active \cup {job[j].file : j \in {i \in Jobs : job[i].st # "idle"}}

SlotInv ==
    /\ ~Settled => Started \subseteq early
    /\ Settled => \A f \in Started \ early : <<id, f>> \in slots

LEMMA SlotInit == Init => SlotInv
<1> SUFFICES ASSUME Init PROVE SlotInv
  OBVIOUS
<1>1. Started = {}
  BY DEF Init, Started, Idle
<1> QED BY <1>1 DEF SlotInv

\* A step that begins nothing and empties no settled slot.
LEMMA SlotQuiet ==
  ASSUME SlotInv, Started' \subseteq Started, early' = early,
         Settled => Settled' /\ slots \subseteq slots',
         id' = id \/ ~Settled
  PROVE  SlotInv'
  BY DEF SlotInv, Settled

LEMMA SlotNext == TypeInv /\ SlotInv /\ [Next]_vars => SlotInv'
<1> SUFFICES ASSUME TypeInv, SlotInv, [Next]_vars PROVE SlotInv'
  OBVIOUS
<1> USE DEF startVars, bounds
<1>1. ASSUME UNCHANGED <<job, active>> PROVE Started' = Started
  BY <1>1 DEF Started
<1>2. CASE UNCHANGED vars
  BY <1>1, <1>2, SlotQuiet DEF vars, Settled
<1>3. ASSUME NEW f \in Files, InitLoad(f) PROVE SlotInv'
  BY <1>1, <1>3, SlotQuiet DEF InitLoad, Settled
<1>4. CASE InitReset
  BY <1>1, <1>4, SlotQuiet DEF InitReset, Settled
<1>5. ASSUME NEW j \in Jobs, NEW f \in Files, DownloadSignal(j, f) PROVE SlotInv'
  <2>1. /\ job' = [job EXCEPT ![j] = [Idle EXCEPT !.st = "slot", !.file = f]]
        /\ UNCHANGED <<id, start, active>>
        /\ slots' = slots \cup {<<id, f>>}
        /\ early' = IF Settled THEN early \ {f} ELSE early \cup {f}
    BY <1>5 DEF DownloadSignal
  <2>2. Started' \subseteq Started \cup {f}
    <3>1. \A i \in Jobs : i # j => job'[i] = job[i]
      BY <2>1 DEF TypeInv, Working
    <3>2. job'[j].file = f
      BY <2>1 DEF TypeInv, Working, Idle
    <3> QED BY <2>1, <3>1, <3>2 DEF Started
  <2>3. Settled' <=> Settled
    BY <2>1 DEF Settled
  <2> QED BY <2>1, <2>2, <2>3 DEF SlotInv
<1>6. ASSUME NEW j \in Jobs, JobStep(j) PROVE SlotInv'
  <2> DEFINE f == job[j].file
  <2>1. job[j].st # "idle"
    BY <1>6 DEF JobStep, PrepareFile, LookupChannel, MakeChannel, Request, ReceiveList,
       WaitTimeout
  <2>2. \E r : job' = [job EXCEPT ![j] = r] /\ (r.st # "idle" => r.file = f)
    <3>1. CASE PrepareFile(j)
      <4>1. job' = [job EXCEPT ![j] = [job[j] EXCEPT !.st = "lookup"]]
        BY <3>1 DEF PrepareFile
      <4>2. [job[j] EXCEPT !.st = "lookup"].file = f
        BY DEF TypeInv, Working, Job
      <4> QED BY <4>1, <4>2
    <3>2. CASE LookupChannel(j)
      <4> DEFINE r == [job[j] EXCEPT !.st = IF pending[f] = None THEN "make" ELSE "request",
                                     !.ch = pending[f]]
      <4>1. job' = [job EXCEPT ![j] = r]
        BY <3>2 DEF LookupChannel
      <4>2. r.file = f
        BY DEF TypeInv, Working, Job
      <4> QED BY <4>1, <4>2
    <3>3. CASE MakeChannel(j)
      <4> DEFINE r == [job[j] EXCEPT !.st = "request", !.ch = <<j, f>>]
      <4>1. job' = [job EXCEPT ![j] = r]
        BY <3>3 DEF MakeChannel
      <4>2. r.file = f
        BY DEF TypeInv, Working, Job
      <4> QED BY <4>1, <4>2
    <3>4. CASE Request(j)
      <4> DEFINE r == [job[j] EXCEPT !.st = "wait", !.req = asks]
      <4>1. job' = [job EXCEPT ![j] = r]
        BY <3>4 DEF Request
      <4>2. r.file = f
        BY DEF TypeInv, Working, Job
      <4> QED BY <4>1, <4>2
    <3>5. CASE ReceiveList(j) \/ WaitTimeout(j)
      <4>1. job' = [job EXCEPT ![j] = Idle]
        BY <3>5 DEF ReceiveList, WaitTimeout
      <4>2. Idle.st = "idle"
        BY DEF Idle
      <4> QED BY <4>1, <4>2
    <3> QED BY <1>6, <3>1, <3>2, <3>3, <3>4, <3>5 DEF JobStep
  <2>3. UNCHANGED <<id, start, early>> /\ slots \subseteq slots'
    BY <1>6 DEF JobStep, PrepareFile, LookupChannel, MakeChannel, Request, ReceiveList,
       WaitTimeout
  <2>4. active' \subseteq active \cup {f}
    BY <1>6 DEF JobStep, PrepareFile, LookupChannel, MakeChannel, Request, ReceiveList,
       WaitTimeout
  <2>5. Started' \subseteq Started
    <3>1. PICK r : job' = [job EXCEPT ![j] = r] /\ (r.st # "idle" => r.file = f)
      BY <2>2
    <3>2. /\ \A i \in Jobs : i # j => job'[i] = job[i]
          /\ job'[j] = r
      BY <3>1 DEF TypeInv, Working
    <3> QED BY <2>1, <2>4, <3>1, <3>2 DEF Started
  <2> QED BY <2>3, <2>5, SlotQuiet DEF Settled
<1>7. CASE TrackerAnswers \/ PeerSignals \/ RouteMessage
  BY <1>1, <1>7, SlotQuiet DEF TrackerAnswers, PeerSignals, RouteMessage, Settled
<1>8. CASE LoopStep
  <2>1. CASE HandleId
    <3>1. Settled => Settled' /\ id' = id
      BY <2>1 DEF HandleId, Settled
    <3> QED BY <1>1, <2>1, <3>1, SlotQuiet DEF HandleId
  <2>2. CASE HandleSignal \/ HandleList \/ HandOver
    BY <1>1, <2>2, SlotQuiet DEF HandleSignal, HandleList, HandOver, Settled
  <2> QED BY <1>8, <2>1, <2>2 DEF LoopStep
<1> QED BY <1>2, <1>3, <1>4, <1>5, <1>6, <1>7, <1>8 DEF Next, InitStep

(***************************************************************************)
(* The own chunk map has the entry of every file that is downloaded, once  *)
(* the node has its id and init is over: for any files, goroutines and     *)
(* signals, in whatever order init, the ID and the signals come, except    *)
(* for files whose last signal came before.                                *)
(***************************************************************************)
THEOREM SlotSettledHolds == Spec => []SlotSettled
<1>1. SlotInv => SlotSettled
  BY DEF SlotInv, SlotSettled, Started
<1> QED BY <1>1, SlotInit, SlotNext, TypeInit, TypeNext, PTL DEF Spec

-----------------------------------------------------------------------------
(***************************************************************************)
(* ListsExpected: a goroutine asks only when its file has a channel, an    *)
(* entry is replaced but never removed, and every entry is a channel of    *)
(* its file.  So a list finds a channel however long it was under way.     *)
(***************************************************************************)

\* Every list of a queue has a channel in p.
Served(s, p) == \A i \in 1..Len(s) : s[i].kind = "list" => p[s[i].file] # None

OwnChannels == \A f \in Files : pending[f] # None => pending[f][2] = f

Asking ==
    \A j \in Jobs : job[j].st = "request" =>
        pending[job[j].file] # None /\ job[j].ch[2] = job[j].file

Queued == Served(asked, pending) /\ Served(wire, pending) /\ Served(typed["list"], pending)

ListInv == ListsExpected /\ OwnChannels /\ Asking /\ Queued

LEMMA ServedAppend ==
  ASSUME NEW S, NEW s \in Seq(S), NEW p, NEW m \in S, Served(s, p),
         m.kind = "list" => p[m.file] # None
  PROVE  Served(Append(s, m), p)
  BY DEF Served

LEMMA ServedTail ==
  ASSUME NEW S, NEW s \in Seq(S), NEW p, Served(s, p), s # <<>>
  PROVE  /\ Served(Tail(s), p)
         /\ Head(s).kind = "list" => p[Head(s).file] # None
<1>1. \A i \in 1..Len(Tail(s)) : i + 1 \in 1..Len(s) /\ Tail(s)[i] = s[i + 1]
  OBVIOUS
<1>2. 1 \in 1..Len(s) /\ Head(s) = s[1]
  OBVIOUS
<1> QED BY <1>1, <1>2 DEF Served

LEMMA ServedGrows ==
  ASSUME NEW s \in Seq(Wired), NEW p, NEW q, Served(s, p),
         \A f \in Files : p[f] # None => q[f] # None
  PROVE  Served(s, q)
<1>1. \A m \in Wired : m.kind = "list" => m.file \in Files
  BY DEF Wired, Others, Responses, Msg
<1>2. \A i \in 1..Len(s) : s[i] \in Wired
  OBVIOUS
<1> QED BY <1>1, <1>2 DEF Served

LEMMA ListInit == Init => ListInv
<1> SUFFICES ASSUME Init PROVE ListInv
  OBVIOUS
<1>1. /\ asked = <<>> /\ wire = <<Msg("id", None, 0)>> /\ typed["list"] = <<>>
      /\ pending = [f \in Files |-> None] /\ chan = [c \in Channels |-> <<>>]
      /\ job = [j \in Jobs |-> Idle] /\ loop = [resp |-> NoResponse, ch |-> None]
  BY DEF Init, Kinds
<1>2. Queued
  <2>1. Served(wire, pending)
    BY <1>1 DEF Served, Msg
  <2> QED BY <1>1, <2>1 DEF Queued, Served
<1>3. OwnChannels /\ Asking
  <2>1. Idle.st = "idle"
    BY DEF Idle
  <2> QED BY <1>1, <2>1 DEF OwnChannels, Asking
<1>4. ListsExpected
  BY <1>1 DEF ListsExpected
<1> QED BY <1>2, <1>3, <1>4 DEF ListInv

\* A step that leaves the channels and the queues alone.
LEMMA ListQuiet ==
  ASSUME ListInv, UNCHANGED <<pending, chan, asked, wire, typed, loop>>,
         \A j \in Jobs : job'[j].st = "request" => job'[j] = job[j]
  PROVE  ListInv'
<1>1. Asking'
  BY DEF ListInv, Asking
<1> QED BY <1>1 DEF ListInv, ListsExpected, OwnChannels, Queued, Served

LEMMA ListJob ==
  ASSUME TypeInv, ListInv, NEW j \in Jobs, JobStep(j)
  PROVE  ListInv'
<1> DEFINE f == job[j].file
<1>0. job \in [Jobs -> Job] /\ Busy(job[j])
  BY DEF TypeInv, Working
<1>1. CASE PrepareFile(j)
  <2>1. job' = [job EXCEPT ![j] = [job[j] EXCEPT !.st = "lookup"]]
    BY <1>1 DEF PrepareFile
  <2>2. [job[j] EXCEPT !.st = "lookup"].st = "lookup"
    BY <1>0 DEF Job
  <2>3. UNCHANGED <<pending, chan, asked, wire, typed, loop>>
    BY <1>1 DEF PrepareFile
  <2>4. \A i \in Jobs : job'[i].st = "request" => job'[i] = job[i]
    BY <1>0, <2>1, <2>2
  <2> QED BY <2>3, <2>4, ListQuiet
<1>2. CASE LookupChannel(j)
  <2> DEFINE r == [job[j] EXCEPT !.st = IF pending[f] = None THEN "make" ELSE "request",
                                 !.ch = pending[f]]
  <2>1. job' = [job EXCEPT ![j] = r] /\ job[j].st = "lookup"
    BY <1>2 DEF LookupChannel
  <2>2. UNCHANGED <<pending, chan, asked, wire, typed, loop>>
    BY <1>2 DEF LookupChannel
  <2>3. /\ r.file = f /\ r.ch = pending[f] /\ f \in Files
        /\ r.st = "request" => pending[f] # None
    BY <1>0, <2>1 DEF Job, Busy
  <2>4. /\ job'[j] = r
        /\ \A i \in Jobs : i # j => job'[i] = job[i]
    BY <1>0, <2>1
  <2>5. Asking'
    <3> HIDE DEF r
    <3> QED BY <2>2, <2>3, <2>4 DEF ListInv, Asking, OwnChannels
  <2> QED BY <2>2, <2>5 DEF ListInv, ListsExpected, OwnChannels, Queued, Served
<1>3. CASE MakeChannel(j)
  <2> DEFINE r == [job[j] EXCEPT !.st = "request", !.ch = <<j, f>>]
  <2>1. /\ job' = [job EXCEPT ![j] = r] /\ job[j].st = "make"
        /\ pending' = [pending EXCEPT ![f] = <<j, f>>]
    BY <1>3 DEF MakeChannel
  <2>2. UNCHANGED <<chan, asked, wire, typed, loop>>
    BY <1>3 DEF MakeChannel
  <2>3. r.file = f /\ r.ch = <<j, f>> /\ f \in Files
    BY <1>0, <2>1 DEF Job, Busy
  <2>4. /\ job'[j] = r
        /\ \A i \in Jobs : i # j => job'[i] = job[i]
    BY <1>0, <2>1
  <2>5. <<j, f>> # None /\ <<j, f>>[2] = f
    BY <2>3, NodeLoopAssumption
  <2>6. /\ pending'[f] = <<j, f>>
        /\ \A g \in Files : g # f => pending'[g] = pending[g]
    BY <2>1, <2>3 DEF TypeInv, Tables
  <2>7. OwnChannels'
    BY <2>5, <2>6 DEF ListInv, OwnChannels
  <2>8. Asking'
    <3>1. ASSUME NEW i \in Jobs, job'[i].st = "request"
          PROVE  pending'[job'[i].file] # None /\ job'[i].ch[2] = job'[i].file
      <4>1. CASE i = j
        BY <2>3, <2>4, <2>5, <2>6, <4>1
      <4>2. CASE i # j
        <5>1. job'[i] = job[i] /\ job[i].file \in Files
          BY <2>4, <3>1, <4>2 DEF TypeInv, Working, Busy
        <5> QED BY <2>5, <2>6, <3>1, <5>1 DEF ListInv, Asking
      <4> QED BY <4>1, <4>2
    <3> QED BY <3>1 DEF Asking
  <2>9. Queued'
    <3>1. asked \in Seq(Wired) /\ wire \in Seq(Wired) /\ typed["list"] \in Seq(Wired)
      BY DEF TypeInv, Wires, Wired, Sorted, Kinds
    <3>2. \A g \in Files : pending[g] # None => pending'[g] # None
      BY <2>5, <2>6
    <3> QED BY <2>2, <3>1, <3>2, ServedGrows DEF ListInv, Queued
  <2> QED BY <2>2, <2>7, <2>8, <2>9 DEF ListInv, ListsExpected
<1>4. CASE Request(j)
  <2> DEFINE r == [job[j] EXCEPT !.st = "wait", !.req = asks]
             m == Msg("list", f, asks)
  <2>1. job' = [job EXCEPT ![j] = r] /\ job[j].st = "request" /\ asked' = Append(asked, m)
    BY <1>4 DEF Request
  <2>2. UNCHANGED <<pending, chan, wire, typed, loop>>
    BY <1>4 DEF Request
  <2>3. r.st = "wait"
    BY <1>0 DEF Job
  <2>4. Asking'
    BY <1>0, <2>1, <2>2, <2>3 DEF ListInv, Asking
  <2>5. m \in Responses /\ m.file = f
    BY <1>0, <2>1, NodeLoopAssumption DEF Busy, Msg, Responses, TypeInv, Plain
  <2>6. Served(asked', pending')
    <3>1. pending[m.file] # None
      BY <2>1, <2>5 DEF ListInv, Asking
    <3>2. asked \in Seq(Responses) /\ Served(asked, pending)
      BY DEF TypeInv, Wires, ListInv, Queued
    <3> HIDE DEF m
    <3> QED BY <2>1, <2>2, <2>5, <3>1, <3>2, ServedAppend
  <2> QED BY <2>2, <2>4, <2>6 DEF ListInv, ListsExpected, OwnChannels, Queued
<1>5. Idle.st = "idle"
  BY DEF Idle
<1>6. CASE WaitTimeout(j)
  <2>1. \A i \in Jobs : job'[i].st = "request" => job'[i] = job[i]
    BY <1>0, <1>5, <1>6 DEF WaitTimeout
  <2> QED BY <1>6, <2>1, ListQuiet DEF WaitTimeout
<1>7. CASE ReceiveList(j)
  <2> DEFINE c == job[j].ch
  <2>1. /\ job' = [job EXCEPT ![j] = Idle] /\ job[j].st = "wait" /\ chan[c] # <<>>
        /\ chan' = [chan EXCEPT ![c] = Tail(@)]
        /\ UNCHANGED <<pending, asked, wire, typed, loop>>
    BY <1>7 DEF ReceiveList
  <2>2. c \in Channels
    BY <1>0, <2>1 DEF Busy
  <2>3. chan \in [Channels -> Seq(Responses)]
    BY DEF TypeInv, Tables
  <2>4. ASSUME NEW d \in Channels, NEW k \in 1..Len(chan'[d])
        PROVE  chan'[d][k].file = d[2]
    <3>1. CASE d # c
      BY <2>1, <2>3, <2>4, <3>1 DEF ListInv, ListsExpected
    <3>2. CASE d = c
      <4>1. chan'[d] = Tail(chan[d]) /\ chan[d] \in Seq(Responses) /\ chan[d] # <<>>
        BY <2>1, <2>2, <2>3, <3>2
      <4>2. k + 1 \in 1..Len(chan[d]) /\ Tail(chan[d])[k] = chan[d][k + 1]
        BY <2>4, <4>1
      <4> QED BY <4>1, <4>2 DEF ListInv, ListsExpected
    <3> QED BY <3>1, <3>2
  <2>5. ListsExpected'
    BY <2>1, <2>4 DEF ListInv, ListsExpected
  <2>6. Asking'
    BY <1>0, <1>5, <2>1 DEF ListInv, Asking
  <2> QED BY <2>1, <2>5, <2>6 DEF ListInv, OwnChannels, Queued
<1> QED BY <1>1, <1>2, <1>3, <1>4, <1>6, <1>7 DEF JobStep

LEMMA ListWire ==
  ASSUME TypeInv, ListInv, TrackerAnswers \/ PeerSignals
  PROVE  ListInv'
<1>1. UNCHANGED <<job, pending, chan, typed, loop>>
  BY DEF TrackerAnswers, PeerSignals
<1>2. Served(asked', pending') /\ Served(wire', pending')
  <2>0. asked \in Seq(Responses) /\ wire \in Seq(Wired) /\ Responses \subseteq Wired
    BY DEF TypeInv, Wires, Wired
  <2>1. CASE TrackerAnswers
    <3> DEFINE h == Head(asked)
    <3>1. /\ asked # <<>> /\ asked' = Tail(asked)
          /\ wire' = wire \/ wire' = Append(wire, h)
      BY <2>1 DEF TrackerAnswers
    <3>2. /\ Served(Tail(asked), pending) /\ h \in Responses
          /\ h.kind = "list" => pending[h.file] # None
      BY <2>0, <3>1, ServedTail DEF ListInv, Queued
    <3>3. Served(Append(wire, h), pending)
      <4>1. h \in Wired
        BY <2>0, <3>2
      <4> HIDE DEF h
      <4> QED BY <2>0, <3>2, <4>1, ServedAppend DEF ListInv, Queued
    <3> QED BY <1>1, <3>1, <3>2, <3>3 DEF ListInv, Queued
  <2>2. CASE PeerSignals
    <3> DEFINE m == Msg("signal", None, 0)
    <3>1. wire' = Append(wire, m) /\ asked' = asked
      BY <2>2 DEF PeerSignals, startVars
    <3>2. m \in Wired /\ m.kind # "list"
      BY DEF Wired, Others, Msg
    <3> HIDE DEF m
    <3> QED BY <1>1, <2>0, <3>1, <3>2, ServedAppend DEF ListInv, Queued
  <2> QED BY <2>1, <2>2
<1> QED BY <1>1, <1>2 DEF ListInv, ListsExpected, OwnChannels, Asking, Queued

LEMMA ListRoute ==
  ASSUME TypeInv, ListInv, RouteMessage
  PROVE  ListInv'
<1> DEFINE m == Head(wire)
<1>1. /\ wire # <<>> /\ wire' = Tail(wire)
      /\ typed' = [typed EXCEPT ![m.kind] = Append(@, m)]
      /\ UNCHANGED <<job, pending, chan, asked, loop>>
  BY DEF RouteMessage
<1>2. /\ wire \in Seq(Wired) /\ typed \in [Kinds -> Seq(Wired)] /\ "list" \in Kinds
  BY DEF TypeInv, Wires, Sorted, Kinds
<1>3. /\ Served(Tail(wire), pending) /\ m \in Wired
      /\ m.kind = "list" => pending[m.file] # None
  BY <1>1, <1>2, ServedTail DEF ListInv, Queued
<1>4. Served(typed'["list"], pending)
  <2> HIDE DEF m
  <2>1. CASE m.kind = "list"
    <3>1. typed'["list"] = Append(typed["list"], m) /\ typed["list"] \in Seq(Wired)
      BY <1>1, <1>2, <2>1
    <3> QED BY <1>3, <2>1, <3>1, ServedAppend DEF ListInv, Queued
  <2>2. CASE m.kind # "list"
    <3>1. typed'["list"] = typed["list"]
      BY <1>1, <1>2, <2>2
    <3> QED BY <3>1 DEF ListInv, Queued
  <2> QED BY <2>1, <2>2
<1> QED BY <1>1, <1>3, <1>4 DEF ListInv, ListsExpected, OwnChannels, Asking, Queued

LEMMA ListLoop ==
  ASSUME TypeInv, ListInv, LoopStep
  PROVE  ListInv'
<1>0. typed \in [Kinds -> Seq(Wired)] /\ {"id", "signal", "list"} = Kinds
  BY DEF TypeInv, Sorted, Kinds
<1>1. ASSUME NEW k \in Kinds, typed' = Taken(k), typed[k] # <<>>
      PROVE  Served(typed'["list"], pending)
  <2>1. CASE k = "list"
    <3>1. typed'["list"] = Tail(typed["list"]) /\ typed["list"] \in Seq(Wired)
      BY <1>0, <1>1, <2>1 DEF Taken
    <3> QED BY <1>1, <2>1, <3>1, ServedTail DEF ListInv, Queued
  <2>2. CASE k # "list"
    <3>1. typed'["list"] = typed["list"]
      BY <1>0, <1>1, <2>2 DEF Taken
    <3> QED BY <3>1 DEF ListInv, Queued
  <2> QED BY <2>1, <2>2
<1>2. CASE HandleId \/ HandleSignal
  <2>1. Served(typed'["list"], pending)
    BY <1>0, <1>1, <1>2 DEF HandleId, HandleSignal, Selects
  <2>2. UNCHANGED <<job, pending, chan, asked, wire, loop>>
    BY <1>2 DEF HandleId, HandleSignal
  <2> QED BY <2>1, <2>2 DEF ListInv, ListsExpected, OwnChannels, Asking, Queued
<1>3. CASE HandleList
  <2> DEFINE m == Head(typed["list"])
  <2>1. /\ typed["list"] # <<>> /\ typed' = Taken("list")
        /\ loop' = [resp |-> m, ch |-> pending[m.file]]
        /\ UNCHANGED <<job, pending, chan, asked, wire>>
    BY <1>3 DEF HandleList, Selects
  <2>2. Served(typed'["list"], pending)
    BY <1>0, <1>1, <2>1
  <2>3. m \in Responses /\ m.kind = "list" /\ m.file \in Files
    <3>1. m \in Responses
      BY <1>0, <2>1, TypeTaken, ListKind DEF TypeInv
    <3> QED BY <3>1 DEF Responses
  <2>4. pending[m.file] # None /\ pending[m.file][2] = m.file
    <3>1. typed["list"] \in Seq(Wired)
      BY <1>0
    <3>2. pending[m.file] # None
      BY <2>1, <2>3, <3>1, ServedTail DEF ListInv, Queued
    <3> QED BY <2>3, <3>2 DEF ListInv, OwnChannels
  <2>5. loop'.ch # None /\ loop'.ch[2] = loop'.resp.file
    <3> HIDE DEF m
    <3> QED BY <2>1, <2>4
  <2> QED BY <2>1, <2>2, <2>5 DEF ListInv, ListsExpected, OwnChannels, Asking, Queued
<1>4. CASE HandOver
  <2> DEFINE c == loop.ch
             m == loop.resp
  <2>1. /\ m # NoResponse /\ c # None
        /\ chan' = [chan EXCEPT ![c] = Append(@, m)]
        /\ loop' = [resp |-> NoResponse, ch |-> None]
        /\ UNCHANGED <<job, pending, asked, wire, typed>>
    BY <1>4 DEF HandOver
  <2>2. c \in Channels /\ m \in Responses /\ chan \in [Channels -> Seq(Responses)]
    BY <2>1 DEF TypeInv, Tables, Held, Loops
  <2>3. m.file = c[2]
    BY <2>1 DEF ListInv, ListsExpected
  <2>4. ASSUME NEW d \in Channels, NEW k \in 1..Len(chan'[d])
        PROVE  chan'[d][k].file = d[2]
    <3> HIDE DEF c, m
    <3>1. CASE d # c
      BY <2>1, <2>2, <2>4, <3>1 DEF ListInv, ListsExpected
    <3>2. CASE d = c
      <4>1. chan'[d] = Append(chan[d], m) /\ chan[d] \in Seq(Responses)
        BY <2>1, <2>2, <3>2
      <4>2. CASE k \in 1..Len(chan[d])
        <5>1. chan'[d][k] = chan[d][k]
          BY <4>1, <4>2
        <5> QED BY <4>2, <5>1 DEF ListInv, ListsExpected
      <4>3. CASE k = Len(chan[d]) + 1
        BY <2>3, <3>2, <4>1, <4>3
      <4> QED BY <2>4, <4>1, <4>2, <4>3
    <3> QED BY <3>1, <3>2
  <2>5. ListsExpected'
    BY <2>1, <2>4 DEF ListsExpected
  <2> QED BY <2>1, <2>5 DEF ListInv, OwnChannels, Asking, Queued
<1> QED BY <1>2, <1>3, <1>4 DEF LoopStep

LEMMA ListNext == TypeInv /\ ListInv /\ [Next]_vars => ListInv'
<1> SUFFICES ASSUME TypeInv, ListInv, [Next]_vars PROVE ListInv'
  OBVIOUS
<1>1. CASE UNCHANGED vars
  BY <1>1, ListQuiet DEF vars
<1>2. CASE InitStep
  <2>1. UNCHANGED <<job, pending, chan, asked, wire, typed, loop>>
    BY <1>2 DEF InitStep, InitReset, InitLoad
  <2> QED BY <2>1, ListQuiet
<1>3. ASSUME NEW j \in Jobs, NEW f \in Files, DownloadSignal(j, f) PROVE ListInv'
  <2> DEFINE r == [Idle EXCEPT !.st = "slot", !.file = f]
  <2>1. job' = [job EXCEPT ![j] = r] /\ UNCHANGED <<pending, chan, asked, wire, typed, loop>>
    BY <1>3 DEF DownloadSignal
  <2>2. r.st = "slot"
    BY DEF Idle
  <2>3. \A i \in Jobs : job'[i].st = "request" => job'[i] = job[i]
    <3> HIDE DEF r
    <3> QED BY <2>1, <2>2 DEF TypeInv, Working
  <2> QED BY <2>1, <2>3, ListQuiet
<1> QED BY <1>1, <1>2, <1>3, ListJob, ListWire, ListRoute, ListLoop DEF Next

(***************************************************************************)
(* A peer list always has a channel, one of its own file: handleTrackerMsgs *)
(* never sends to a nil channel, and a download never takes the list of    *)
(* another file, however many goroutines look channels up at once, replace *)
(* each other's, give up, or are answered late.                            *)
(***************************************************************************)
THEOREM ListsExpectedHolds == Spec => []ListsExpected
<1>1. ListInv => ListsExpected
  BY DEF ListInv
<1> QED BY <1>1, ListInit, ListNext, TypeInit, TypeNext, PTL DEF Spec

-----------------------------------------------------------------------------
(***************************************************************************)
(* FreshList: as long as no request of a file was given up and none was    *)
(* made while another waited, at most one message about the file is under  *)
(* way, and it carries the request of the one goroutine that waits.        *)
(***************************************************************************)

\* Where a list, or the request for it, may be.
InAsked == <<"asked", None>>
InWire == <<"wire", None>>
InList == <<"list", None>>
InLoop == <<"loop", None>>
InChan(c) == <<"chan", c>>
Places == {InAsked, InWire, InList, InLoop} \cup {InChan(c) : c \in Channels}

\* What lies there, from the contents of the queues.
QueuesOf(q, w, l, r, ch) ==
    [p \in Places |-> CASE p[1] = "asked" -> q
                       [] p[1] = "wire"  -> w
                       [] p[1] = "list"  -> l
                       [] p[1] = "loop"  -> IF r = NoResponse THEN <<>> ELSE <<r>>
                       [] p[1] = "chan"  -> ch[p[2]]]

Queues == QueuesOf(asked, wire, typed["list"], loop.resp, chan)

\* The queues Q hold at most one message of file f.
Lone(Q, P, f) ==
    \A p, q \in P : \A i \in 1..Len(Q[p]), k \in 1..Len(Q[q]) :
        Q[p][i].file = f /\ Q[q][k].file = f => p = q /\ i = k

\* The queues Q hold no message of file f.
Absent(Q, P, f) == \A p \in P : \A i \in 1..Len(Q[p]) : Q[p][i].file # f

\* Each message of file f in the queues Q answers somebody who waits.
Awaited(Q, P, f) ==
    \A p \in P : \A i \in 1..Len(Q[p]) :
        Q[p][i].file = f => \E j \in Waiting(f) : job[j].req = Q[p][i].req

\* One goroutine waits for an unmixed file, and only its request is under way.
Tracked(f) ==
    /\ Lone(Queues, Places, f)
    /\ Awaited(Queues, Places, f)
    /\ \A j, k \in Waiting(f) : j = k

\* A goroutine waits on a channel of its file.
OnOwnChannel == \A j \in Jobs : job[j].st = "wait" => job[j].ch[2] = job[j].file

FreshInv == OnOwnChannel /\ \A f \in Files \ mixed : Tracked(f)

\* Every message of file f in R is one of Q.
Drawn(R, Q, P, f) ==
    \A p \in P : \A i \in 1..Len(R[p]) :
        R[p][i].file = f => \E q \in P : \E k \in 1..Len(Q[q]) : Q[q][k] = R[p][i]

LEMMA LoneUse ==
  ASSUME NEW P, NEW Q, NEW f, Lone(Q, P, f), NEW a \in P, NEW b \in P,
         NEW i \in 1..Len(Q[a]), NEW k \in 1..Len(Q[b]), Q[a][i].file = f, Q[b][k].file = f
  PROVE  a = b /\ i = k
  BY DEF Lone

LEMMA LoneDropped ==
  ASSUME NEW P, NEW S, NEW Q \in [P -> Seq(S)], NEW p \in P, Q[p] # <<>>,
         NEW R, \A a \in P : R[a] = IF a = p THEN Tail(Q[p]) ELSE Q[a],
         NEW f, Lone(Q, P, f)
  PROVE  /\ Lone(R, P, f) /\ Drawn(R, Q, P, f)
         /\ Head(Q[p]).file = f => Absent(R, P, f)
<1> DEFINE From(a, i) == IF a = p THEN i + 1 ELSE i
<1>1. \A a \in P : R[a] = IF a = p THEN Tail(Q[p]) ELSE Q[a]
  OBVIOUS
<1>2. ASSUME NEW a \in P, NEW i \in 1..Len(R[a])
      PROVE  From(a, i) \in 1..Len(Q[a]) /\ R[a][i] = Q[a][From(a, i)]
  <2>1. CASE a = p
    <3>1. R[a] = Tail(Q[a]) /\ Q[a] \in Seq(S) /\ Q[a] # <<>>
      BY <1>1, <2>1
    <3> QED BY <2>1, <3>1
  <2>2. CASE a # p
    BY <1>1, <2>2
  <2> QED BY <2>1, <2>2
<1>3. Drawn(R, Q, P, f)
  BY <1>2 DEF Drawn
<1>4. Lone(R, P, f)
  <2> SUFFICES ASSUME NEW a \in P, NEW b \in P, NEW i \in 1..Len(R[a]), NEW k \in 1..Len(R[b]),
                      R[a][i].file = f, R[b][k].file = f
               PROVE  a = b /\ i = k
    BY DEF Lone
  <2>1. /\ From(a, i) \in 1..Len(Q[a]) /\ Q[a][From(a, i)].file = f
        /\ From(b, k) \in 1..Len(Q[b]) /\ Q[b][From(b, k)].file = f
    BY <1>2
  <2>2. a = b /\ From(a, i) = From(b, k)
    <3> HIDE DEF From
    <3> QED BY <2>1, LoneUse
  <2> QED BY <2>2
<1>5. ASSUME Head(Q[p]).file = f, NEW a \in P, NEW i \in 1..Len(R[a]), R[a][i].file = f
      PROVE  FALSE
  <2>1. Q[p] \in Seq(S) /\ 1 \in 1..Len(Q[p]) /\ Q[p][1].file = f
    BY <1>5
  <2>2. From(a, i) \in 1..Len(Q[a]) /\ Q[a][From(a, i)].file = f
    BY <1>2, <1>5
  <2>3. a = p /\ From(a, i) = 1
    <3> HIDE DEF From
    <3> QED BY <2>1, <2>2, LoneUse
  <2> QED BY <2>3
<1> QED BY <1>3, <1>4, <1>5 DEF Absent

LEMMA LoneMoved ==
  ASSUME NEW P, NEW S, NEW Q \in [P -> Seq(S)], NEW s \in P, NEW t \in P, s # t, Q[s] # <<>>,
         NEW R,
         \A a \in P : R[a] = IF a = s THEN Tail(Q[s])
                             ELSE IF a = t THEN Append(Q[t], Head(Q[s])) ELSE Q[a],
         NEW f, Lone(Q, P, f)
  PROVE  Lone(R, P, f) /\ Drawn(R, Q, P, f)
<1> DEFINE n == Len(Q[t])
           Last(a, i) == a = t /\ i = n + 1
           To(a, i) == IF Last(a, i) THEN s ELSE a
           From(a, i) == IF Last(a, i) THEN 1 ELSE IF a = s THEN i + 1 ELSE i
<1>1. /\ R[s] = Tail(Q[s]) /\ R[t] = Append(Q[t], Head(Q[s]))
      /\ \A a \in P : a # s /\ a # t => R[a] = Q[a]
  OBVIOUS
<1>2. /\ Q[s] \in Seq(S) /\ Q[t] \in Seq(S) /\ n \in Nat
      /\ 1 \in 1..Len(Q[s]) /\ Head(Q[s]) = Q[s][1] /\ Head(Q[s]) \in S
  OBVIOUS
<1>3. ASSUME NEW a \in P, NEW i \in 1..Len(R[a])
      PROVE  /\ To(a, i) \in P /\ From(a, i) \in 1..Len(Q[To(a, i)])
             /\ R[a][i] = Q[To(a, i)][From(a, i)]
             /\ i \in Nat /\ (a = s => i > 0)
  <2>1. CASE a = s
    <3>1. i + 1 \in 1..Len(Q[s]) /\ Tail(Q[s])[i] = Q[s][i + 1] /\ i \in Nat /\ i > 0
      BY <1>1, <1>2, <2>1
    <3> QED BY <1>1, <2>1, <3>1
  <2>2. CASE a = t
    <3>1. i \in 1..(n + 1)
      BY <1>1, <1>2, <2>2
    <3>2. CASE i = n + 1
      BY <1>1, <1>2, <2>2, <3>2
    <3>3. CASE i \in 1..n
      <4>1. R[a][i] = Q[t][i]
        BY <1>1, <1>2, <2>2, <3>3
      <4>2. ~Last(a, i)
        BY <1>2, <3>3
      <4> QED BY <2>2, <3>3, <4>1, <4>2
    <3> QED BY <1>2, <3>1, <3>2, <3>3
  <2>3. CASE a # s /\ a # t
    BY <1>1, <2>3
  <2> QED BY <2>1, <2>2, <2>3
<1>4. Drawn(R, Q, P, f)
  <2> SUFFICES ASSUME NEW a \in P, NEW i \in 1..Len(R[a])
               PROVE  \E x \in P : \E y \in 1..Len(Q[x]) : Q[x][y] = R[a][i]
    BY Zenon DEF Drawn
  <2> HIDE DEF To, From
  <2>1. /\ To(a, i) \in P /\ From(a, i) \in 1..Len(Q[To(a, i)])
        /\ Q[To(a, i)][From(a, i)] = R[a][i]
    BY <1>3
  <2> QED BY <2>1
<1>5. ASSUME NEW a \in P, NEW b \in P, NEW i \in 1..Len(R[a]), NEW k \in 1..Len(R[b]),
             R[a][i].file = f, R[b][k].file = f
      PROVE  a = b /\ i = k
  <2>1. To(a, i) = To(b, k) /\ From(a, i) = From(b, k)
    <3> HIDE DEF To, From, Last, n
    <3>1. /\ To(a, i) \in P /\ From(a, i) \in 1..Len(Q[To(a, i)])
          /\ Q[To(a, i)][From(a, i)].file = f
      BY <1>3, <1>5
    <3>2. /\ To(b, k) \in P /\ From(b, k) \in 1..Len(Q[To(b, k)])
          /\ Q[To(b, k)][From(b, k)].file = f
      BY <1>3, <1>5
    <3> QED BY <3>1, <3>2, LoneUse
  <2>2. i \in Nat /\ k \in Nat /\ (a = s => i > 0) /\ (b = s => k > 0)
    BY <1>3
  <2> QED BY <1>2, <2>1, <2>2
<1>6. Lone(R, P, f)
  <2> HIDE DEF To, From, Last, n
  <2> QED BY <1>5 DEF Lone
<1> QED BY <1>4, <1>6

LEMMA AppendedFrom ==
  ASSUME NEW P, NEW S, NEW Q \in [P -> Seq(S)], NEW p \in P, NEW m \in S,
         NEW R, \A a \in P : R[a] = IF a = p THEN Append(Q[p], m) ELSE Q[a],
         NEW a \in P, NEW i \in 1..Len(R[a])
  PROVE  \/ i \in 1..Len(Q[a]) /\ R[a][i] = Q[a][i]
         \/ a = p /\ i = Len(Q[p]) + 1 /\ R[a][i] = m
<1>1. CASE a = p
  <2>1. Q[p] \in Seq(S)
    OBVIOUS
  <2>2. R[a] = Append(Q[p], m)
    BY <1>1, Zenon
  <2>3. i \in 1..Len(Q[p]) \/ i = Len(Q[p]) + 1
    BY <2>1, <2>2
  <2> QED BY <1>1, <2>1, <2>2, <2>3
<1>2. CASE a # p
  BY <1>2
<1> QED BY <1>1, <1>2

LEMMA LoneAppended ==
  ASSUME NEW P, NEW S, NEW Q \in [P -> Seq(S)], NEW p \in P, NEW m \in S,
         NEW R, \A a \in P : R[a] = IF a = p THEN Append(Q[p], m) ELSE Q[a],
         NEW f, m.file # f, Lone(Q, P, f)
  PROVE  Lone(R, P, f) /\ Drawn(R, Q, P, f)
<1>1. ASSUME NEW a \in P, NEW i \in 1..Len(R[a]), R[a][i].file = f
      PROVE  i \in 1..Len(Q[a]) /\ R[a][i] = Q[a][i]
  BY <1>1, AppendedFrom
<1>2. ASSUME NEW a \in P, NEW b \in P, NEW i \in 1..Len(R[a]), NEW k \in 1..Len(R[b]),
             R[a][i].file = f, R[b][k].file = f
      PROVE  a = b /\ i = k
  <2>1. /\ i \in 1..Len(Q[a]) /\ Q[a][i].file = f
        /\ k \in 1..Len(Q[b]) /\ Q[b][k].file = f
    BY <1>1, <1>2
  <2> QED BY <2>1, LoneUse
<1> QED BY <1>1, <1>2 DEF Lone, Drawn

LEMMA OnlyAppended ==
  ASSUME NEW P, NEW S, NEW Q \in [P -> Seq(S)], NEW p \in P, NEW m \in S,
         NEW R, \A a \in P : R[a] = IF a = p THEN Append(Q[p], m) ELSE Q[a],
         NEW f, Absent(Q, P, f)
  PROVE  /\ Lone(R, P, f)
         /\ \A a \in P : \A i \in 1..Len(R[a]) : R[a][i].file = f => R[a][i] = m
<1>1. ASSUME NEW a \in P, NEW i \in 1..Len(R[a]), R[a][i].file = f
      PROVE  a = p /\ i = Len(Q[p]) + 1 /\ R[a][i] = m
  <2>1. ~(i \in 1..Len(Q[a]) /\ R[a][i] = Q[a][i])
    BY <1>1 DEF Absent
  <2> QED BY <2>1, AppendedFrom
<1> QED BY <1>1 DEF Lone

LEMMA QueuesAre ==
  /\ Queues[InAsked] = asked /\ Queues[InWire] = wire /\ Queues[InList] = typed["list"]
  /\ Queues[InLoop] = IF loop.resp = NoResponse THEN <<>> ELSE <<loop.resp>>
  /\ \A c \in Channels : Queues[InChan(c)] = chan[c]
  BY DEF Queues, QueuesOf, Places, InAsked, InWire, InList, InLoop, InChan

LEMMA QueuesNext ==
  /\ Queues'[InAsked] = asked' /\ Queues'[InWire] = wire' /\ Queues'[InList] = typed'["list"]
  /\ Queues'[InLoop] = IF loop'.resp = NoResponse THEN <<>> ELSE <<loop'.resp>>
  /\ \A c \in Channels : Queues'[InChan(c)] = chan'[c]
  BY DEF Queues, QueuesOf, Places, InAsked, InWire, InList, InLoop, InChan

LEMMA PlacesAre ==
  /\ InAsked # InWire /\ InAsked # InList /\ InAsked # InLoop
  /\ InWire # InList /\ InWire # InLoop /\ InList # InLoop
  /\ \A c \in Channels : /\ InChan(c) \in Places
                         /\ InChan(c) # InAsked /\ InChan(c) # InWire
                         /\ InChan(c) # InList /\ InChan(c) # InLoop
  /\ \A c, d \in Channels : InChan(c) = InChan(d) => c = d
  /\ InAsked \in Places /\ InWire \in Places /\ InList \in Places /\ InLoop \in Places
  /\ \A p \in Places : \/ p \in {InAsked, InWire, InList, InLoop}
                       \/ \E c \in Channels : p = InChan(c)
  BY DEF Places, InAsked, InWire, InList, InLoop, InChan

LEMMA QueuesType == TypeInv => Queues \in [Places -> Seq(Wired)]
<1> SUFFICES ASSUME TypeInv PROVE Queues \in [Places -> Seq(Wired)]
  OBVIOUS
<1>1. /\ asked \in Seq(Wired) /\ wire \in Seq(Wired) /\ typed["list"] \in Seq(Wired)
      /\ \A c \in Channels : chan[c] \in Seq(Wired)
      /\ loop.resp # NoResponse => loop.resp \in Wired
  BY DEF TypeInv, Wires, Sorted, Kinds, Tables, Held, Wired
<1>2. \A p \in Places : Queues[p] \in Seq(Wired)
  <2> SUFFICES ASSUME NEW p \in Places PROVE Queues[p] \in Seq(Wired)
    OBVIOUS
  <2>1. CASE p \in {InAsked, InWire, InList}
    BY <1>1, <2>1, QueuesAre
  <2>2. CASE p = InLoop
    <3>1. Queues[p] = IF loop.resp = NoResponse THEN <<>> ELSE <<loop.resp>>
      BY <2>2, QueuesAre
    <3> QED BY <1>1, <3>1
  <2>3. ASSUME NEW c \in Channels, p = InChan(c) PROVE Queues[p] \in Seq(Wired)
    <3>1. Queues[p] = chan[c]
      BY <2>3, QueuesAre
    <3> QED BY <1>1, <3>1
  <2> QED BY <2>1, <2>2, <2>3, PlacesAre
<1> QED BY <1>2 DEF Queues, QueuesOf

\* Where a file's messages and its goroutine are left alone it stays tracked.
LEMMA TrackedKept ==
  ASSUME NEW f, Tracked(f), Lone(Queues', Places, f), Drawn(Queues', Queues, Places, f),
         \A i \in Jobs : \/ job'[i].st = "wait" /\ job'[i].file = f
                         \/ job[i].st = "wait" /\ job[i].file = f
                         => job'[i] = job[i]
  PROVE  Tracked(f)'
<1>1. Waiting(f)' = Waiting(f) /\ \A i \in Waiting(f) : job'[i] = job[i]
  BY DEF Waiting
<1>2. ASSUME NEW p \in Places, NEW i \in 1..Len(Queues'[p]), Queues'[p][i].file = f
      PROVE  \E j \in Waiting(f) : job'[j].req = Queues'[p][i].req
  <2>1. PICK q \in Places : \E k \in 1..Len(Queues[q]) : Queues[q][k] = Queues'[p][i]
    BY <1>2 DEF Drawn
  <2>2. PICK k \in 1..Len(Queues[q]) : Queues[q][k] = Queues'[p][i]
    BY <2>1
  <2>3. \E j \in Waiting(f) : job[j].req = Queues[q][k].req
    BY <1>2, <2>2 DEF Tracked, Awaited
  <2> QED BY <1>1, <2>2, <2>3
<1>3. Awaited(Queues, Places, f)'
  BY <1>1, <1>2 DEF Awaited
<1>4. (\A j, k \in Waiting(f) : j = k)'
  BY <1>1 DEF Tracked
<1> QED BY <1>3, <1>4 DEF Tracked

\* The goroutines that wait are left alone.
LEMMA FreshKept ==
  ASSUME FreshInv, mixed \subseteq mixed',
         \A i \in Jobs : job'[i].st = "wait" \/ job[i].st = "wait" => job'[i] = job[i],
         \A f \in Files \ mixed : Lone(Queues, Places, f) =>
             Lone(Queues', Places, f) /\ Drawn(Queues', Queues, Places, f)
  PROVE  FreshInv'
<1>1. OnOwnChannel'
  BY DEF FreshInv, OnOwnChannel
<1>2. ASSUME NEW f \in Files \ mixed' PROVE Tracked(f)'
  <2>1. Tracked(f) /\ Lone(Queues', Places, f) /\ Drawn(Queues', Queues, Places, f)
    BY DEF FreshInv, Tracked
  <2> QED BY <2>1, TrackedKept
<1> QED BY <1>1, <1>2 DEF FreshInv

LEMMA LoneSame ==
  ASSUME NEW Q, NEW f PROVE Drawn(Q, Q, Places, f)
  BY DEF Drawn

LEMMA FreshQuiet ==
  ASSUME FreshInv, UNCHANGED <<asked, wire, chan, mixed>>, typed'["list"] = typed["list"],
         loop'.resp = loop.resp,
         \A i \in Jobs : job'[i].st = "wait" \/ job[i].st = "wait" => job'[i] = job[i]
  PROVE  FreshInv'
<1>1. Queues' = Queues
  BY DEF Queues
<1>2. \A f \in Files \ mixed : Lone(Queues, Places, f) =>
          Lone(Queues', Places, f) /\ Drawn(Queues', Queues, Places, f)
  BY <1>1, LoneSame
<1> QED BY <1>2, FreshKept

LEMMA FreshInit == Init => FreshInv
<1> SUFFICES ASSUME Init PROVE FreshInv
  OBVIOUS
<1>1. /\ asked = <<>> /\ wire = <<Msg("id", None, 0)>> /\ typed["list"] = <<>>
      /\ chan = [c \in Channels |-> <<>>] /\ loop.resp = NoResponse
      /\ \A j \in Jobs : job[j].st = "idle"
  BY DEF Init, Kinds, Idle
<1>2. ASSUME NEW p \in Places, NEW i \in 1..Len(Queues[p]) PROVE Queues[p][i].file = None
  <2>1. CASE p = InWire
    <3>1. Queues[p] = <<Msg("id", None, 0)>>
      BY <1>1, <2>1, QueuesAre
    <3> QED BY <1>2, <3>1 DEF Msg
  <2>2. CASE p # InWire
    <3>1. Queues[p] = <<>>
      BY <1>1, <2>2, QueuesAre, PlacesAre
    <3> QED BY <1>2, <3>1
  <2> QED BY <2>1, <2>2
<1>3. \A f \in Files : Lone(Queues, Places, f) /\ Awaited(Queues, Places, f)
  <2> QED BY <1>2, NoneApart DEF Lone, Awaited
<1>4. \A f \in Files : Waiting(f) = {}
  BY <1>1 DEF Waiting
<1> QED BY <1>1, <1>3, <1>4 DEF FreshInv, OnOwnChannel, Tracked

\* The first message of one place leaves it.
LEMMA FreshDrop ==
  ASSUME TypeInv, FreshInv, UNCHANGED <<job, mixed>>, NEW s \in Places, Queues[s] # <<>>,
         \A p \in Places : Queues'[p] = IF p = s THEN Tail(Queues[s]) ELSE Queues[p]
  PROVE  FreshInv'
<1>1. \A f \in Files \ mixed : Lone(Queues, Places, f) =>
          Lone(Queues', Places, f) /\ Drawn(Queues', Queues, Places, f)
  BY QueuesType, LoneDropped
<1> QED BY <1>1, FreshKept

\* The first message of one place moves to the end of another.
LEMMA FreshMove ==
  ASSUME TypeInv, FreshInv, UNCHANGED <<job, mixed>>, NEW s \in Places, NEW t \in Places,
         s # t, Queues[s] # <<>>,
         \A p \in Places : Queues'[p] = IF p = s THEN Tail(Queues[s])
                                        ELSE IF p = t THEN Append(Queues[t], Head(Queues[s]))
                                        ELSE Queues[p]
  PROVE  FreshInv'
<1>1. \A f \in Files \ mixed : Lone(Queues, Places, f) =>
          Lone(Queues', Places, f) /\ Drawn(Queues', Queues, Places, f)
  BY QueuesType, LoneMoved
<1> QED BY <1>1, FreshKept

\* A message of another file, or of none, is added at one place.
LEMMA OtherAdded ==
  ASSUME TypeInv, NEW s \in Places, NEW m \in Wired, NEW f, m.file # f,
         Lone(Queues, Places, f),
         \A p \in Places : Queues'[p] = IF p = s THEN Append(Queues[s], m) ELSE Queues[p]
  PROVE  Lone(Queues', Places, f) /\ Drawn(Queues', Queues, Places, f)
<1>1. PICK Q \in [Places -> Seq(Wired)] : Q = Queues
  BY QueuesType
<1>2. PICK R : R = Queues'
  OBVIOUS
<1>3. \A a \in Places : R[a] = IF a = s THEN Append(Q[s], m) ELSE Q[a]
  BY <1>1, <1>2
<1>4. Lone(Q, Places, f)
  BY <1>1
<1>5. Lone(R, Places, f) /\ Drawn(R, Q, Places, f)
  <2>1. PICK P, S : P = Places /\ S = Wired
    OBVIOUS
  <2>2. Q \in [P -> Seq(S)] /\ s \in P /\ m \in S /\ Lone(Q, P, f)
    BY <1>4, <2>1
  <2>3. \A a \in P : R[a] = IF a = s THEN Append(Q[s], m) ELSE Q[a]
    BY <1>3, <2>1
  <2>4. Lone(R, P, f) /\ Drawn(R, Q, P, f)
    BY <2>2, <2>3, LoneAppended
  <2> QED BY <2>1, <2>4
<1> QED BY <1>1, <1>2, <1>5

LEMMA FreshWire ==
  ASSUME TypeInv, FreshInv, TrackerAnswers \/ PeerSignals
  PROVE  FreshInv'
<1>1. CASE TrackerAnswers
  <2>1. /\ UNCHANGED <<job, mixed, chan, typed, loop>>
        /\ asked # <<>> /\ asked' = Tail(asked)
        /\ wire' = wire \/ wire' = Append(wire, Head(asked))
    BY <1>1 DEF TrackerAnswers
  <2>2. CASE wire' = wire
    <3>0. /\ Queues'[InAsked] = Tail(Queues[InAsked]) /\ Queues'[InWire] = Queues[InWire]
          /\ Queues'[InList] = Queues[InList] /\ Queues'[InLoop] = Queues[InLoop]
          /\ \A c \in Channels : Queues'[InChan(c)] = Queues[InChan(c)]
      BY <2>1, <2>2, QueuesAre, QueuesNext
    <3>1. \A p \in Places : Queues'[p] = IF p = InAsked THEN Tail(Queues[InAsked]) ELSE Queues[p]
      BY <3>0, PlacesAre
    <3> QED BY <2>1, <3>1, QueuesAre, PlacesAre, FreshDrop
  <2>3. CASE wire' = Append(wire, Head(asked))
    <3>0. /\ Queues'[InAsked] = Tail(Queues[InAsked])
          /\ Queues'[InWire] = Append(Queues[InWire], Head(Queues[InAsked]))
          /\ Queues'[InList] = Queues[InList] /\ Queues'[InLoop] = Queues[InLoop]
          /\ \A c \in Channels : Queues'[InChan(c)] = Queues[InChan(c)]
      BY <2>1, <2>3, QueuesAre, QueuesNext
    <3>1. \A p \in Places : Queues'[p] = IF p = InAsked THEN Tail(Queues[InAsked])
                                         ELSE IF p = InWire
                                              THEN Append(Queues[InWire], Head(Queues[InAsked]))
                                         ELSE Queues[p]
      BY <3>0, PlacesAre
    <3> QED BY <2>1, <3>1, QueuesAre, PlacesAre, FreshMove
  <2> QED BY <2>1, <2>2, <2>3
<1>2. CASE PeerSignals
  <2>1. /\ UNCHANGED <<job, mixed, asked, chan, typed, loop>>
        /\ wire' = Append(wire, Msg("signal", None, 0))
    BY <1>2 DEF PeerSignals
  <2>2. PICK m \in Wired : m = Msg("signal", None, 0)
    BY DEF Wired, Others
  <2>3. \A p \in Places : Queues'[p] = IF p = InWire THEN Append(Queues[InWire], m) ELSE Queues[p]
    <3>1. /\ Queues'[InAsked] = Queues[InAsked] /\ Queues'[InWire] = Append(Queues[InWire], m)
          /\ Queues'[InList] = Queues[InList] /\ Queues'[InLoop] = Queues[InLoop]
          /\ \A c \in Channels : Queues'[InChan(c)] = Queues[InChan(c)]
      BY <2>1, <2>2, QueuesAre, QueuesNext
    <3> QED BY <3>1, PlacesAre
  <2>4. \A f \in Files : m.file # f
    BY <2>2, NoneApart DEF Msg
  <2>5. ASSUME NEW f \in Files \ mixed, Lone(Queues, Places, f)
        PROVE  Lone(Queues', Places, f) /\ Drawn(Queues', Queues, Places, f)
    <3>1. m.file # f /\ InWire \in Places
      BY <2>4, PlacesAre
    <3> QED BY <2>3, <2>5, <3>1, OtherAdded
  <2> QED BY <2>1, <2>5, FreshKept
<1> QED BY <1>1, <1>2

LEMMA FreshRoute ==
  ASSUME TypeInv, FreshInv, RouteMessage
  PROVE  FreshInv'
<1>1. PICK m : m = Head(wire)
  OBVIOUS
<1>2. /\ UNCHANGED <<job, mixed, asked, chan, loop>>
      /\ wire # <<>> /\ wire' = Tail(wire)
      /\ typed' = [typed EXCEPT ![m.kind] = Append(typed[m.kind], m)]
      /\ typed \in [Kinds -> Seq(Wired)] /\ "list" \in Kinds
  BY <1>1 DEF RouteMessage, TypeInv, Sorted, Kinds
<1>3. CASE m.kind = "list"
  <2>1. typed'["list"] = Append(typed["list"], m)
    BY <1>2, <1>3
  <2>2. \A p \in Places : Queues'[p] = IF p = InWire THEN Tail(Queues[InWire])
                                       ELSE IF p = InList
                                            THEN Append(Queues[InList], Head(Queues[InWire]))
                                       ELSE Queues[p]
    <3>1. /\ Queues'[InAsked] = Queues[InAsked] /\ Queues'[InWire] = Tail(Queues[InWire])
          /\ Queues'[InList] = Append(Queues[InList], Head(Queues[InWire]))
          /\ Queues'[InLoop] = Queues[InLoop]
          /\ \A c \in Channels : Queues'[InChan(c)] = Queues[InChan(c)]
      BY <1>1, <1>2, <2>1, QueuesAre, QueuesNext
    <3> QED BY <3>1, PlacesAre
  <2> QED BY <1>2, <2>2, QueuesAre, PlacesAre, FreshMove
<1>4. CASE m.kind # "list"
  <2>1. typed'["list"] = typed["list"]
    BY <1>2, <1>4
  <2>2. \A p \in Places : Queues'[p] = IF p = InWire THEN Tail(Queues[InWire]) ELSE Queues[p]
    <3>1. /\ Queues'[InAsked] = Queues[InAsked] /\ Queues'[InWire] = Tail(Queues[InWire])
          /\ Queues'[InList] = Queues[InList] /\ Queues'[InLoop] = Queues[InLoop]
          /\ \A c \in Channels : Queues'[InChan(c)] = Queues[InChan(c)]
      BY <1>2, <2>1, QueuesAre, QueuesNext
    <3> QED BY <3>1, PlacesAre
  <2> QED BY <1>2, <2>2, QueuesAre, PlacesAre, FreshDrop
<1> QED BY <1>3, <1>4

LEMMA FreshLoop ==
  ASSUME TypeInv, FreshInv, LoopStep
  PROVE  FreshInv'
<1>0. typed \in [Kinds -> Seq(Wired)] /\ {"id", "signal", "list"} = Kinds
  BY DEF TypeInv, Sorted, Kinds
<1>1. CASE HandleId \/ HandleSignal
  <2>1. UNCHANGED <<asked, wire, chan, mixed, job, loop>> /\ typed'["list"] = typed["list"]
    BY <1>0, <1>1 DEF HandleId, HandleSignal, Taken
  <2> QED BY <2>1, FreshQuiet
<1>2. CASE HandleList
  <2>1. PICK m : m = Head(typed["list"])
    OBVIOUS
  <2>2. /\ UNCHANGED <<job, mixed, asked, wire, chan>>
        /\ loop.resp = NoResponse /\ loop'.resp = m
        /\ typed["list"] # <<>> /\ typed' = Taken("list")
    BY <1>2, <2>1 DEF HandleList, Selects
  <2>3. m # NoResponse
    <3>1. m \in Responses
      BY <1>0, <2>1, <2>2, TypeTaken, ListKind DEF TypeInv
    <3> QED BY <3>1 DEF Responses, NoResponse, Msg
  <2>4. typed'["list"] = Tail(typed["list"])
    BY <1>0, <2>2 DEF Taken
  <2>5. Queues'[InLoop] = Append(Queues[InLoop], Head(Queues[InList]))
    <3>1. Queues[InLoop] = <<>> /\ Queues'[InLoop] = <<m>> /\ Head(Queues[InList]) = m
      BY <2>1, <2>2, <2>3, QueuesAre, QueuesNext
    <3> QED BY <3>1
  <2>6. \A p \in Places : Queues'[p] = IF p = InList THEN Tail(Queues[InList])
                                       ELSE IF p = InLoop
                                            THEN Append(Queues[InLoop], Head(Queues[InList]))
                                       ELSE Queues[p]
    <3> QED BY <2>2, <2>4, <2>5, QueuesAre, QueuesNext, PlacesAre
  <2> QED BY <2>2, <2>6, QueuesAre, PlacesAre, FreshMove
<1>3. CASE HandOver
  <2>1. PICK c : c = loop.ch
    OBVIOUS
  <2>2. PICK m : m = loop.resp
    OBVIOUS
  <2>3. /\ UNCHANGED <<job, mixed, asked, wire, typed>>
        /\ m # NoResponse /\ c # None
        /\ chan' = [chan EXCEPT ![c] = Append(chan[c], m)]
        /\ loop'.resp = NoResponse
    BY <1>3, <2>1, <2>2 DEF HandOver
  <2>4. c \in Channels /\ chan \in [Channels -> Seq(Responses)]
    BY <2>1, <2>3 DEF TypeInv, Tables, Loops
  <2>5. Queues[InLoop] = <<m>> /\ Queues'[InLoop] = <<>>
    BY <2>2, <2>3, QueuesAre, QueuesNext
  <2>6. Head(Queues[InLoop]) = m /\ Tail(Queues[InLoop]) = <<>> /\ Queues[InLoop] # <<>>
    <3> QED BY <2>5
  <2>7. /\ chan'[c] = Append(chan[c], m)
        /\ \A d \in Channels : d # c => chan'[d] = chan[d]
    BY <2>3, <2>4
  <2>8. ASSUME NEW p \in Places
        PROVE  Queues'[p] = IF p = InLoop THEN Tail(Queues[InLoop])
                            ELSE IF p = InChan(c)
                                 THEN Append(Queues[InChan(c)], Head(Queues[InLoop]))
                            ELSE Queues[p]
    <3>1. CASE p \in {InAsked, InWire, InList, InLoop}
      BY <2>3, <2>4, <2>5, <2>6, <3>1, QueuesAre, QueuesNext, PlacesAre
    <3>2. ASSUME NEW d \in Channels, p = InChan(d)
          PROVE  Queues'[p] = IF p = InChan(c)
                              THEN Append(Queues[InChan(c)], m) ELSE Queues[p]
      BY <2>4, <2>7, <3>2, QueuesAre, QueuesNext, PlacesAre
    <3> QED BY <2>6, <3>1, <3>2, PlacesAre
  <2> QED BY <2>3, <2>4, <2>6, <2>8, PlacesAre, FreshMove
<1> QED BY <1>1, <1>2, <1>3 DEF LoopStep

LEMMA FreshRequest ==
  ASSUME TypeInv, ListInv, FreshInv, NEW j \in Jobs, Request(j)
  PROVE  FreshInv'
<1>1. PICK f \in Files : f = job[j].file
  BY DEF TypeInv, Working, Busy, Request
<1>2. PICK m \in Wired : m = Msg("list", f, asks) /\ m.file = f /\ m.req = asks
  <2>1. Msg("list", f, asks) \in Responses
    BY <1>1, NodeLoopAssumption DEF Msg, Responses, TypeInv, Plain
  <2> QED BY <2>1 DEF Msg, Wired
<1>3. /\ UNCHANGED <<wire, chan, typed, loop>>
      /\ asked' = Append(asked, m)
      /\ mixed' = IF Waiting(f) = {} THEN mixed ELSE mixed \cup {f}
      /\ job[j].st = "request"
  BY <1>1, <1>2 DEF Request
<1>4. /\ job'[j].st = "wait" /\ job'[j].file = f /\ job'[j].req = asks
      /\ job'[j].ch = job[j].ch
      /\ \A i \in Jobs : i # j => job'[i] = job[i]
  <2>1. job \in [Jobs -> Job]
    BY DEF TypeInv, Working
  <2>2. job' = [job EXCEPT ![j] = [job[j] EXCEPT !.st = "wait", !.req = asks]]
    BY DEF Request
  <2>3. job[j] \in Job
    BY <2>1
  <2> QED BY <1>1, <2>1, <2>2, <2>3 DEF Job
<1>5. OnOwnChannel'
  BY <1>1, <1>3, <1>4 DEF FreshInv, OnOwnChannel, ListInv, Asking
<1>6. Queues \in [Places -> Seq(Wired)] /\ InAsked \in Places
  BY QueuesType, PlacesAre
<1>7. \A p \in Places : Queues'[p] = IF p = InAsked THEN Append(Queues[InAsked], m) ELSE Queues[p]
  <2>1. /\ Queues'[InAsked] = Append(Queues[InAsked], m) /\ Queues'[InWire] = Queues[InWire]
        /\ Queues'[InList] = Queues[InList] /\ Queues'[InLoop] = Queues[InLoop]
        /\ \A c \in Channels : Queues'[InChan(c)] = Queues[InChan(c)]
    BY <1>3, QueuesAre, QueuesNext
  <2> QED BY <2>1, PlacesAre
<1>8. ASSUME NEW g \in Files \ mixed', g # f PROVE Tracked(g)'
  <2>1. Tracked(g)
    BY <1>3, <1>8 DEF FreshInv
  <2>2. m.file # g /\ Lone(Queues, Places, g)
    BY <1>2, <1>8, <2>1 DEF Tracked
  <2>3. Lone(Queues', Places, g) /\ Drawn(Queues', Queues, Places, g)
    BY <1>6, <1>7, <2>2, OtherAdded
  <2>4. \A i \in Jobs : \/ job'[i].st = "wait" /\ job'[i].file = g
                        \/ job[i].st = "wait" /\ job[i].file = g
                        => job'[i] = job[i]
    BY <1>3, <1>4, <1>8
  <2> QED BY <2>1, <2>3, <2>4, TrackedKept
<1>9. ASSUME f \notin mixed' PROVE Tracked(f)'
  <2>1. Waiting(f) = {} /\ Tracked(f)
    BY <1>1, <1>3, <1>9 DEF FreshInv
  <2>2. Absent(Queues, Places, f)
    BY <2>1 DEF Tracked, Awaited, Absent
  <2>3. /\ Lone(Queues', Places, f)
        /\ \A a \in Places : \A i \in 1..Len(Queues'[a]) :
              Queues'[a][i].file = f => Queues'[a][i] = m
    BY <1>6, <1>7, <2>2, OnlyAppended
  <2>4. Waiting(f)' = {j}
    BY <1>4, <2>1 DEF Waiting
  <2>5. Awaited(Queues, Places, f)'
    BY <1>2, <1>4, <2>2, <2>3, <2>4 DEF Awaited
  <2> QED BY <2>2, <2>3, <2>4, <2>5 DEF Tracked
<1> QED BY <1>5, <1>8, <1>9 DEF FreshInv

\* A goroutine that receives takes the only message of an unmixed file.
LEMMA HeadIsOwn ==
  ASSUME TypeInv, ListInv, FreshInv, NEW j \in Jobs, ReceiveList(j),
         NEW f \in Files, f = job[j].file
  PROVE  /\ job[j].ch \in Channels
         /\ Queues[InChan(job[j].ch)] = chan[job[j].ch]
         /\ chan[job[j].ch] \in Seq(Responses) /\ 1 \in 1..Len(chan[job[j].ch])
         /\ Head(chan[job[j].ch]) = chan[job[j].ch][1]
         /\ Head(chan[job[j].ch]).file = f
<1>1. PICK c \in Channels : c = job[j].ch
  BY DEF TypeInv, Working, Busy, ReceiveList
<1>2. chan[c] \in Seq(Responses) /\ chan[c] # <<>> /\ c[2] = f
  BY <1>1 DEF TypeInv, Tables, ReceiveList, FreshInv, OnOwnChannel
<1>3. 1 \in 1..Len(chan[c]) /\ Head(chan[c]) = chan[c][1]
  BY <1>2
<1>4. Head(chan[c]).file = f
  BY <1>2, <1>3 DEF ListInv, ListsExpected
<1> QED BY <1>1, <1>2, <1>3, <1>4, QueuesAre

LEMMA FreshReceive ==
  ASSUME TypeInv, ListInv, FreshInv, NEW j \in Jobs, ReceiveList(j)
  PROVE  FreshInv'
<1>1. PICK f \in Files : f = job[j].file
  BY DEF TypeInv, Working, Busy, ReceiveList
<1>2. PICK c \in Channels : c = job[j].ch
  BY <1>1, HeadIsOwn
<1>3. /\ UNCHANGED <<asked, wire, typed, loop, mixed>>
      /\ chan \in [Channels -> Seq(Responses)]
      /\ chan' = [chan EXCEPT ![c] = Tail(chan[c])] /\ chan[c] # <<>>
      /\ job[j].st = "wait" /\ job'[j].st = "idle"
      /\ \A i \in Jobs : i # j => job'[i] = job[i]
  BY <1>2 DEF ReceiveList, TypeInv, Tables, Working, Idle
<1>4. Queues \in [Places -> Seq(Wired)] /\ InChan(c) \in Places /\ Queues[InChan(c)] # <<>>
  BY <1>3, QueuesType, QueuesAre, PlacesAre
<1>5. \A p \in Places : Queues'[p] = IF p = InChan(c) THEN Tail(Queues[InChan(c)]) ELSE Queues[p]
  <2>1. /\ Queues'[InAsked] = Queues[InAsked] /\ Queues'[InWire] = Queues[InWire]
        /\ Queues'[InList] = Queues[InList] /\ Queues'[InLoop] = Queues[InLoop]
    BY <1>3, QueuesAre, QueuesNext
  <2>2. \A d \in Channels : Queues'[InChan(d)] = IF d = c THEN Tail(Queues[InChan(c)])
                                                 ELSE Queues[InChan(d)]
    BY <1>3, QueuesAre, QueuesNext
  <2> QED BY <2>1, <2>2, PlacesAre
<1>6. ASSUME NEW g \in Files \ mixed', g # f PROVE Tracked(g)'
  <2>1. Tracked(g) /\ Lone(Queues, Places, g)
    BY <1>3, <1>6 DEF FreshInv, Tracked
  <2>2. Lone(Queues', Places, g) /\ Drawn(Queues', Queues, Places, g)
    BY <1>4, <1>5, <2>1, LoneDropped
  <2>3. \A i \in Jobs : \/ job'[i].st = "wait" /\ job'[i].file = g
                        \/ job[i].st = "wait" /\ job[i].file = g
                        => job'[i] = job[i]
    BY <1>1, <1>3, <1>6
  <2> QED BY <2>1, <2>2, <2>3, TrackedKept
<1>7. ASSUME f \notin mixed' PROVE Tracked(f)'
  <2>1. Tracked(f) /\ Lone(Queues, Places, f)
    BY <1>3, <1>7 DEF FreshInv, Tracked
  <2>2. Head(Queues[InChan(c)]).file = f
    BY <1>1, <1>2, HeadIsOwn
  <2>3. Lone(Queues', Places, f) /\ Absent(Queues', Places, f)
    BY <1>4, <1>5, <2>1, <2>2, LoneDropped
  <2>4. Awaited(Queues, Places, f)'
    BY <2>3 DEF Absent, Awaited
  <2>5. Waiting(f)' \subseteq Waiting(f)
    BY <1>3 DEF Waiting
  <2> QED BY <2>1, <2>3, <2>4, <2>5 DEF Tracked
<1>8. OnOwnChannel'
  BY <1>3 DEF FreshInv, OnOwnChannel
<1> QED BY <1>6, <1>7, <1>8 DEF FreshInv

LEMMA FreshJob ==
  ASSUME TypeInv, ListInv, FreshInv, NEW j \in Jobs, JobStep(j)
  PROVE  FreshInv'
<1>0. job \in [Jobs -> Job]
  BY DEF TypeInv, Working
<1>1. CASE PrepareFile(j) \/ LookupChannel(j) \/ MakeChannel(j)
  <2>1. /\ UNCHANGED <<asked, wire, chan, mixed, typed, loop>>
        /\ job[j].st # "wait"
    BY <1>1 DEF PrepareFile, LookupChannel, MakeChannel
  <2>2. job'[j].st # "wait" /\ \A i \in Jobs : i # j => job'[i] = job[i]
    <3>1. job[j] \in Job
      BY <1>0
    <3>2. CASE PrepareFile(j)
      BY <1>0, <3>1, <3>2 DEF PrepareFile, Job
    <3>3. CASE LookupChannel(j)
      BY <1>0, <3>1, <3>3 DEF LookupChannel, Job
    <3>4. CASE MakeChannel(j)
      BY <1>0, <3>1, <3>4 DEF MakeChannel, Job
    <3> QED BY <1>1, <3>2, <3>3, <3>4
  <2>3. \A i \in Jobs : job'[i].st = "wait" \/ job[i].st = "wait" => job'[i] = job[i]
    BY <2>1, <2>2
  <2> QED BY <2>1, <2>3, FreshQuiet
<1>2. CASE WaitTimeout(j)
  <2>1. PICK f : f = job[j].file
    OBVIOUS
  <2>2. /\ UNCHANGED <<asked, wire, chan, typed, loop>>
        /\ mixed' = mixed \cup {f} /\ job[j].st = "wait" /\ job'[j].st = "idle"
        /\ \A i \in Jobs : i # j => job'[i] = job[i]
    BY <1>0, <1>2, <2>1 DEF WaitTimeout, Idle
  <2>3. Queues' = Queues
    BY <2>2 DEF Queues
  <2>4. ASSUME NEW g \in Files \ mixed' PROVE Tracked(g)'
    <3>1. Tracked(g) /\ Lone(Queues', Places, g) /\ Drawn(Queues', Queues, Places, g)
      BY <2>2, <2>3, <2>4, LoneSame DEF FreshInv, Tracked
    <3>2. \A i \in Jobs : \/ job'[i].st = "wait" /\ job'[i].file = g
                          \/ job[i].st = "wait" /\ job[i].file = g
                          => job'[i] = job[i]
      BY <2>1, <2>2, <2>4
    <3> QED BY <3>1, <3>2, TrackedKept
  <2>5. OnOwnChannel'
    BY <2>2 DEF FreshInv, OnOwnChannel
  <2> QED BY <2>4, <2>5 DEF FreshInv
<1> QED BY <1>1, <1>2, FreshRequest, FreshReceive DEF JobStep

LEMMA FreshNext == TypeInv /\ ListInv /\ FreshInv /\ [Next]_vars => FreshInv'
<1> SUFFICES ASSUME TypeInv, ListInv, FreshInv, [Next]_vars PROVE FreshInv'
  OBVIOUS
<1>1. CASE UNCHANGED vars
  BY <1>1, FreshQuiet DEF vars
<1>2. CASE InitStep
  <2>1. UNCHANGED <<job, chan, asked, wire, typed, loop, mixed>>
    BY <1>2 DEF InitStep, InitReset, InitLoad
  <2> QED BY <2>1, FreshQuiet
<1>3. ASSUME NEW j \in Jobs, NEW f \in Files, DownloadSignal(j, f) PROVE FreshInv'
  <2> DEFINE r == [Idle EXCEPT !.st = "slot", !.file = f]
  <2>1. /\ job' = [job EXCEPT ![j] = r] /\ job[j].st = "idle"
        /\ UNCHANGED <<chan, asked, wire, typed, loop, mixed>>
    BY <1>3 DEF DownloadSignal
  <2>2. r.st = "slot"
    BY DEF Idle
  <2>3. \A i \in Jobs : job'[i].st = "wait" \/ job[i].st = "wait" => job'[i] = job[i]
    <3> HIDE DEF r
    <3> QED BY <2>1, <2>2 DEF TypeInv, Working
  <2> QED BY <2>1, <2>3, FreshQuiet
<1> QED BY <1>1, <1>2, <1>3, FreshJob, FreshWire, FreshRoute, FreshLoop DEF Next

(***************************************************************************)
(* A download that takes a peer list takes the answer to its own request,  *)
(* unless a request of its file was given up before or two goroutines      *)
(* asked at once: for any files, goroutines and capacities, whatever the   *)
(* tracker leaves unanswered and however the queues in between fill.       *)
(***************************************************************************)
THEOREM FreshListHolds == Spec => FreshList
<1>1. ASSUME TypeInv, ListInv, FreshInv, NEW j \in Jobs, ReceiveList(j), job[j].file \notin mixed
      PROVE  Head(chan[job[j].ch]).req = job[j].req
  <2>1. PICK f \in Files : f = job[j].file
    BY <1>1 DEF TypeInv, Working, Busy, ReceiveList
  <2>2. PICK c \in Channels : c = job[j].ch
    BY <1>1, <2>1, HeadIsOwn
  <2>3. /\ InChan(c) \in Places /\ Queues[InChan(c)] = chan[c]
        /\ 1 \in 1..Len(chan[c]) /\ Head(chan[c]) = chan[c][1]
        /\ Queues[InChan(c)][1].file = f
    BY <1>1, <2>1, <2>2, HeadIsOwn, PlacesAre
  <2>4. Tracked(f) /\ j \in Waiting(f)
    BY <1>1, <2>1 DEF FreshInv, Waiting, ReceiveList
  <2>5. PICK k \in Waiting(f) : job[k].req = Queues[InChan(c)][1].req
    BY <2>3, <2>4 DEF Tracked, Awaited
  <2>6. k = j
    BY <2>4 DEF Tracked
  <2> QED BY <2>2, <2>3, <2>5, <2>6
<1>2. TypeInv /\ ListInv /\ FreshInv /\ [Next]_vars =>
         [\A j \in Jobs : ReceiveList(j) =>
             Head(chan[job[j].ch]).req = job[j].req \/ job[j].file \in mixed]_vars
  BY <1>1
<1> QED BY <1>2, FreshInit, FreshNext, ListInit, ListNext, TypeInit, TypeNext, PTL
       DEF Spec, FreshList
=============================================================================
