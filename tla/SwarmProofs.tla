---------------------------- MODULE SwarmProofs ----------------------------
(***************************************************************************)
(* Proofs about Swarm for any nodes, files, chunks, any number of download *)
(* signals and of broken connections.                                      *)
(***************************************************************************)
EXTENDS Swarm, TLAPS

\* Jobs, managers and connections that are under way name a file and a peer.
UnderWay ==
    /\ \A n \in Nodes : /\ job[n] # NoJob => job[n].file \in Files
                        /\ job[n].todo \subseteq Nodes \ {n}
    /\ \A n \in Nodes, f \in Files : mgr[n][f] # NoPick => mgr[n][f].peer \in Nodes \ {n}
    /\ \A q \in Pairs : link[q].st # "none" => link[q].file \in Files

TypeInv == TypeOK /\ UnderWay

-----------------------------------------------------------------------------
(***************************************************************************)
(* What the operations on channels do                                      *)
(***************************************************************************)

LEMMA PairsAre ==
  /\ \A n, p \in Nodes : n # p => <<n, p>> \in Pairs
  /\ \A q \in Pairs : /\ q[1] \in Nodes /\ q[2] \in Nodes /\ q[1] # q[2]
                      /\ q = <<q[1], q[2]>> /\ <<q[2], q[1]>> \in Pairs
  BY DEF Pairs

LEMMA ChunksAre == 0 \in Chunks
  BY SwarmAssumption DEF Chunks

LEMMA MessagesAre ==
  ASSUME NEW f \in Files
  PROVE  /\ \A b \in SUBSET Chunks : Intro(f, b) \in Messages
         /\ \A i \in Chunks : Request(f, i) \in Messages /\ Response(f, i) \in Messages
  BY ChunksAre DEF Messages, Intro, Request, Response

\* SendOn appends the message to one open channel, or does nothing.
LEMMA SendOnIs ==
  ASSUME NEW ch \in [Pairs -> Seq(Messages)], NEW n, NEW p, <<n, p>> \in Pairs,
         NEW m \in Messages
  PROVE  /\ SendOn(ch, n, p, m) \in [Pairs -> Seq(Messages)]
         /\ \A q \in Pairs : SendOn(ch, n, p, m)[q] # <<>> =>
               ch[q] # <<>> \/ (q = <<n, p>> /\ Up(n, p))
<1>1. CASE p \in dc[n] /\ Up(n, p)
  <2> DEFINE c2 == [ch EXCEPT ![<<n, p>>] = Append(@, m)]
  <2>1. SendOn(ch, n, p, m) = c2
    BY <1>1 DEF SendOn
  <2>3. ch[<<n, p>>] \in Seq(Messages) /\ Append(ch[<<n, p>>], m) \in Seq(Messages)
    OBVIOUS
  <2>2. /\ c2 \in [Pairs -> Seq(Messages)]
        /\ \A q \in Pairs : q # <<n, p>> => c2[q] = ch[q]
        /\ c2[<<n, p>>] = Append(ch[<<n, p>>], m)
    BY <2>3, Zenon
  <2> HIDE DEF c2
  <2> QED BY <1>1, <2>1, <2>2
<1>2. CASE ~(p \in dc[n] /\ Up(n, p))
  BY <1>2 DEF SendOn
<1> QED BY <1>1, <1>2

\* Consumed takes the head of one channel.
LEMMA ConsumedIs ==
  ASSUME TypeOK, NEW n, NEW p, <<p, n>> \in Pairs, chan[<<p, n>>] # <<>>
  PROVE  /\ Arriving(n, p) \in Messages
         /\ Arriving(n, p) = chan[<<p, n>>][1] /\ 1 \in 1..Len(chan[<<p, n>>])
         /\ Consumed(n, p) \in [Pairs -> Seq(Messages)]
         /\ \A q \in Pairs : Consumed(n, p)[q] # <<>> => chan[q] # <<>>
<1> DEFINE s == chan[<<p, n>>]
<1>1. s \in Seq(Messages) /\ s # <<>> /\ chan \in [Pairs -> Seq(Messages)]
  BY DEF TypeOK
<1>2. /\ Len(s) \in Nat \ {0} /\ Head(s) = s[1] /\ Head(s) \in Messages
      /\ Tail(s) \in Seq(Messages)
      /\ \A k \in 1..Len(Tail(s)) : k + 1 \in 1..Len(s) /\ Tail(s)[k] = s[k + 1]
  BY <1>1
<1>3. /\ Consumed(n, p) \in [Pairs -> Seq(Messages)]
      /\ Consumed(n, p)[<<p, n>>] = Tail(s)
      /\ \A q \in Pairs : q # <<p, n>> => Consumed(n, p)[q] = chan[q]
  BY <1>1, <1>2 DEF Consumed
<1> HIDE DEF s
<1>5. Arriving(n, p) = Head(s) /\ Arriving(n, p) \in Messages
  BY <1>2 DEF s, Arriving
<1>6. 1 \in 1..Len(s) /\ Head(s) = s[1]
  BY <1>2
<1>7. \A q \in Pairs : Consumed(n, p)[q] # <<>> => chan[q] # <<>>
  BY <1>3
<1> QED BY <1>3, <1>5, <1>6, <1>7 DEF s

-----------------------------------------------------------------------------
LEMMA TypeInit == Init => TypeInv
<1> SUFFICES ASSUME Init PROVE TypeInv
  OBVIOUS
<1>1. TypeOK
  BY SwarmAssumption, ChunksAre DEF Init, TypeOK, Stages, NoLink, NoJob, NoPick, Callbacks
<1>2. UnderWay
  BY DEF Init, UnderWay, NoLink, NoJob
<1> QED BY <1>1, <1>2 DEF TypeInv

LEMMA TypeJob ==
  ASSUME TypeInv, NEW n \in Nodes,
         JobStep(n) \/ \E f \in Files : DownloadSignal(n, f)
  PROVE  TypeInv'
<1> USE DEF nodeVars, mapVars, dlVars, connVars, bounds
<1>1. ASSUME NEW f \in Files, DownloadSignal(n, f) PROVE TypeInv'
  <2>1. Listed[f] \ {n} \in SUBSET (Nodes \ {n})
    BY SwarmAssumption
  <2>2. /\ job' \in [Nodes -> [file : Files \cup {None}, todo : SUBSET Nodes]]
        /\ \A m \in Nodes : /\ job'[m] # NoJob => job'[m].file \in Files
                            /\ job'[m].todo \subseteq Nodes \ {m}
    BY <1>1, <2>1 DEF DownloadSignal, TypeInv, TypeOK, UnderWay
  <2>3. known' \in [Nodes -> SUBSET Files] /\ signals' \in 0..MaxSignals
    BY <1>1, SwarmAssumption DEF DownloadSignal, TypeInv, TypeOK
  <2> QED BY <1>1, <2>2, <2>3 DEF DownloadSignal, TypeInv, TypeOK, UnderWay
<1>2. CASE StartFileDownload(n)
  <2> DEFINE f == job[n].file
  <2>1. f \in Files
    BY <1>2 DEF StartFileDownload, TypeInv, UnderWay
  <2>2. active' \in [Nodes -> SUBSET Files] /\ ap' \in [Nodes -> [Files -> SUBSET Nodes]]
    BY <1>2, <2>1 DEF StartFileDownload, TypeInv, TypeOK
  <2>3. /\ job' \in [Nodes -> [file : Files \cup {None}, todo : SUBSET Nodes]]
        /\ \A m \in Nodes : /\ job'[m] # NoJob => job'[m].file \in Files
                            /\ job'[m].todo \subseteq Nodes \ {m}
    BY <1>2 DEF StartFileDownload, TypeInv, TypeOK, UnderWay, NoJob
  <2> QED BY <1>2, <2>2, <2>3 DEF StartFileDownload, TypeInv, TypeOK, UnderWay
<1>3. ASSUME NEW p \in Nodes, ProcessPeer(n, p) PROVE TypeInv'
  <2> DEFINE f == job[n].file
  <2>0. p \in job[n].todo /\ job[n] # NoJob
    BY <1>3 DEF ProcessPeer, NoJob
  <2>1. /\ p # n /\ <<n, p>> \in Pairs /\ f \in Files
    BY <2>0, PairsAre DEF TypeInv, UnderWay
  <2>4. job' = [job EXCEPT ![n].todo = @ \ {p}]
    BY <1>3 DEF ProcessPeer
  <2>5. /\ job' \in [Nodes -> [file : Files \cup {None}, todo : SUBSET Nodes]]
        /\ \A m \in Nodes : /\ job'[m] # NoJob => job'[m].file \in Files
                            /\ job'[m].todo \subseteq Nodes \ {m}
    <3>1. job \in [Nodes -> [file : Files \cup {None}, todo : SUBSET Nodes]]
      BY DEF TypeInv, TypeOK
    <3>2. \A m \in Nodes : /\ job[m] # NoJob => job[m].file \in Files
                          /\ job[m].todo \subseteq Nodes \ {m}
      BY DEF TypeInv, UnderWay
    <3>3. job' \in [Nodes -> [file : Files \cup {None}, todo : SUBSET Nodes]]
      BY <2>4, <3>1
    <3>4. /\ job'[n].file = f /\ job'[n].todo = job[n].todo \ {p}
          /\ \A m \in Nodes \ {n} : job'[m] = job[m]
      BY <2>4, <3>1
    <3> QED BY <2>1, <3>2, <3>3, <3>4
  <2>2. CASE p \in pcon[n]
    <3>1. chan' = SendOn(chan, n, p, Intro(f, IF f \in known[n] THEN have[n][f] ELSE {}))
      BY <1>3, <2>2 DEF ProcessPeer, SendIntroduction
    <3>2. (IF f \in known[n] THEN have[n][f] ELSE {}) \in SUBSET Chunks
      BY <2>1 DEF TypeInv, TypeOK
    <3>3. chan' \in [Pairs -> Seq(Messages)]
      BY <2>1, <3>1, <3>2, SendOnIs, MessagesAre DEF TypeInv, TypeOK
    <3> QED BY <1>3, <2>5, <2>2, <3>3 DEF ProcessPeer, TypeInv, TypeOK, UnderWay
  <2>3. CASE p \notin pcon[n]
    <3>1. link' = [link EXCEPT ![<<n, p>>] = [st |-> "offered", file |-> f]]
      BY <1>3, <2>3 DEF ProcessPeer
    <3>2. /\ link' \in [Pairs -> [st : Stages, file : Files \cup {None}]]
          /\ \A q \in Pairs : link'[q].st # "none" => link'[q].file \in Files
      <4>1. /\ link \in [Pairs -> [st : Stages, file : Files \cup {None}]]
            /\ \A q \in Pairs : link[q].st # "none" => link[q].file \in Files
        BY DEF TypeInv, TypeOK, UnderWay
      <4>2. [st |-> "offered", file |-> f] \in [st : Stages, file : Files \cup {None}]
        BY <2>1 DEF Stages
      <4>3. \A q \in Pairs : link'[q] = IF q = <<n, p>> THEN [st |-> "offered", file |-> f]
                                      ELSE link[q]
        BY <2>1, <3>1, <4>1
      <4> QED BY <2>1, <3>1, <4>1, <4>2, <4>3
    <3>3. /\ pcon' \in [Nodes -> SUBSET Nodes] /\ dc' \in [Nodes -> SUBSET Nodes]
          /\ UNCHANGED chan
      <4>1. /\ pcon' = [pcon EXCEPT ![n] = @ \cup {p}]
            /\ dc' = [dc EXCEPT ![n] = @ \cup {p}]
            /\ UNCHANGED chan
        BY <1>3, <2>3 DEF ProcessPeer
      <4> QED BY <4>1 DEF TypeInv, TypeOK
    <3> QED BY <1>3, <2>5, <3>2, <3>3 DEF ProcessPeer, TypeInv, TypeOK, UnderWay
  <2> QED BY <2>2, <2>3
<1> QED BY <1>1, <1>2, <1>3 DEF JobStep

LEMMA TypeConn ==
  ASSUME TypeInv, NEW n \in Nodes, NEW p \in Nodes, <<n, p>> \in Pairs, <<p, n>> \in Pairs,
         ConnStep(n, p) \/ Break(n, p) \/ OnClose(n, p) \/ OnDisconnected(n, p)
  PROVE  TypeInv'
<1> USE DEF nodeVars, mapVars, dlVars, connVars, bounds
\* A connection that goes from one stage to another keeps its file.
<1>0. ASSUME NEW st \in Stages, link' = [link EXCEPT ![<<n, p>>].st = st],
             link[<<n, p>>].st # "none"
      PROVE  /\ link' \in [Pairs -> [st : Stages, file : Files \cup {None}]]
             /\ \A q \in Pairs : link'[q].st # "none" => link'[q].file \in Files
  <2>1. /\ link \in [Pairs -> [st : Stages, file : Files \cup {None}]]
        /\ \A q \in Pairs : link[q].st # "none" => link[q].file \in Files
    BY DEF TypeInv, TypeOK, UnderWay
  <2>2. /\ link'[<<n, p>>].file = link[<<n, p>>].file
        /\ \A q \in Pairs : q # <<n, p>> => link'[q] = link[q]
        /\ link' \in [Pairs -> [st : Stages, file : Files \cup {None}]]
    BY <1>0, <2>1
  <2> QED BY <1>0, <2>1, <2>2
<1>1. CASE HandleOffer(n, p)
  <2>1. PICK st \in Stages : link' = [link EXCEPT ![<<n, p>>].st = st]
    BY <1>1 DEF HandleOffer, Stages
  <2>2. link[<<n, p>>].st # "none"
    BY <1>1 DEF HandleOffer
  <2>3. pcon' \in [Nodes -> SUBSET Nodes]
    <3>1. pcon' = pcon \/ pcon' = [pcon EXCEPT ![p] = @ \cup {n}]
      BY <1>1 DEF HandleOffer
    <3>2. pcon \in [Nodes -> SUBSET Nodes]
      BY DEF TypeInv, TypeOK
    <3> QED BY <3>1, <3>2
  <2> QED BY <1>0, <1>1, <2>1, <2>2, <2>3 DEF HandleOffer, TypeInv, TypeOK, UnderWay
<1>2. CASE ChannelOpens(n, p)
  <2>1. /\ link' = [link EXCEPT ![<<n, p>>].st = "open"] /\ "open" \in Stages
        /\ link[<<n, p>>].st # "none"
    BY <1>2 DEF ChannelOpens, Stages
  <2>2. dc' \in [Nodes -> SUBSET Nodes]
    BY <1>2 DEF ChannelOpens, TypeInv, TypeOK
  <2> QED BY <1>0, <1>2, <2>1, <2>2 DEF ChannelOpens, TypeInv, TypeOK, UnderWay
<1>3. CASE OnOpen(n, p)
  <2> DEFINE f == link[<<n, p>>].file
             b == IF f \in known[n] THEN have[n][f] ELSE {}
  <2>1. /\ link' = [link EXCEPT ![<<n, p>>].st = "up"] /\ "up" \in Stages
        /\ link[<<n, p>>].st # "none"
    BY <1>3 DEF OnOpen, Stages
  <2>5. f \in Files
    BY <2>1 DEF TypeInv, UnderWay
  <2>6. have \in [Nodes -> [Files -> SUBSET Chunks]]
    BY DEF TypeInv, TypeOK
  <2>2. f \in Files /\ b \in SUBSET Chunks
    <3> HIDE DEF f
    <3> QED BY <2>5, <2>6
  <2>3. chan' = SendOn(chan, n, p, Intro(f, b))
    BY <1>3 DEF OnOpen, SendIntroduction
  <2> HIDE DEF f, b
  <2>4. chan' \in [Pairs -> Seq(Messages)]
    BY <2>2, <2>3, SendOnIs, MessagesAre DEF TypeInv, TypeOK
  <2> QED BY <1>0, <1>3, <2>1, <2>4 DEF OnOpen, TypeInv, TypeOK, UnderWay
<1>4. CASE Break(n, p)
  <2>1. /\ link' \in [Pairs -> [st : Stages, file : Files \cup {None}]]
        /\ \A q \in Pairs : link'[q].st # "none" => link'[q].file \in Files
    <3>1. link' = [link EXCEPT ![<<n, p>>] = NoLink]
      BY <1>4 DEF Break
    <3> QED BY <3>1 DEF TypeInv, TypeOK, UnderWay, NoLink, Stages
  <2>2. chan' \in [Pairs -> Seq(Messages)]
    <3>1. chan' = [chan EXCEPT ![<<n, p>>] = <<>>, ![<<p, n>>] = <<>>]
      BY <1>4 DEF Break
    <3>2. <<>> \in Seq(Messages)
      OBVIOUS
    <3> QED BY <3>1, <3>2, Zenon DEF TypeInv, TypeOK
  <2>3. events' \in [Callbacks -> [Pairs -> Nat]]
    <3>1. events' = [k \in Callbacks |->
                       [events[k] EXCEPT ![<<n, p>>] = @ + 1, ![<<p, n>>] = @ + 1]]
      BY <1>4 DEF Break
    <3>2. \A k \in Callbacks : events[k] \in [Pairs -> Nat]
      BY DEF TypeInv, TypeOK
    <3>3. \A k \in Callbacks :
             [events[k] EXCEPT ![<<n, p>>] = @ + 1, ![<<p, n>>] = @ + 1] \in [Pairs -> Nat]
      BY <3>2
    <3> QED BY <3>1, <3>3
  <2>4. breaks' \in 0..MaxBreaks
    BY <1>4, SwarmAssumption DEF Break, TypeInv, TypeOK
  <2> QED BY <1>4, <2>1, <2>2, <2>3, <2>4 DEF Break, TypeInv, TypeOK, UnderWay
<1>5. ASSUME NEW c \in Callbacks, events[c][<<n, p>>] > 0,
             events' = [events EXCEPT ![c][<<n, p>>] = @ - 1], RemovePeer(n, p)
      PROVE  /\ events' \in [Callbacks -> [Pairs -> Nat]]
             /\ ap' \in [Nodes -> [Files -> SUBSET Nodes]]
  BY <1>5 DEF RemovePeer, TypeInv, TypeOK
<1>6. CASE OnClose(n, p)
  <2>1. dc' \in [Nodes -> SUBSET Nodes] /\ "close" \in Callbacks
    BY <1>6 DEF OnClose, TypeInv, TypeOK, Callbacks
  <2> QED BY <1>5, <1>6, <2>1 DEF OnClose, TypeInv, TypeOK, UnderWay
<1>7. CASE OnDisconnected(n, p)
  <2>1. pcon' \in [Nodes -> SUBSET Nodes] /\ "disconnected" \in Callbacks
    BY <1>7 DEF OnDisconnected, TypeInv, TypeOK, Callbacks
  <2> QED BY <1>5, <1>7, <2>1 DEF OnDisconnected, TypeInv, TypeOK, UnderWay
<1> QED BY <1>1, <1>2, <1>3, <1>4, <1>6, <1>7 DEF ConnStep

LEMMA TypeMessage ==
  ASSUME TypeInv, NEW n \in Nodes, NEW p \in Nodes, <<n, p>> \in Pairs, <<p, n>> \in Pairs,
         MessageStep(n, p)
  PROVE  TypeInv'
<1> USE DEF nodeVars, mapVars, dlVars, connVars, bounds
<1> DEFINE m == Arriving(n, p)
           f == m.file
           b == IF f \in known[n] THEN have[n][f] ELSE {}
<1>1. /\ chan[<<p, n>>] # <<>>
      /\ m \in Messages /\ Consumed(n, p) \in [Pairs -> Seq(Messages)]
  BY ConsumedIs DEF MessageStep, HandleIntroduction, HandleChunkRequest, HandleChunkResponse,
     Receives, TypeInv
<1>2. f \in Files /\ m.bits \in SUBSET Chunks /\ m.idx \in Chunks
  BY <1>1 DEF Messages
<1>3. b \in SUBSET Chunks
  BY <1>2 DEF TypeInv, TypeOK
<1>4. CASE HandleIntroduction(n, p)
  <2>1. chan' = SendOn(Consumed(n, p), n, p, Intro(f, b)) \/ chan' = Consumed(n, p)
    BY <1>4 DEF HandleIntroduction, SendIntroduction
  <2>2. mapFiles' \in [Pairs -> SUBSET Files]
    BY <1>2, <1>4 DEF HandleIntroduction, TypeInv, TypeOK
  <2>3. mapBits' \in [Pairs -> [Files -> SUBSET Chunks]]
    BY <1>2, <1>4 DEF HandleIntroduction, TypeInv, TypeOK
  <2>4. ap' \in [Nodes -> [Files -> SUBSET Nodes]]
    BY <1>2, <1>4 DEF HandleIntroduction, TypeInv, TypeOK
  <2> HIDE DEF m, f, b
  <2>5. chan' \in [Pairs -> Seq(Messages)]
    <3>1. Intro(f, b) \in Messages
      BY <1>2, <1>3, MessagesAre
    <3>2. SendOn(Consumed(n, p), n, p, Intro(f, b)) \in [Pairs -> Seq(Messages)]
      BY <1>1, <3>1, SendOnIs
    <3> QED BY <1>1, <2>1, <3>2
  <2> QED BY <1>4, <2>2, <2>3, <2>4, <2>5 DEF HandleIntroduction, TypeInv, TypeOK, UnderWay
<1>5. CASE HandleChunkRequest(n, p)
  <2>1. \/ chan' = SendOn(Consumed(n, p), n, p, Response(f, m.idx))
        \/ chan' = Consumed(n, p)
    BY <1>5 DEF HandleChunkRequest
  <2> HIDE DEF m, f, b
  <2>2. chan' \in [Pairs -> Seq(Messages)]
    BY <1>1, <1>2, <2>1, SendOnIs, MessagesAre
  <2> QED BY <1>5, <2>2 DEF HandleChunkRequest, TypeInv, TypeOK, UnderWay
<1>6. CASE HandleChunkResponse(n, p)
  <2>1. have' \in [Nodes -> [Files -> SUBSET Chunks]]
    BY <1>2, <1>6 DEF HandleChunkResponse, TypeInv, TypeOK
  <2> QED BY <1>1, <1>6, <2>1 DEF HandleChunkResponse, TypeInv, TypeOK, UnderWay
<1> QED BY <1>4, <1>5, <1>6 DEF MessageStep

LEMMA TypeManager ==
  ASSUME TypeInv, NEW n \in Nodes, NEW f \in Files, ManagerStep(n, f)
  PROVE  TypeInv'
<1> USE DEF nodeVars, mapVars, dlVars, connVars, bounds
<1>1. CASE ManagerDone(n, f)
  BY <1>1 DEF ManagerDone, TypeInv, TypeOK, UnderWay
<1>2. ASSUME NEW p \in Nodes, PickPeer(n, f, p) PROVE TypeInv'
  <2>1. PICK i \in Chunks : /\ p \in Nodes \ {n}
                            /\ mgr' = [mgr EXCEPT ![n][f] = [peer |-> p, idx |-> i]]
    BY <1>2 DEF PickPeer, Missing, FindEligiblePeers
  <2>2. /\ mgr' \in [Nodes -> [Files -> [peer : Nodes \cup {None}, idx : Chunks]]]
        /\ \A m \in Nodes, g \in Files : mgr'[m][g] # NoPick => mgr'[m][g].peer \in Nodes \ {m}
    BY <2>1 DEF TypeInv, TypeOK, UnderWay
  <2> QED BY <1>2, <2>2 DEF PickPeer, TypeInv, TypeOK, UnderWay
<1>3. CASE SendRequest(n, f)
  <2> DEFINE p == mgr[n][f].peer
             i == mgr[n][f].idx
  <2>1. /\ p \in Nodes \ {n} /\ <<n, p>> \in Pairs /\ i \in Chunks
        /\ chan' = SendOn(chan, n, p, Request(f, i)) \/ UNCHANGED chan
        /\ panicked' \subseteq Nodes
        /\ mgr' = [mgr EXCEPT ![n][f] = NoPick]
    BY <1>3, PairsAre DEF SendRequest, TypeInv, TypeOK, UnderWay
  <2>2. /\ mgr' \in [Nodes -> [Files -> [peer : Nodes \cup {None}, idx : Chunks]]]
        /\ \A m \in Nodes, g \in Files : mgr'[m][g] # NoPick => mgr'[m][g].peer \in Nodes \ {m}
    BY <2>1, ChunksAre DEF TypeInv, TypeOK, UnderWay, NoPick
  <2> HIDE DEF p, i
  <2>3. chan' \in [Pairs -> Seq(Messages)]
    <3>1. Request(f, i) \in Messages /\ chan \in [Pairs -> Seq(Messages)]
      BY <2>1, MessagesAre DEF TypeInv, TypeOK
    <3>2. SendOn(chan, n, p, Request(f, i)) \in [Pairs -> Seq(Messages)]
      BY <2>1, <3>1, SendOnIs
    <3> QED BY <2>1, <3>1, <3>2
  <2> QED BY <1>3, <2>1, <2>2, <2>3 DEF SendRequest, TypeInv, TypeOK, UnderWay
<1> QED BY <1>1, <1>2, <1>3 DEF ManagerStep

LEMMA TypeNext == TypeInv /\ [Next]_vars => TypeInv'
<1> SUFFICES ASSUME TypeInv, [Next]_vars PROVE TypeInv'
  OBVIOUS
<1>1. CASE UNCHANGED vars
  BY <1>1 DEF vars, nodeVars, mapVars, dlVars, connVars, bounds, TypeInv, TypeOK, UnderWay
<1>2. CASE Next
  <2>1. ASSUME NEW n \in Nodes, JobStep(n) PROVE TypeInv'
    BY <2>1, TypeJob
  <2>2. ASSUME NEW n \in Nodes, NEW f \in Files, DownloadSignal(n, f) \/ ManagerStep(n, f)
        PROVE  TypeInv'
    BY <2>2, TypeJob, TypeManager
  <2>3. ASSUME NEW q \in Pairs,
               \/ ConnStep(q[1], q[2]) \/ Break(q[1], q[2])
               \/ OnClose(q[1], q[2]) \/ OnDisconnected(q[1], q[2])
               \/ MessageStep(q[1], q[2])
        PROVE  TypeInv'
    <3>1. /\ q[1] \in Nodes /\ q[2] \in Nodes
          /\ <<q[1], q[2]>> \in Pairs /\ <<q[2], q[1]>> \in Pairs
      BY PairsAre
    <3> QED BY <2>3, <3>1, TypeConn, TypeMessage
  <2> QED BY <1>2, <2>1, <2>2, <2>3 DEF Next
<1> QED BY <1>1, <1>2

(***************************************************************************)
(* Every variable of a swarm keeps its type, and jobs, managers and        *)
(* connections under way name a file and another node.                     *)
(***************************************************************************)
THEOREM TypeCorrect == Spec => [](TypeOK /\ UnderWay)
  BY TypeInit, TypeNext, PTL DEF Spec, TypeInv

-----------------------------------------------------------------------------
(***************************************************************************)
(* Maps, requests and responses                                            *)
(***************************************************************************)

\* A message on its way along q claims or asks for chunks that are there.
Sound(q, m) ==
    /\ m.type = "intro" => m.bits \subseteq have[q[1]][m.file]
    /\ m.type = "request" => m.idx \in have[q[2]][m.file]
    /\ m.type = "response" => m.idx \in have[q[1]][m.file]

Sounds(ch) == \A q \in Pairs : \A k \in 1..Len(ch[q]) : Sound(q, ch[q][k])

MapsSound == \A q \in Pairs : \A f \in Files : mapBits[q][f] \subseteq have[q[2]][f]

PicksSound ==
    \A n \in Nodes, f \in Files :
        mgr[n][f] # NoPick => mgr[n][f].idx \in have[mgr[n][f].peer][f]

SoundInv == MapsSound /\ PicksSound /\ Sounds(chan)

(***************************************************************************)
(* Connections: two nodes have at most one that was accepted, both know of *)
(* it, and no Disconnected callback of an earlier one is left to run.      *)
(***************************************************************************)

Accepted == {"answered", "open", "up"}
Rev(q) == <<q[2], q[1]>>
Lost(q) == events["disconnected"][q]

Started == \A q \in Pairs : link[q].st # "none" => q[2] \in pcon[q[1]] /\ Lost(q) = 0
OneLink ==
    \A q \in Pairs : link[q].st \in Accepted =>
        q[1] \in pcon[q[2]] /\ Lost(Rev(q)) = 0 /\ link[Rev(q)].st = "none"
LostOnce == \A q \in Pairs : Lost(q) = 0 \/ (Lost(q) = 1 /\ q[2] \in pcon[q[1]])
Carried == \A q \in Pairs : chan[q] # <<>> => Up(q[1], q[2])

ConnInv == Started /\ OneLink /\ LostOnce /\ Carried /\ ActiveConnected

-----------------------------------------------------------------------------
LEMMA SoundInit == Init => SoundInv
  BY DEF Init, SoundInv, MapsSound, PicksSound, Sounds

LEMMA SendSound ==
  ASSUME NEW ch \in [Pairs -> Seq(Messages)], Sounds(ch), NEW n, NEW p, <<n, p>> \in Pairs,
         NEW m \in Messages, Sound(<<n, p>>, m)
  PROVE  Sounds(SendOn(ch, n, p, m))
<1> SUFFICES ASSUME NEW q \in Pairs, NEW k \in 1..Len(SendOn(ch, n, p, m)[q])
             PROVE  Sound(q, SendOn(ch, n, p, m)[q][k])
  BY DEF Sounds
<1>1. \/ k \in 1..Len(ch[q]) /\ SendOn(ch, n, p, m)[q][k] = ch[q][k]
      \/ q = <<n, p>> /\ SendOn(ch, n, p, m)[q][k] = m
  <2>1. CASE SendOn(ch, n, p, m)[q] = ch[q]
    BY <2>1
  <2>2. CASE q = <<n, p>> /\ SendOn(ch, n, p, m)[q] = Append(ch[q], m)
    BY <2>2
  <2> QED BY <2>1, <2>2 DEF SendOn
<1> QED BY <1>1 DEF Sounds

LEMMA IntroSound ==
  ASSUME TypeOK, NEW ch \in [Pairs -> Seq(Messages)], Sounds(ch),
         NEW n \in Nodes, NEW p, <<n, p>> \in Pairs, NEW f \in Files
  PROVE  Sounds(SendIntroduction(ch, n, p, f))
<1> DEFINE b == IF f \in known[n] THEN have[n][f] ELSE {}
<1>1. b \in SUBSET Chunks /\ b \subseteq have[n][f]
  BY DEF TypeOK
<1> HIDE DEF b
<1>2. Intro(f, b) \in Messages
  BY <1>1, MessagesAre
<1>3. Sound(<<n, p>>, Intro(f, b))
  BY <1>1 DEF Sound, Intro
<1>4. Sounds(SendOn(ch, n, p, Intro(f, b)))
  BY <1>2, <1>3, SendSound
<1> QED BY <1>4 DEF SendIntroduction, b

LEMMA ConsumeSound ==
  ASSUME TypeOK, Sounds(chan), NEW n, NEW p, <<p, n>> \in Pairs, chan[<<p, n>>] # <<>>
  PROVE  Sounds(Consumed(n, p)) /\ Sound(<<p, n>>, Arriving(n, p))
<1>1. Sound(<<p, n>>, Arriving(n, p))
  <2>1. Arriving(n, p) = chan[<<p, n>>][1] /\ 1 \in 1..Len(chan[<<p, n>>])
    BY ConsumedIs
  <2> QED BY <2>1 DEF Sounds
<1>2. ASSUME NEW q \in Pairs, NEW k \in 1..Len(Consumed(n, p)[q])
      PROVE  Sound(q, Consumed(n, p)[q][k])
  <2>1. chan[q] \in Seq(Messages) /\ chan \in [Pairs -> Seq(Messages)]
    BY DEF TypeOK
  <2>2. CASE q = <<p, n>>
    <3>1. Consumed(n, p)[q] = Tail(chan[q]) /\ chan[q] # <<>>
      BY <2>1, <2>2 DEF Consumed
    <3>2. k + 1 \in 1..Len(chan[q]) /\ Consumed(n, p)[q][k] = chan[q][k + 1]
      BY <2>1, <3>1
    <3> QED BY <3>2 DEF Sounds
  <2>3. CASE q # <<p, n>>
    <3>1. Consumed(n, p)[q] = chan[q]
      BY <2>1, <2>3 DEF Consumed
    <3> QED BY <3>1 DEF Sounds
  <2> QED BY <2>2, <2>3
<1> QED BY <1>1, <1>2 DEF Sounds

\* Steps that leave chunks, maps and picks alone.
LEMMA SoundStep ==
  ASSUME SoundInv, Sounds(chan'), UNCHANGED <<have, mapBits, mgr>>
  PROVE  SoundInv'
<1>1. MapsSound' /\ PicksSound'
  BY DEF SoundInv, MapsSound, PicksSound
<1>2. Sounds(chan)'
  BY DEF Sounds, Sound
<1> QED BY <1>1, <1>2 DEF SoundInv

LEMMA SoundJobConn ==
  ASSUME TypeInv, SoundInv, NEW n \in Nodes, NEW p \in Nodes, <<n, p>> \in Pairs,
         <<p, n>> \in Pairs,
         \/ ProcessPeer(n, p) \/ ConnStep(n, p) \/ Break(n, p)
         \/ OnClose(n, p) \/ OnDisconnected(n, p)
  PROVE  SoundInv'
<1> USE DEF nodeVars, mapVars, dlVars, connVars, bounds
<1>0. TypeOK /\ chan \in [Pairs -> Seq(Messages)] /\ Sounds(chan)
  BY DEF TypeInv, TypeOK, SoundInv
<1>1. CASE ProcessPeer(n, p)
  <2>1. job[n].file \in Files
    BY <1>1 DEF ProcessPeer, TypeInv, UnderWay, NoJob
  <2>2. chan' = chan \/ chan' = SendIntroduction(chan, n, p, job[n].file)
    BY <1>1 DEF ProcessPeer
  <2>3. Sounds(chan')
    BY <1>0, <2>1, <2>2, IntroSound
  <2> QED BY <1>1, <2>3, SoundStep DEF ProcessPeer
<1>2. CASE HandleOffer(n, p) \/ ChannelOpens(n, p) \/ OnClose(n, p) \/ OnDisconnected(n, p)
  <2>1. chan' = chan /\ UNCHANGED <<have, mapBits, mgr>>
    BY <1>2 DEF HandleOffer, ChannelOpens, OnClose, OnDisconnected
  <2> QED BY <1>0, <2>1, SoundStep
<1>3. CASE OnOpen(n, p)
  <2>1. link[<<n, p>>].file \in Files
    BY <1>3 DEF OnOpen, TypeInv, UnderWay
  <2>2. chan' = SendIntroduction(chan, n, p, link[<<n, p>>].file)
    BY <1>3 DEF OnOpen
  <2>3. Sounds(chan')
    BY <1>0, <2>1, <2>2, IntroSound
  <2> QED BY <1>3, <2>3, SoundStep DEF OnOpen
<1>4. CASE Break(n, p)
  <2>1. chan' = [chan EXCEPT ![<<n, p>>] = <<>>, ![<<p, n>>] = <<>>]
    BY <1>4 DEF Break
  <2>2. \A q \in Pairs : chan'[q] = <<>> \/ chan'[q] = chan[q]
    BY <1>0, <2>1
  <2>3. Sounds(chan')
    BY <1>0, <2>2 DEF Sounds
  <2> QED BY <1>4, <2>3, SoundStep DEF Break
<1> QED BY <1>1, <1>2, <1>3, <1>4 DEF ConnStep

LEMMA SoundMessage ==
  ASSUME TypeInv, SoundInv, NEW n \in Nodes, NEW p \in Nodes, <<n, p>> \in Pairs,
         <<p, n>> \in Pairs, MessageStep(n, p)
  PROVE  SoundInv'
<1> USE DEF nodeVars, mapVars, dlVars, connVars, bounds
<1> DEFINE m == Arriving(n, p)
           c == Consumed(n, p)
<1>1. TypeOK /\ Sounds(chan) /\ chan[<<p, n>>] # <<>>
  BY DEF MessageStep, HandleIntroduction, HandleChunkRequest, HandleChunkResponse, Receives,
     TypeInv, SoundInv
<1>2. m \in Messages /\ c \in [Pairs -> Seq(Messages)]
  BY <1>1, ConsumedIs
<1>3. Sounds(c) /\ Sound(<<p, n>>, m)
  BY <1>1, ConsumeSound
<1>4. m.file \in Files /\ m.bits \in SUBSET Chunks /\ m.idx \in Chunks
  BY <1>2 DEF Messages
<1>5. CASE HandleIntroduction(n, p)
  <2>1. /\ chan' = c \/ chan' = SendIntroduction(c, n, p, m.file)
        /\ m.type = "intro"
    BY <1>5 DEF HandleIntroduction, Receives
  <2>2. m.bits \subseteq have[p][m.file]
    BY <1>3, <2>1 DEF Sound
  <2>3. MapsSound'
    <3>1. PICK keep \in BOOLEAN :
             mapBits' = [mapBits EXCEPT ![<<n, p>>] =
                           [g \in Files |-> IF g = m.file THEN m.bits
                                            ELSE IF keep THEN {} ELSE @[g]]]
      BY <1>5 DEF HandleIntroduction
    <3> HIDE DEF m
    <3>2. \A g \in Files : mapBits'[<<n, p>>][g] \subseteq have[p][g]
      BY <1>1, <2>2, <3>1, PairsAre DEF TypeOK, SoundInv, MapsSound
    <3>3. \A q \in Pairs : q # <<n, p>> => mapBits'[q] = mapBits[q]
      BY <1>1, <3>1 DEF TypeOK
    <3>4. have' = have
      BY <1>5 DEF HandleIntroduction
    <3> QED BY <3>2, <3>3, <3>4 DEF SoundInv, MapsSound
  <2> HIDE DEF m, c
  <2>4. Sounds(chan')
    BY <1>1, <1>2, <1>3, <1>4, <2>1, IntroSound
  <2>5. UNCHANGED <<have, mgr>>
    BY <1>5 DEF HandleIntroduction
  <2> QED BY <2>3, <2>4, <2>5 DEF SoundInv, PicksSound, Sounds, Sound
<1>6. CASE HandleChunkRequest(n, p)
  <2>1. \/ chan' = c
        \/ m.idx \in have[n][m.file] /\ chan' = SendOn(c, n, p, Response(m.file, m.idx))
    BY <1>6 DEF HandleChunkRequest
  <2> HIDE DEF m, c
  <2>2. m.idx \in have[n][m.file] => Sound(<<n, p>>, Response(m.file, m.idx))
    BY DEF Sound, Response
  <2>3. Response(m.file, m.idx) \in Messages
    BY <1>4, MessagesAre
  <2>4. Sounds(chan')
    BY <1>2, <1>3, <2>1, <2>2, <2>3, SendSound
  <2> QED BY <1>6, <2>4, SoundStep DEF HandleChunkRequest
<1>7. CASE HandleChunkResponse(n, p)
  <2>1. /\ chan' = c /\ UNCHANGED <<mapBits, mgr>>
        /\ have' = [have EXCEPT ![n][m.file] = @ \cup {m.idx}]
    BY <1>7 DEF HandleChunkResponse
  <2> HIDE DEF m, c
  <2>2. \A x \in Nodes, f \in Files : have[x][f] \subseteq have'[x][f]
    BY <1>1, <1>4, <2>1 DEF TypeOK
  <2>3. MapsSound'
    BY <2>1, <2>2, PairsAre DEF SoundInv, MapsSound
  <2>4. PicksSound'
    BY <2>1, <2>2 DEF SoundInv, PicksSound, TypeInv, UnderWay
  <2>5. Sounds(chan)'
    <3>1. \A q \in Pairs : \A k \in 1..Len(c[q]) : c[q][k] \in Messages /\ Sound(q, c[q][k])
      BY <1>2, <1>3 DEF Sounds
    <3>2. \A q \in Pairs, e \in Messages : Sound(q, e) => Sound(q, e)'
      BY <2>2, PairsAre DEF Sound, Messages
    <3> QED BY <2>1, <3>1, <3>2 DEF Sounds
  <2> QED BY <2>3, <2>4, <2>5 DEF SoundInv
<1> QED BY <1>5, <1>6, <1>7 DEF MessageStep

LEMMA SoundManager ==
  ASSUME TypeInv, SoundInv, NEW n \in Nodes, NEW f \in Files, ManagerStep(n, f)
  PROVE  SoundInv'
<1> USE DEF nodeVars, mapVars, dlVars, connVars, bounds
<1>0. TypeOK /\ chan \in [Pairs -> Seq(Messages)] /\ Sounds(chan)
  BY DEF TypeInv, TypeOK, SoundInv
<1>1. CASE ManagerDone(n, f)
  <2>1. chan' = chan /\ UNCHANGED <<have, mapBits, mgr>>
    BY <1>1 DEF ManagerDone
  <2> QED BY <1>0, <2>1, SoundStep
<1>2. ASSUME NEW p \in Nodes, PickPeer(n, f, p) PROVE SoundInv'
  <2>1. PICK i \in Chunks :
           /\ p \in FindEligiblePeers(n, f, i)
           /\ mgr' = [mgr EXCEPT ![n][f] = [peer |-> p, idx |-> i]]
    BY <1>2 DEF PickPeer, Missing
  <2>2. <<n, p>> \in Pairs /\ i \in mapBits[<<n, p>>][f]
    BY <2>1, PairsAre DEF FindEligiblePeers
  <2>3. i \in have[p][f]
    BY <2>2 DEF SoundInv, MapsSound
  <2>4. /\ have' = have /\ chan' = chan /\ mapBits' = mapBits
    BY <1>2 DEF PickPeer
  <2>5. PicksSound'
    BY <1>0, <2>1, <2>3, <2>4 DEF SoundInv, PicksSound, TypeOK
  <2> QED BY <2>4, <2>5 DEF SoundInv, MapsSound, Sounds, Sound
<1>3. CASE SendRequest(n, f)
  <2> DEFINE p == mgr[n][f].peer
             i == mgr[n][f].idx
  <2>1. /\ mgr[n][f] # NoPick /\ <<n, p>> \in Pairs /\ i \in Chunks
        /\ i \in have[p][f]
        /\ chan' = SendOn(chan, n, p, Request(f, i)) \/ chan' = chan
        /\ mgr' = [mgr EXCEPT ![n][f] = NoPick]
        /\ have' = have /\ mapBits' = mapBits
    BY <1>3, PairsAre DEF SendRequest, SoundInv, PicksSound, TypeInv, TypeOK, UnderWay
  <2>2. PicksSound'
    BY <1>0, <2>1 DEF SoundInv, PicksSound, TypeOK
  <2> HIDE DEF p, i
  <2>3. Request(f, i) \in Messages /\ Sound(<<n, p>>, Request(f, i))
    BY <2>1, MessagesAre DEF Sound, Request
  <2>4. Sounds(chan')
    BY <1>0, <2>1, <2>3, SendSound
  <2> QED BY <2>1, <2>2, <2>4 DEF SoundInv, MapsSound, Sounds, Sound
<1> QED BY <1>1, <1>2, <1>3 DEF ManagerStep

LEMMA SoundNext == TypeInv /\ SoundInv /\ [Next]_vars => SoundInv'
<1> SUFFICES ASSUME TypeInv, SoundInv, [Next]_vars PROVE SoundInv'
  OBVIOUS
<1> USE DEF nodeVars, mapVars, dlVars, connVars, bounds
<1>0. ASSUME UNCHANGED <<have, mapBits, mgr, chan>> PROVE SoundInv'
  BY <1>0, SoundStep DEF SoundInv
<1>1. CASE UNCHANGED vars
  BY <1>0, <1>1 DEF vars
<1>2. ASSUME NEW n \in Nodes, JobStep(n) PROVE SoundInv'
  <2>1. CASE StartFileDownload(n)
    BY <1>0, <2>1 DEF StartFileDownload
  <2>2. ASSUME NEW p \in Nodes, ProcessPeer(n, p) PROVE SoundInv'
    <3>1. p # n /\ <<n, p>> \in Pairs /\ <<p, n>> \in Pairs
      BY <2>2, PairsAre DEF ProcessPeer, TypeInv, UnderWay
    <3> QED BY <2>2, <3>1, SoundJobConn
  <2> QED BY <1>2, <2>1, <2>2 DEF JobStep
<1>3. ASSUME NEW n \in Nodes, NEW f \in Files, DownloadSignal(n, f) PROVE SoundInv'
  BY <1>0, <1>3 DEF DownloadSignal
<1>4. ASSUME NEW n \in Nodes, NEW f \in Files, ManagerStep(n, f) PROVE SoundInv'
  BY <1>4, SoundManager
<1>5. ASSUME NEW q \in Pairs,
             \/ ConnStep(q[1], q[2]) \/ Break(q[1], q[2])
             \/ OnClose(q[1], q[2]) \/ OnDisconnected(q[1], q[2])
             \/ MessageStep(q[1], q[2])
      PROVE  SoundInv'
  <2>1. /\ q[1] \in Nodes /\ q[2] \in Nodes
        /\ <<q[1], q[2]>> \in Pairs /\ <<q[2], q[1]>> \in Pairs
    BY PairsAre
  <2> QED BY <1>5, <2>1, SoundJobConn, SoundMessage
<1> QED BY <1>1, <1>2, <1>3, <1>4, <1>5 DEF Next

(***************************************************************************)
(* No node ever credits a peer with a chunk the peer lacks: for any nodes, *)
(* files, signals and broken connections, although introductions are       *)
(* snapshots that are never refreshed or withdrawn.                        *)
(***************************************************************************)
THEOREM MapSoundHolds == Spec => []MapSound
<1>1. SoundInv => MapSound
  BY DEF SoundInv, MapsSound, Sounds, Sound, MapSound
<1> QED BY <1>1, SoundInit, SoundNext, TypeInit, TypeNext, PTL DEF Spec

(***************************************************************************)
(* No chunk is asked of a peer that does not have it, whichever map and    *)
(* whichever connection the manager picked it from.                        *)
(***************************************************************************)
THEOREM RequestsServableHolds == Spec => []RequestsServable
<1>1. SoundInv => RequestsServable
  BY DEF SoundInv, MapsSound, PicksSound, Sounds, Sound, RequestsServable
<1> QED BY <1>1, SoundInit, SoundNext, TypeInit, TypeNext, PTL DEF Spec

-----------------------------------------------------------------------------
LEMMA ConnInit == Init => ConnInv
<1> SUFFICES ASSUME Init PROVE ConnInv
  OBVIOUS
<1>1. \A q \in Pairs : link[q].st = "none" /\ Lost(q) = 0 /\ chan[q] = <<>>
  BY DEF Init, NoLink, Lost, Callbacks
<1>2. \A n \in Nodes : active[n] = {}
  BY DEF Init
<1>3. ActiveConnected
  BY <1>2, PairsAre DEF ActiveConnected
<1> QED BY <1>1, <1>3 DEF ConnInv, Started, OneLink, LostOnce, Carried, Accepted

\* Steps that leave the connections and the callbacks alone.
LEMMA ConnStill ==
  ASSUME ConnInv, UNCHANGED <<pcon, link, events>>,
         \A q \in Pairs : chan'[q] # <<>> => chan[q] # <<>> \/ Up(q[1], q[2]),
         \A q \in Pairs : \A f \in active'[q[1]] :
            q[2] \in ap'[q[1]][f] => \/ f \in active[q[1]] /\ q[2] \in ap[q[1]][f]
                                     \/ chan[q] # <<>> \/ chan[Rev(q)] # <<>>
  PROVE  ConnInv'
<1>1. Started' /\ OneLink' /\ LostOnce'
  BY DEF ConnInv, Started, OneLink, LostOnce, Lost
<1>2. \A q \in Pairs : Up(q[1], q[2])' <=> Up(q[1], q[2])
  BY DEF Up
<1>3. Carried'
  BY <1>2 DEF ConnInv, Carried
<1>4. ActiveConnected'
  <2>1. \A q \in Pairs : chan[q] # <<>> \/ chan[Rev(q)] # <<>> => Up(q[1], q[2])
    BY PairsAre DEF ConnInv, Carried, Rev, Up
  <2> QED BY <1>2, <2>1 DEF ConnInv, ActiveConnected
<1> QED BY <1>1, <1>3, <1>4 DEF ConnInv

\* Steps in which nobody loses a connection.
LEMMA UpStill ==
  ASSUME ConnInv, UNCHANGED <<active, ap, events>>,
         \A q \in Pairs : Up(q[1], q[2]) => Up(q[1], q[2])',
         \A q \in Pairs : chan'[q] # <<>> => chan[q] # <<>> \/ Up(q[1], q[2])'
  PROVE  Carried' /\ ActiveConnected'
<1>1. Carried'
  BY DEF ConnInv, Carried
<1>2. ActiveConnected'
  BY DEF ConnInv, ActiveConnected
<1> QED BY <1>1, <1>2

\* The connection from n to p is at stage st now, the others where they were.
Moved(n, p, st) ==
    /\ link'[<<n, p>>].st = st
    /\ \A q \in Pairs : q # <<n, p>> => link'[q] = link[q]

LEMMA MovedUp ==
  ASSUME NEW n \in Nodes, NEW p \in Nodes, <<n, p>> \in Pairs, NEW st, Moved(n, p, st),
         link[<<n, p>>].st \in {"open", "up"} => st \in {"open", "up"}
  PROVE  \A q \in Pairs : Up(q[1], q[2]) => Up(q[1], q[2])'
<1> SUFFICES ASSUME NEW q \in Pairs, Up(q[1], q[2]) PROVE Up(q[1], q[2])'
  OBVIOUS
<1>1. PICK r \in {<<q[1], q[2]>>, <<q[2], q[1]>>} : link[r].st \in {"open", "up"}
  BY DEF Up
<1>2. r \in Pairs
  BY <1>1, PairsAre
<1>3. link'[r].st \in {"open", "up"}
  BY <1>1, <1>2 DEF Moved
<1> QED BY <1>1, <1>3 DEF Up

LEMMA ConnProcessPeer ==
  ASSUME TypeInv, ConnInv, NEW n \in Nodes, NEW p \in Nodes, <<n, p>> \in Pairs,
         ProcessPeer(n, p)
  PROVE  ConnInv'
<1> USE DEF nodeVars, mapVars, dlVars, connVars, bounds
<1>1. CASE p \in pcon[n]
  <2> DEFINE f == job[n].file
             b == IF f \in known[n] THEN have[n][f] ELSE {}
  <2>1. /\ chan' = SendOn(chan, n, p, Intro(f, b))
        /\ UNCHANGED <<pcon, link, events, active, ap>>
    BY <1>1 DEF ProcessPeer, SendIntroduction
  <2>2. \A q \in Pairs : chan'[q] # <<>> => chan[q] # <<>> \/ Up(q[1], q[2])
    <3> HIDE DEF f, b
    <3>1. chan' = chan \/ (Up(n, p) /\ chan' = [chan EXCEPT ![<<n, p>>] = Append(@, Intro(f, b))])
      BY <2>1 DEF SendOn
    <3> QED BY <3>1 DEF TypeInv, TypeOK
  <2> QED BY <2>1, <2>2, ConnStill
<1>2. CASE p \notin pcon[n]
  <2>1. /\ Moved(n, p, "offered")
        /\ pcon' = [pcon EXCEPT ![n] = @ \cup {p}]
        /\ UNCHANGED <<chan, events, active, ap>>
    BY <1>2 DEF ProcessPeer, Moved, TypeInv, TypeOK
  <2>2. /\ link[<<n, p>>].st = "none" /\ Lost(<<n, p>>) = 0
        /\ link[<<p, n>>].st \notin Accepted
    BY <1>2, PairsAre DEF ConnInv, Started, OneLink, LostOnce
  <2>3. /\ \A x \in Nodes : pcon[x] \subseteq pcon'[x]
        /\ p \in pcon'[n]
    BY <2>1 DEF TypeInv, TypeOK
  <2>4. Started' /\ LostOnce'
    BY <2>1, <2>2, <2>3, PairsAre DEF ConnInv, Started, LostOnce, Lost, Moved
  <2>5. OneLink'
    <3> SUFFICES ASSUME NEW q \in Pairs, link'[q].st \in Accepted
                 PROVE  /\ q[1] \in pcon'[q[2]] /\ events'["disconnected"][Rev(q)] = 0
                        /\ link'[Rev(q)].st = "none"
      BY DEF OneLink, Lost
    <3>1. q # <<n, p>> /\ link[q].st \in Accepted
      BY <2>1 DEF Moved, Accepted
    <3>2. Rev(q) # <<n, p>> /\ Rev(q) \in Pairs
      BY <2>2, <3>1, PairsAre DEF Rev
    <3> QED BY <2>1, <2>3, <3>1, <3>2, PairsAre DEF ConnInv, OneLink, Lost, Moved
  <2>6. \A q \in Pairs : Up(q[1], q[2]) => Up(q[1], q[2])'
    BY <2>1, <2>2, MovedUp
  <2>7. Carried' /\ ActiveConnected'
    BY <2>1, <2>6, UpStill
  <2> QED BY <2>4, <2>5, <2>7 DEF ConnInv
<1> QED BY <1>1, <1>2

LEMMA ConnHandleOffer ==
  ASSUME TypeInv, ConnInv, NEW n \in Nodes, NEW p \in Nodes, <<n, p>> \in Pairs,
         <<p, n>> \in Pairs, HandleOffer(n, p)
  PROVE  ConnInv'
<1> USE DEF nodeVars, mapVars, dlVars, connVars, bounds
<1>1. link[<<n, p>>].st = "offered" /\ UNCHANGED <<chan, events, active, ap>>
  BY DEF HandleOffer
<1>2. CASE n \in pcon[p]
  <2>1. Moved(n, p, "dead") /\ pcon' = pcon
    BY <1>2 DEF HandleOffer, Moved, TypeInv, TypeOK
  <2>2. Started' /\ LostOnce'
    BY <1>1, <2>1 DEF ConnInv, Started, LostOnce, Lost, Moved
  <2>3. OneLink'
    <3>1. \A q \in Pairs : link'[q].st \in Accepted => link[q].st \in Accepted
      BY <2>1 DEF Moved, Accepted
    <3>2. \A q \in Pairs : link[q].st = "none" => link'[q].st = "none"
      BY <1>1, <2>1 DEF Moved
    <3> QED BY <1>1, <2>1, <3>1, <3>2, PairsAre DEF ConnInv, OneLink, Lost, Rev
  <2>4. Carried' /\ ActiveConnected'
    BY <1>1, <2>1, MovedUp, UpStill
  <2> QED BY <2>2, <2>3, <2>4 DEF ConnInv
<1>3. CASE n \notin pcon[p]
  <2>1. Moved(n, p, "answered") /\ pcon' = [pcon EXCEPT ![p] = @ \cup {n}]
    BY <1>3 DEF HandleOffer, Moved, TypeInv, TypeOK
  <2>2. link[<<p, n>>].st = "none" /\ Lost(<<p, n>>) = 0
    BY <1>3, PairsAre DEF ConnInv, Started, LostOnce
  <2>3. /\ \A x \in Nodes : pcon[x] \subseteq pcon'[x]
        /\ n \in pcon'[p]
    BY <2>1 DEF TypeInv, TypeOK
  <2>4. Started' /\ LostOnce'
    BY <1>1, <2>1, <2>3, PairsAre DEF ConnInv, Started, LostOnce, Lost, Moved
  <2>5. OneLink'
    <3> SUFFICES ASSUME NEW q \in Pairs, link'[q].st \in Accepted
                 PROVE  /\ q[1] \in pcon'[q[2]] /\ events'["disconnected"][Rev(q)] = 0
                        /\ link'[Rev(q)].st = "none"
      BY DEF OneLink, Lost
    <3>1. CASE q = <<n, p>>
      BY <1>1, <2>1, <2>2, <2>3, <3>1, PairsAre DEF Rev, Lost, Moved
    <3>2. CASE q # <<n, p>>
      <4>1. link[q].st \in Accepted
        BY <2>1, <3>2 DEF Moved
      <4>2. Rev(q) # <<n, p>> /\ Rev(q) \in Pairs
        BY <2>2, <4>1, PairsAre DEF Rev, Accepted
      <4> QED BY <1>1, <2>1, <2>3, <4>1, <4>2, PairsAre DEF ConnInv, OneLink, Lost, Moved
    <3> QED BY <3>1, <3>2
  <2>6. Carried' /\ ActiveConnected'
    BY <1>1, <2>1, MovedUp, UpStill
  <2> QED BY <2>4, <2>5, <2>6 DEF ConnInv
<1> QED BY <1>2, <1>3

LEMMA ConnOpens ==
  ASSUME TypeInv, ConnInv, NEW n \in Nodes, NEW p \in Nodes, <<n, p>> \in Pairs,
         ChannelOpens(n, p) \/ OnOpen(n, p)
  PROVE  ConnInv'
<1> USE DEF nodeVars, mapVars, dlVars, connVars, bounds
<1>1. PICK st \in {"open", "up"} : Moved(n, p, st)
  BY DEF ChannelOpens, OnOpen, Moved, TypeInv, TypeOK
<1>2. link[<<n, p>>].st \in Accepted /\ UNCHANGED <<pcon, events, active, ap>>
  BY DEF ChannelOpens, OnOpen, Accepted
<1>3. \A q \in Pairs : /\ link'[q].st \in Accepted <=> link[q].st \in Accepted
                       /\ link'[q].st = "none" <=> link[q].st = "none"
  BY <1>1, <1>2 DEF Moved, Accepted
<1>4. Started' /\ OneLink' /\ LostOnce'
  BY <1>2, <1>3, PairsAre DEF ConnInv, Started, OneLink, LostOnce, Lost, Rev
<1>5. \A q \in Pairs : Up(q[1], q[2]) => Up(q[1], q[2])'
  BY <1>1, MovedUp
<1>6. \A q \in Pairs : chan'[q] # <<>> => chan[q] # <<>> \/ q = <<n, p>>
  <2>1. chan' = chan \/ \E m : chan' = [chan EXCEPT ![<<n, p>>] = Append(@, m)]
    BY DEF ChannelOpens, OnOpen, SendIntroduction, SendOn
  <2> QED BY <2>1 DEF TypeInv, TypeOK
<1>7. Up(n, p)'
  BY <1>1 DEF Moved, Up
<1>8. Carried' /\ ActiveConnected'
  BY <1>2, <1>5, <1>6, <1>7, UpStill
<1> QED BY <1>4, <1>8 DEF ConnInv

LEMMA ConnBreak ==
  ASSUME TypeInv, ConnInv, NEW n \in Nodes, NEW p \in Nodes, <<n, p>> \in Pairs,
         <<p, n>> \in Pairs, Break(n, p)
  PROVE  ConnInv'
<1> USE DEF nodeVars, mapVars, dlVars, connVars, bounds
<1> DEFINE ends == {<<n, p>>, <<p, n>>}
<1>1. link[<<n, p>>].st \in {"open", "up"} /\ UNCHANGED <<pcon, active, ap>>
  BY DEF Break
<1>2. Moved(n, p, "none")
  BY DEF Break, Moved, NoLink, TypeInv, TypeOK
<1>3. /\ p \in pcon[n] /\ n \in pcon[p] /\ Lost(<<n, p>>) = 0 /\ Lost(<<p, n>>) = 0
      /\ link[<<p, n>>].st = "none"
  BY <1>1, PairsAre DEF ConnInv, Started, OneLink, Accepted, Rev
<1>4. \A k \in Callbacks, q \in Pairs :
         events'[k][q] = IF q \in ends THEN events[k][q] + 1 ELSE events[k][q]
  <2>1. \A k \in Callbacks : events[k] \in [Pairs -> Nat]
    BY DEF TypeInv, TypeOK
  <2>2. \A k \in Callbacks :
           events'[k] = [events[k] EXCEPT ![<<n, p>>] = @ + 1, ![<<p, n>>] = @ + 1]
    BY DEF Break
  <2>3. <<n, p>> # <<p, n>>
    BY PairsAre
  <2> QED BY <2>1, <2>2, <2>3
<1>5. "disconnected" \in Callbacks
  BY DEF Callbacks
<1>6. \A q \in Pairs : q \in ends => link'[q].st = "none" /\ Lost(q) = 0
  BY <1>2, <1>3 DEF Moved
<1>7. \A q \in Pairs : q \notin ends => link'[q] = link[q] /\ events'["disconnected"][q] = Lost(q)
  BY <1>2, <1>4, <1>5 DEF Moved, Lost
<1>8. \A q \in Pairs : (Rev(q) \in ends <=> q \in ends) /\ Rev(q) \in Pairs
  BY PairsAre DEF Rev
<1>9. Started'
  BY <1>1, <1>6, <1>7 DEF ConnInv, Started, Lost
<1>10. OneLink'
  BY <1>1, <1>6, <1>7, <1>8 DEF ConnInv, OneLink, Lost, Accepted
<1>11. LostOnce'
  <2>1. \A q \in Pairs : q \in ends => events'["disconnected"][q] = 1 /\ q[2] \in pcon[q[1]]
    BY <1>3, <1>4, <1>5, <1>6 DEF Lost
  <2> QED BY <1>1, <1>7, <2>1 DEF ConnInv, LostOnce, Lost
<1>12. \A q \in Pairs : q \notin ends => (Up(q[1], q[2])' <=> Up(q[1], q[2]))
  BY <1>7, <1>8, PairsAre DEF Up, Rev
<1>13. Carried'
  <2>1. \A q \in Pairs : chan'[q] = IF q \in ends THEN <<>> ELSE chan[q]
    <3>1. chan' = [chan EXCEPT ![<<n, p>>] = <<>>, ![<<p, n>>] = <<>>]
      BY DEF Break
    <3> QED BY <3>1 DEF TypeInv, TypeOK
  <2> QED BY <1>12, <2>1 DEF ConnInv, Carried
<1>14. ActiveConnected'
  <2>1. \A k \in Callbacks, q \in Pairs : q \in ends => events'[k][q] > 0
    BY <1>4 DEF TypeInv, TypeOK
  <2>2. \A k \in Callbacks, q \in Pairs : q \notin ends => events'[k][q] = events[k][q]
    BY <1>4
  <2> HIDE DEF ends
  <2> QED BY <1>1, <1>5, <1>12, <2>1, <2>2 DEF ConnInv, ActiveConnected
<1> QED BY <1>9, <1>10, <1>11, <1>13, <1>14 DEF ConnInv

LEMMA ConnCallback ==
  ASSUME TypeInv, ConnInv, NEW n \in Nodes, NEW p \in Nodes, <<n, p>> \in Pairs,
         OnClose(n, p) \/ OnDisconnected(n, p)
  PROVE  ConnInv'
<1> USE DEF nodeVars, mapVars, dlVars, connVars, bounds
<1>1. UNCHANGED <<active, link, chan>> /\ RemovePeer(n, p)
  BY DEF OnClose, OnDisconnected
<1>2. /\ events["disconnected"] \in [Pairs -> Nat] /\ events["close"] \in [Pairs -> Nat]
      /\ events \in [Callbacks -> [Pairs -> Nat]]
  BY DEF TypeInv, TypeOK, Callbacks
<1>3. \A k \in Callbacks, q \in Pairs : q # <<n, p>> => events'[k][q] = events[k][q]
  BY <1>2 DEF OnClose, OnDisconnected, Callbacks
<1>4. \A q \in Pairs : Up(q[1], q[2])' <=> Up(q[1], q[2])
  BY <1>1 DEF Up
<1>5. Carried'
  BY <1>1, <1>4 DEF ConnInv, Carried
<1>6. ActiveConnected'
  <2>1. \A x \in Nodes, f \in Files : /\ ap'[x][f] \subseteq ap[x][f]
                                      /\ p \notin ap'[n][f]
    BY <1>1 DEF RemovePeer, TypeInv, TypeOK
  <2>2. \A x \in Nodes : active[x] \subseteq Files
    BY DEF TypeInv, TypeOK
  <2> SUFFICES ASSUME NEW q \in Pairs, NEW f \in active[q[1]], q[2] \in ap'[q[1]][f]
               PROVE  Up(q[1], q[2])' \/ \E k \in Callbacks : events'[k][q] > 0
    BY <1>1 DEF ActiveConnected
  <2>3. q[1] \in Nodes /\ f \in Files /\ q = <<q[1], q[2]>>
    BY <2>2, PairsAre
  <2>4. q # <<n, p>> /\ q[2] \in ap[q[1]][f]
    BY <2>1, <2>3
  <2> QED BY <1>3, <1>4, <2>4 DEF ConnInv, ActiveConnected
<1>7. CASE OnClose(n, p)
  <2>1. events'["disconnected"] = events["disconnected"] /\ pcon' = pcon
    BY <1>2, <1>7 DEF OnClose, Callbacks
  <2>2. Started' /\ OneLink' /\ LostOnce'
    BY <1>1, <2>1 DEF ConnInv, Started, OneLink, LostOnce, Lost
  <2> QED BY <1>5, <1>6, <2>2 DEF ConnInv
<1>8. CASE OnDisconnected(n, p)
  <2>1. /\ Lost(<<n, p>>) > 0
        /\ pcon' = [pcon EXCEPT ![n] = @ \ {p}]
        /\ events' = [events EXCEPT !["disconnected"][<<n, p>>] = @ - 1]
    BY <1>8 DEF OnDisconnected, Lost
  <2>2. Lost(<<n, p>>) = 1 /\ link[<<n, p>>].st = "none" /\ link[<<p, n>>].st \notin Accepted
    BY <2>1, PairsAre DEF ConnInv, LostOnce, Started, OneLink, Rev
  <2>3. /\ events'["disconnected"][<<n, p>>] = 0
        /\ \A q \in Pairs : q # <<n, p>> => events'["disconnected"][q] = Lost(q)
    BY <1>2, <2>1, <2>2 DEF Lost, Callbacks
  <2>4. \A x, y \in Nodes : y \in pcon[x] /\ <<x, y>> # <<n, p>> => y \in pcon'[x]
    BY <2>1 DEF TypeInv, TypeOK
  <2>7. \A q \in Pairs : q # <<n, p>> /\ q[2] \in pcon[q[1]] => q[2] \in pcon'[q[1]]
    BY <2>4, PairsAre
  <2>8. Started'
    BY <1>1, <2>2, <2>3, <2>7 DEF ConnInv, Started, Lost
  <2>5. LostOnce'
    BY <2>3, <2>7 DEF ConnInv, LostOnce, Lost
  <2>6. OneLink'
    <3> SUFFICES ASSUME NEW q \in Pairs, link[q].st \in Accepted
                 PROVE  /\ q[1] \in pcon'[q[2]] /\ events'["disconnected"][Rev(q)] = 0
                        /\ link[Rev(q)].st = "none"
      BY <1>1 DEF OneLink, Lost
    <3>1. Rev(q) # <<n, p>> /\ Rev(q) \in Pairs
      BY <2>2, PairsAre DEF Rev
    <3> QED BY <2>3, <2>4, <3>1, PairsAre DEF ConnInv, OneLink, Rev
  <2> QED BY <1>5, <1>6, <2>5, <2>6, <2>8 DEF ConnInv
<1> QED BY <1>7, <1>8

LEMMA ConnMessage ==
  ASSUME TypeInv, ConnInv, NEW n \in Nodes, NEW p \in Nodes, <<n, p>> \in Pairs,
         <<p, n>> \in Pairs, MessageStep(n, p)
  PROVE  ConnInv'
<1> USE DEF nodeVars, mapVars, dlVars, connVars, bounds
<1>1. chan[<<p, n>>] # <<>> /\ TypeOK
  BY DEF MessageStep, HandleIntroduction, HandleChunkRequest, HandleChunkResponse, Receives,
     TypeInv
<1>2. /\ Consumed(n, p) \in [Pairs -> Seq(Messages)]
      /\ \A q \in Pairs : Consumed(n, p)[q] # <<>> => chan[q] # <<>>
  BY <1>1, ConsumedIs
<1>3. \A q \in Pairs : chan'[q] # <<>> => chan[q] # <<>> \/ Up(q[1], q[2])
  <2>1. \/ chan' = Consumed(n, p)
        \/ Up(n, p) /\ \E m : chan' = [Consumed(n, p) EXCEPT ![<<n, p>>] = Append(@, m)]
    BY DEF MessageStep, HandleIntroduction, HandleChunkRequest, HandleChunkResponse,
       SendIntroduction, SendOn
  <2> QED BY <1>2, <2>1
<1>4. /\ UNCHANGED <<pcon, link, events, active>>
      /\ ap' = ap \/ \E f : ap' = [ap EXCEPT ![n][f] = @ \cup {p}]
  <2>1. CASE HandleIntroduction(n, p)
    <3>1. CASE Arriving(n, p).file \in active[n]
      BY <2>1, <3>1 DEF HandleIntroduction
    <3>2. CASE Arriving(n, p).file \notin active[n]
      <4>1. ap' = [ap EXCEPT ![n][Arriving(n, p).file] = @]
        BY <2>1, <3>2 DEF HandleIntroduction
      <4> QED BY <1>1, <2>1, <4>1 DEF HandleIntroduction, TypeOK
    <3> QED BY <3>1, <3>2
  <2>2. CASE HandleChunkRequest(n, p) \/ HandleChunkResponse(n, p)
    BY <2>2 DEF HandleChunkRequest, HandleChunkResponse
  <2> QED BY <2>1, <2>2 DEF MessageStep
<1>5. \A q \in Pairs : \A f \in active[q[1]] :
         q[2] \in ap'[q[1]][f] => q[2] \in ap[q[1]][f] \/ chan[Rev(q)] # <<>>
  <2>1. \A x \in Nodes : active[x] \subseteq Files
    BY <1>1 DEF TypeOK
  <2>2. \A x \in Nodes, f \in Files :
           ap'[x][f] \subseteq ap[x][f] \cup (IF x = n THEN {p} ELSE {})
    <3>1. ap \in [Nodes -> [Files -> SUBSET Nodes]]
      BY <1>1 DEF TypeOK
    <3> QED BY <1>4, <3>1
  <2> QED BY <1>1, <2>1, <2>2, PairsAre DEF Rev
<1> QED BY <1>3, <1>4, <1>5, ConnStill

LEMMA ConnManager ==
  ASSUME TypeInv, ConnInv, NEW n \in Nodes, NEW f \in Files, ManagerStep(n, f)
  PROVE  ConnInv'
<1> USE DEF nodeVars, mapVars, dlVars, connVars, bounds
<1>1. UNCHANGED <<pcon, link, events, ap>>
  BY DEF ManagerStep, ManagerDone, PickPeer, SendRequest
<1>2. \A x \in Nodes : active'[x] \subseteq active[x]
  <2>1. active' = active \/ active' = [active EXCEPT ![n] = @ \ {f}]
    BY DEF ManagerStep, ManagerDone, PickPeer, SendRequest
  <2>2. active \in [Nodes -> SUBSET Files]
    BY DEF TypeInv, TypeOK
  <2> QED BY <2>1, <2>2
<1>3. \A q \in Pairs : chan'[q] # <<>> => chan[q] # <<>> \/ Up(q[1], q[2])
  <2>1. \/ chan' = chan
        \/ \E p, m : Up(n, p) /\ chan' = [chan EXCEPT ![<<n, p>>] = Append(@, m)]
    BY DEF ManagerStep, ManagerDone, PickPeer, SendRequest, SendOn
  <2>2. ASSUME NEW p, NEW m, Up(n, p), chan' = [chan EXCEPT ![<<n, p>>] = Append(@, m)],
               NEW q \in Pairs, chan'[q] # <<>>
        PROVE  chan[q] # <<>> \/ Up(q[1], q[2])
    <3>1. CASE q = <<n, p>>
      BY <2>2, <3>1
    <3>2. CASE q # <<n, p>>
      BY <2>2, <3>2 DEF TypeInv, TypeOK
    <3> QED BY <3>1, <3>2
  <2> QED BY <2>1, <2>2
<1>4. \A q \in Pairs : active'[q[1]] \subseteq active[q[1]]
  BY <1>2, PairsAre
<1> QED BY <1>1, <1>3, <1>4, ConnStill

LEMMA ConnNext == TypeInv /\ ConnInv /\ [Next]_vars => ConnInv'
<1> SUFFICES ASSUME TypeInv, ConnInv, [Next]_vars PROVE ConnInv'
  OBVIOUS
<1> USE DEF nodeVars, mapVars, dlVars, connVars, bounds
<1>1. CASE UNCHANGED vars
  BY <1>1, ConnStill DEF vars
<1>2. ASSUME NEW n \in Nodes, JobStep(n) PROVE ConnInv'
  <2>1. CASE StartFileDownload(n)
    <3>1. UNCHANGED <<pcon, link, events, chan>>
      BY <2>1 DEF StartFileDownload
    <3>2. \A x \in Nodes : \A f \in active'[x] :
             ap'[x][f] # {} => f \in active[x] /\ ap'[x][f] = ap[x][f]
      BY <2>1 DEF StartFileDownload, TypeInv, TypeOK, UnderWay
    <3> QED BY <3>1, <3>2, PairsAre, ConnStill
  <2>2. ASSUME NEW p \in Nodes, ProcessPeer(n, p) PROVE ConnInv'
    <3>1. <<n, p>> \in Pairs
      BY <2>2, PairsAre DEF ProcessPeer, TypeInv, UnderWay
    <3> QED BY <2>2, <3>1, ConnProcessPeer
  <2> QED BY <1>2, <2>1, <2>2 DEF JobStep
<1>3. ASSUME NEW n \in Nodes, NEW f \in Files, DownloadSignal(n, f) PROVE ConnInv'
  BY <1>3, ConnStill DEF DownloadSignal
<1>4. ASSUME NEW n \in Nodes, NEW f \in Files, ManagerStep(n, f) PROVE ConnInv'
  BY <1>4, ConnManager
<1>5. ASSUME NEW q \in Pairs,
             \/ ConnStep(q[1], q[2]) \/ Break(q[1], q[2])
             \/ OnClose(q[1], q[2]) \/ OnDisconnected(q[1], q[2])
             \/ MessageStep(q[1], q[2])
      PROVE  ConnInv'
  <2>1. /\ q[1] \in Nodes /\ q[2] \in Nodes
        /\ <<q[1], q[2]>> \in Pairs /\ <<q[2], q[1]>> \in Pairs
    BY PairsAre
  <2> QED BY <1>5, <2>1, ConnHandleOffer, ConnOpens, ConnBreak, ConnCallback, ConnMessage
          DEF ConnStep
<1> QED BY <1>1, <1>2, <1>3, <1>4, <1>5 DEF Next

(***************************************************************************)
(* ActivePeers holds no peer whose loss has been noticed: for any nodes    *)
(* and any number of breaks, reconnects and glares, and whatever the order *)
(* in which OnClose and the Disconnected callback of each side run.        *)
(***************************************************************************)
THEOREM ActiveConnectedHolds == Spec => []ActiveConnected
<1>1. ConnInv => ActiveConnected
  BY DEF ConnInv
<1> QED BY <1>1, ConnInit, ConnNext, TypeInit, TypeNext, PTL DEF Spec
=============================================================================
