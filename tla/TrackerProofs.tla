--------------------------- MODULE TrackerProofs ---------------------------
(***************************************************************************)
(* Proofs about Tracker for any connections, addresses, files and any      *)
(* number of failed statements, crashes, stops and restarts.               *)
(***************************************************************************)
EXTENDS Tracker, TLAPS

\* A goroutine inside the loop of handleAnnounce has a file at hand.
AtHand == \A c \in Conns : pc[c] \in {"insert", "join"} => work[c].file \in Files

TypeInv == TypeOK /\ AtHand

\* A connection gets its id once, from a counter that only grows.
IdsUnique ==
    /\ \A c \in Conns : idOf[c] < nextId
    /\ \A c, d \in Conns : idOf[c] = idOf[d] /\ idOf[c] # 0 => c = d
    /\ \A c \in Conns : pc[c] \in {"none", "create"} => idOf[c] = 0
    /\ \A c \in Conns : client[c] = "new" => pc[c] = "none"

\* Every peers row was made for a connection from its address.
RowsOwned ==
    \A p \in peers : p.id # 0 /\ \E d \in Conns : idOf[d] = p.id /\ AddrOf[d] = p.addr

\* The file was announced from the address of the connection with this id.
Announced(id, f) ==
    \E d \in Conns : /\ idOf[d] = id
                     /\ \E e \in Conns : AddrOf[e] = AddrOf[d] /\ f \in sent[e]

SwarmsAnnounced == \A s \in swarms : s[1] # 0 /\ Announced(s[1], s[2])

\* What the goroutines still have to do was announced by their daemons.
WorkAnnounced ==
    \A c \in Conns :
        /\ \A m \in inbox[c] : m.type = "announce" => m.files \subseteq sent[c]
        /\ pc[c] \in {"lookup", "insert", "join"} => work[c].todo \subseteq sent[c]
        /\ pc[c] \in {"insert", "join"} => work[c].file \in sent[c]

\* No list holds the id of a connection that has none yet.
ListsNamed == \A c \in Conns : 0 \notin list[c].ids

IInv ==
    /\ IdsUnique /\ RowsOwned /\ SwarmsAnnounced /\ WorkAnnounced
    /\ ListsNamed /\ PeerListsSound

-----------------------------------------------------------------------------
LEMMA TypeInit == Init => TypeInv
  BY TrackerAssumption DEF Init, TypeInv, TypeOK, AtHand, States, NoWork, NoList

LEMMA TypeDaemon ==
  ASSUME TypeInv, NEW c \in Conns, DaemonStep(c)
  PROVE  TypeInv'
<1> USE TrackerAssumption DEF TypeInv, TypeOK, AtHand, Messages, tables, daemonVars, procVars
<1>1. CASE Connect(c) BY <1>1 DEF Connect, States
<1>2. CASE SendGoodbye(c) BY <1>2 DEF SendGoodbye, Send, GoodbyeMsg
<1>3. CASE Leave(c) BY <1>3 DEF Leave
<1>4. ASSUME NEW fs \in SUBSET Shares[c], SendAnnounce(c, fs) PROVE TypeInv'
  BY <1>4 DEF SendAnnounce, Send, AnnounceMsg
<1>5. ASSUME NEW f \in Files, SendPeerListRequest(c, f) PROVE TypeInv'
  BY <1>5 DEF SendPeerListRequest, Send, RequestMsg
<1>6. ASSUME NEW id \in Ids, SendSignal(c, id) PROVE TypeInv'
  BY <1>6 DEF SendSignal, Send, SignalMsg, Ids
<1> QED BY <1>1, <1>2, <1>3, <1>4, <1>5, <1>6 DEF DaemonStep

\* A file that is skipped was at hand.
LEMMA TypeSkip ==
  ASSUME TypeInv, NEW c \in Conns, pc[c] \in {"insert", "join"}, SkipFile(c), UNCHANGED work
  PROVE  /\ skipped' \in [Conns -> SUBSET Files]
         /\ pc' \in [Conns -> States] /\ AtHand'
<1>1. work[c].file \in Files
  BY DEF TypeInv, AtHand
<1>2. skipped \in [Conns -> SUBSET Files]
  BY DEF TypeInv, TypeOK
<1>3. skipped' \in [Conns -> SUBSET Files]
  BY <1>1, <1>2 DEF SkipFile
<1>4. pc' \in [Conns -> States] /\ AtHand'
  BY DEF SkipFile, NextFile, TypeInv, TypeOK, AtHand, States
<1> QED BY <1>3, <1>4

LEMMA TypeGoroutine ==
  ASSUME TypeInv, NEW c \in Conns,
         \/ StartStep(c) \/ AnnounceStep(c) \/ ServeStep(c)
         \/ Timeout(c) \/ Expire(c) \/ StatementFails(c)
         \/ \E m \in inbox[c] : HandlerFails(c, m)
  PROVE  TypeInv'
<1> USE TrackerAssumption DEF TypeInv, TypeOK, AtHand, tables, daemonVars, procVars, States, Unread
<1>1. CASE CreatePeer(c)
  <2>1. CASE RowsAt(AddrOf[c]) = {}
    <3>1. peers' \subseteq [id : Nat, addr : Addrs] /\ nextId' \in Nat \ {0}
      BY <1>1, <2>1 DEF CreatePeer
    <3>2. pc' \in [Conns -> States] /\ AtHand'
      BY <1>1, <2>1 DEF CreatePeer
    <3>3. idOf' \in [Conns -> Nat]
      BY <1>1, <2>1 DEF CreatePeer
    <3> QED BY <1>1, <3>1, <3>2, <3>3 DEF CreatePeer
  <2>2. CASE RowsAt(AddrOf[c]) # {}
    <3>1. pc' \in [Conns -> States] /\ AtHand'
      BY <1>1, <2>2 DEF CreatePeer
    <3>2. inbox' \in [Conns -> SUBSET Messages]
      BY <1>1, <2>2 DEF CreatePeer
    <3> QED BY <1>1, <2>2, <3>1, <3>2 DEF CreatePeer
  <2> QED BY <2>1, <2>2
<1>2. CASE SendId(c) BY <1>2 DEF SendId
<1>3. CASE RegisterRouter(c) BY <1>3 DEF RegisterRouter
<1>4. ASSUME NEW f \in Files, LookupFile(c, f) PROVE TypeInv'
  BY <1>4 DEF LookupFile
<1>5. CASE InsertFile(c)
  <2>1. CASE work[c].file \in fileRow
    <3>1. pc[c] = "insert" /\ SkipFile(c) /\ UNCHANGED work
      BY <1>5, <2>1 DEF InsertFile
    <3>2. /\ skipped' \in [Conns -> SUBSET Files]
          /\ pc' \in [Conns -> States] /\ AtHand'
      BY <3>1, TypeSkip
    <3> QED BY <1>5, <2>1, <3>2 DEF InsertFile
  <2>2. CASE work[c].file \notin fileRow
    <3>1. fileRow' \subseteq Files /\ UNCHANGED skipped
      BY <1>5, <2>2 DEF InsertFile
    <3>2. pc' \in [Conns -> States] /\ AtHand'
      <4>1. pc' = [pc EXCEPT ![c] = "join"] /\ UNCHANGED work /\ pc[c] = "insert"
        BY <1>5, <2>2 DEF InsertFile
      <4> QED BY <4>1
    <3> QED BY <1>5, <3>1, <3>2 DEF InsertFile
  <2> QED BY <2>1, <2>2
<1>6. CASE AddPeerToSwarm(c)
  BY <1>6 DEF AddPeerToSwarm, NextFile, RowsAt
<1>7. CASE HandleGoodbye(c)
  BY <1>7 DEF HandleGoodbye, DeletePeer, RowsAt
<1>8. ASSUME NEW id \in Ids, HandleSignaling(c, id) PROVE TypeInv'
  BY <1>8 DEF HandleSignaling, Take
<1>9. ASSUME NEW f \in Files, HandlePeerListRequest(c, f) PROVE TypeInv'
  <2>1. {p.id : p \in {q \in GetPeersByFileHash(f) : q.addr # AddrOf[c]}} \in SUBSET Nat
    <3>1. \A p \in GetPeersByFileHash(f) : p.id \in Nat
      BY DEF GetPeersByFileHash
    <3> QED BY <3>1
  <2>2. list' \in [Conns -> [file : Files \cup {None}, ids : SUBSET Nat]]
    BY <1>9, <2>1 DEF HandlePeerListRequest
  <2>3. inbox' \in [Conns -> SUBSET Messages]
    BY <1>9 DEF HandlePeerListRequest, Take
  <2> QED BY <1>9, <2>2, <2>3 DEF HandlePeerListRequest
<1>10. ASSUME NEW fs \in SUBSET Files, HandleAnnounce(c, fs) PROVE TypeInv'
  BY <1>10 DEF HandleAnnounce, Take
<1>11. CASE Timeout(c) BY <1>11 DEF Timeout
<1>12. CASE Expire(c) BY <1>12 DEF Expire, DeletePeer, RowsAt
<1>13. CASE StatementFails(c)
  <2>1. CASE pc' = [pc EXCEPT ![c] = "end"] /\ UNCHANGED skipped
    <3>1. pc' \in [Conns -> States] /\ AtHand'
      BY <1>13, <2>1 DEF StatementFails
    <3>2. inbox' \in [Conns -> SUBSET Messages] /\ faults' \in 0..MaxFaults
      BY <1>13, <2>1 DEF StatementFails
    <3> QED BY <1>13, <2>1, <3>1, <3>2 DEF StatementFails
  <2>2. CASE pc[c] \in {"insert", "join"} /\ SkipFile(c) /\ UNCHANGED inbox
    <3>1. /\ skipped' \in [Conns -> SUBSET Files]
          /\ pc' \in [Conns -> States] /\ AtHand'
      BY <1>13, <2>2, TypeSkip DEF StatementFails
    <3> QED BY <1>13, <2>2, <3>1 DEF StatementFails
  <2> QED BY <1>13, <2>1, <2>2 DEF StatementFails
<1>14. ASSUME NEW m \in inbox[c], HandlerFails(c, m) PROVE TypeInv'
  <2>1. pc' \in [Conns -> States] /\ AtHand'
    BY <1>14 DEF HandlerFails
  <2>2. inbox' \in [Conns -> SUBSET Messages]
    <3>1. CASE Take(c, m)
      BY <3>1 DEF Take
    <3>2. CASE Unread(c)
      BY <3>2
    <3> QED BY <1>14, <3>1, <3>2 DEF HandlerFails
  <2>3. faults' \in 0..MaxFaults
    BY <1>14 DEF HandlerFails
  <2> QED BY <1>14, <2>1, <2>2, <2>3 DEF HandlerFails
<1> QED BY <1>1, <1>2, <1>3, <1>4, <1>5, <1>6, <1>7, <1>8, <1>9, <1>10, <1>11, <1>12,
           <1>13, <1>14 DEF StartStep, AnnounceStep, ServeStep

LEMMA TypeProcess ==
  ASSUME TypeInv, Crash \/ StopSwarms \/ StopPeers \/ StopExit \/ Restart
  PROVE  TypeInv'
<1> USE TrackerAssumption DEF TypeInv, TypeOK, AtHand, tables, daemonVars, States, ProcessEnds, NoWork
<1>1. CASE Crash BY <1>1 DEF Crash
<1>2. CASE StopSwarms BY <1>2 DEF StopSwarms
<1>3. CASE StopPeers BY <1>3 DEF StopPeers
<1>4. CASE StopExit BY <1>4 DEF StopExit
<1>5. CASE Restart BY <1>5 DEF Restart
<1> QED BY <1>1, <1>2, <1>3, <1>4, <1>5

LEMMA TypeNext == TypeInv /\ [Next]_vars => TypeInv'
<1>1. ASSUME TypeInv, UNCHANGED vars PROVE TypeInv'
  BY <1>1 DEF vars, tables, daemonVars, procVars, TypeInv, TypeOK, AtHand
<1> QED BY <1>1, TypeDaemon, TypeGoroutine, TypeProcess DEF Next

(***************************************************************************)
(* Every reachable state of the tracker is well typed, and a goroutine     *)
(* that inserts or joins has a file at hand.                               *)
(***************************************************************************)
THEOREM TypeCorrect == Spec => [](TypeOK /\ AtHand)
  BY TypeInit, TypeNext, PTL DEF Spec, TypeInv

-----------------------------------------------------------------------------
LEMMA IInvInit == Init => IInv
  BY DEF Init, IInv, IdsUnique, RowsOwned, SwarmsAnnounced, WorkAnnounced, ListsNamed,
     PeerListsSound, NoList

\* An id keeps its connection, and what was announced stays announced.
LEMMA AnnouncedStable ==
  ASSUME NEW id, NEW f, Announced(id, f), id # 0,
         \A d \in Conns : idOf[d] # 0 => idOf'[d] = idOf[d],
         \A d \in Conns : sent[d] \subseteq sent'[d]
  PROVE  Announced(id, f)'
  BY DEF Announced

\* A step that gives out no id and sends no list: the tables only shrink.
LEMMA ShrinkStep ==
  ASSUME IInv, UNCHANGED <<nextId, idOf, list>>,
         peers' \subseteq peers, swarms' \subseteq swarms,
         \A d \in Conns : sent[d] \subseteq sent'[d],
         \A d \in Conns : pc'[d] \in {"none", "create"} => idOf[d] = 0,
         \A d \in Conns : client'[d] = "new" => pc'[d] = "none",
         WorkAnnounced'
  PROVE  IInv'
<1> USE DEF IInv
<1>1. IdsUnique'
  BY DEF IdsUnique
<1>2. RowsOwned'
  BY DEF RowsOwned
<1>3. SwarmsAnnounced'
  BY DEF SwarmsAnnounced, Announced
<1>4. PeerListsSound' /\ ListsNamed'
  BY DEF PeerListsSound, ListsNamed
<1> QED BY <1>1, <1>2, <1>3, <1>4

LEMMA IInvDaemon ==
  ASSUME TypeInv, IInv, NEW c \in Conns, DaemonStep(c)
  PROVE  IInv'
<1> USE TrackerAssumption DEF tables, daemonVars, procVars
<1>1. CASE Connect(c)
  <2>1. WorkAnnounced' /\ \A d \in Conns : pc'[d] \in {"none", "create"} => idOf[d] = 0
    BY <1>1 DEF Connect, IInv, WorkAnnounced, IdsUnique, TypeInv, TypeOK
  <2>2. \A d \in Conns : client'[d] = "new" => pc'[d] = "none"
    BY <1>1 DEF Connect, IInv, IdsUnique, TypeInv, TypeOK
  <2> QED BY <1>1, <2>1, <2>2, ShrinkStep DEF Connect
<1>2. CASE Leave(c)
  <2>1. WorkAnnounced'
    BY <1>2 DEF Leave, IInv, WorkAnnounced
  <2>2. \A d \in Conns : client'[d] = "new" => client[d] = "new"
    BY <1>2 DEF Leave, TypeInv, TypeOK
  <2> QED BY <1>2, <2>1, <2>2, ShrinkStep DEF Leave, IInv, IdsUnique
<1>3. ASSUME NEW m, Send(c, m), UNCHANGED <<tables, pc, work, idOf, client, list>>,
             m.type # "announce", UNCHANGED sent
      PROVE  IInv'
  <2>1. WorkAnnounced'
    BY <1>3 DEF Send, IInv, WorkAnnounced, TypeInv, TypeOK
  <2> QED BY <1>3, <2>1, ShrinkStep DEF IInv, IdsUnique
<1>4. ASSUME NEW fs \in SUBSET Shares[c], SendAnnounce(c, fs)
      PROVE  IInv'
  <2>1. \A d \in Conns : sent[d] \subseteq sent'[d]
    BY <1>4 DEF SendAnnounce, TypeInv, TypeOK
  <2>2. WorkAnnounced'
    BY <1>4, <2>1 DEF SendAnnounce, Send, AnnounceMsg, IInv, WorkAnnounced, TypeInv, TypeOK
  <2> QED BY <1>4, <2>1, <2>2, ShrinkStep DEF SendAnnounce, IInv, IdsUnique
<1>5. CASE SendGoodbye(c)
  BY <1>3, <1>5 DEF SendGoodbye, GoodbyeMsg
<1>6. ASSUME NEW f \in Files, SendPeerListRequest(c, f) PROVE IInv'
  BY <1>3, <1>6 DEF SendPeerListRequest, RequestMsg
<1>7. ASSUME NEW id \in Ids, SendSignal(c, id) PROVE IInv'
  BY <1>3, <1>7 DEF SendSignal, SignalMsg
<1> QED BY <1>1, <1>2, <1>4, <1>5, <1>6, <1>7 DEF DaemonStep

\* CreatePeer takes a fresh id for a connection that has none.
LEMMA IInvCreatePeer ==
  ASSUME TypeInv, IInv, NEW c \in Conns, CreatePeer(c), RowsAt(AddrOf[c]) = {}
  PROVE  IInv'
<1> USE DEF CreatePeer, IInv, daemonVars
<1>1. /\ idOf[c] = 0 /\ idOf'[c] = nextId /\ nextId # 0
      /\ \A d \in Conns : d # c => idOf'[d] = idOf[d] /\ idOf[d] # nextId
      /\ pc'[c] = "sendid" /\ \A d \in Conns : d # c => pc'[d] = pc[d]
      /\ client[c] # "new"
  BY DEF IdsUnique, TypeInv, TypeOK
<1>2. IdsUnique'
  <2>1. \A d \in Conns : idOf'[d] < nextId'
    <3>1. nextId \in Nat /\ nextId' = nextId + 1 /\ \A d \in Conns : idOf[d] \in Nat
      BY DEF TypeInv, TypeOK
    <3>2. \A d \in Conns : idOf[d] < nextId
      BY DEF IdsUnique
    <3> QED BY <1>1, <3>1, <3>2
  <2>2. \A d, e \in Conns : idOf'[d] = idOf'[e] /\ idOf'[d] # 0 => d = e
    BY <1>1 DEF IdsUnique
  <2>3. /\ \A d \in Conns : pc'[d] \in {"none", "create"} => idOf'[d] = 0
        /\ \A d \in Conns : client'[d] = "new" => pc'[d] = "none"
    BY <1>1 DEF IdsUnique
  <2> QED BY <2>1, <2>2, <2>3 DEF IdsUnique
<1>3. RowsOwned'
  <2>1. ASSUME NEW p \in peers
        PROVE  p.id # 0 /\ \E d \in Conns : idOf'[d] = p.id /\ AddrOf[d] = p.addr
    BY <1>1 DEF RowsOwned
  <2>2. peers' = peers \cup {[id |-> nextId, addr |-> AddrOf[c]]}
    OBVIOUS
  <2>3. ASSUME NEW p \in peers'
        PROVE  p.id # 0 /\ \E d \in Conns : idOf'[d] = p.id /\ AddrOf[d] = p.addr
    <3>1. CASE p = [id |-> nextId, addr |-> AddrOf[c]]
      BY <1>1, <3>1
    <3> QED BY <2>1, <2>2, <3>1
  <2> QED BY <2>3 DEF RowsOwned
<1>4. SwarmsAnnounced'
  <2>1. ASSUME NEW id, NEW f, Announced(id, f), id # 0 PROVE Announced(id, f)'
    BY <1>1, <2>1, AnnouncedStable
  <2> QED BY <2>1 DEF SwarmsAnnounced
<1>5. WorkAnnounced'
  BY <1>1 DEF WorkAnnounced
<1>6. PeerListsSound' /\ ListsNamed'
  <2>1. ASSUME NEW x \in Conns, NEW id \in list[x].ids
        PROVE  \E d \in Conns :
                  /\ d # x
                  /\ \A e \in Conns : idOf'[e] = id <=> e = d
                  /\ \E e \in Conns : AddrOf[e] = AddrOf[d] /\ list[x].file \in sent[e]
    <3>1. PICK d \in Conns :
                  /\ d # x
                  /\ \A e \in Conns : idOf[e] = id <=> e = d
                  /\ \E e \in Conns : AddrOf[e] = AddrOf[d] /\ list[x].file \in sent[e]
      BY DEF PeerListsSound
    <3>2. id # nextId /\ d # c
      <4>1. idOf[d] = id /\ id < nextId /\ id \in Nat /\ nextId \in Nat /\ id # 0
        BY <3>1 DEF IdsUnique, ListsNamed, TypeInv, TypeOK
      <4> QED BY <1>1, <4>1
    <3> QED BY <1>1, <3>1, <3>2
  <2> QED BY <2>1 DEF PeerListsSound, ListsNamed
<1> QED BY <1>2, <1>3, <1>4, <1>5, <1>6

LEMMA IInvAnnounce ==
  ASSUME TypeInv, IInv, NEW c \in Conns, AnnounceStep(c)
  PROVE  IInv'
<1> USE DEF daemonVars
<1>1. ASSUME NEW f \in Files, LookupFile(c, f)
      PROVE  IInv'
  <2>1. WorkAnnounced' /\ \A d \in Conns : pc'[d] \in {"none", "create"} => pc'[d] = pc[d]
    BY <1>1 DEF LookupFile, IInv, WorkAnnounced, TypeInv, TypeOK
  <2>2. \A d \in Conns : client'[d] = "new" => pc'[d] = "none"
    BY <1>1 DEF LookupFile, IInv, IdsUnique, TypeInv, TypeOK
  <2> QED BY <1>1, <2>1, <2>2, ShrinkStep DEF LookupFile, IInv, IdsUnique, tables
<1>2. CASE InsertFile(c)
  <2>1. /\ pc'[c] \in {"join", "serve", "lookup"} /\ pc[c] = "insert"
        /\ \A d \in Conns : d # c => pc'[d] = pc[d]
        /\ UNCHANGED <<work, inbox, sent, client, idOf, list, peers, swarms, nextId>>
    BY <1>2 DEF InsertFile, SkipFile, NextFile, TypeInv, TypeOK
  <2>2. WorkAnnounced'
    BY <2>1 DEF IInv, WorkAnnounced
  <2>3. /\ \A d \in Conns : pc'[d] \in {"none", "create"} => idOf[d] = 0
        /\ \A d \in Conns : client'[d] = "new" => pc'[d] = "none"
    BY <2>1 DEF IInv, IdsUnique
  <2> QED BY <2>1, <2>2, <2>3, ShrinkStep
<1>3. CASE AddPeerToSwarm(c)
  <2> USE DEF IInv
  <2>1. /\ pc'[c] \in {"serve", "lookup"} /\ pc[c] = "join"
        /\ \A d \in Conns : d # c => pc'[d] = pc[d]
        /\ UNCHANGED <<work, inbox, sent, client, idOf, list, peers, nextId>>
        /\ work[c].file \in sent[c]
    BY <1>3 DEF AddPeerToSwarm, NextFile, WorkAnnounced, TypeInv, TypeOK
  <2>2. ASSUME NEW p \in RowsAt(AddrOf[c])
        PROVE  p.id # 0 /\ Announced(p.id, work[c].file)
    BY <2>1, <2>2 DEF RowsAt, RowsOwned, Announced
  <2>3. SwarmsAnnounced'
    <3>1. \A s \in swarms' : s[1] # 0 /\ Announced(s[1], s[2])
      BY <1>3, <2>2 DEF AddPeerToSwarm, SwarmsAnnounced
    <3> QED BY <2>1, <3>1 DEF SwarmsAnnounced, Announced
  <2>4. WorkAnnounced'
    BY <2>1 DEF WorkAnnounced
  <2>5. IdsUnique' /\ RowsOwned' /\ PeerListsSound' /\ ListsNamed'
    BY <2>1 DEF IdsUnique, RowsOwned, PeerListsSound, ListsNamed
  <2> QED BY <2>3, <2>4, <2>5
<1> QED BY <1>1, <1>2, <1>3 DEF AnnounceStep

LEMMA IInvPeerList ==
  ASSUME TypeInv, IInv, NEW c \in Conns, NEW f \in Files, HandlePeerListRequest(c, f)
  PROVE  IInv'
<1> USE DEF IInv, HandlePeerListRequest, tables, daemonVars
<1>1. IdsUnique' /\ RowsOwned' /\ SwarmsAnnounced'
  BY DEF IdsUnique, RowsOwned, SwarmsAnnounced, Announced
<1>2. WorkAnnounced'
  BY DEF Take, WorkAnnounced, TypeInv, TypeOK
<1>3. ASSUME NEW p \in GetPeersByFileHash(f), p.addr # AddrOf[c]
      PROVE  /\ p.id # 0
             /\ \E d \in Conns :
                  /\ d # c
                  /\ \A e \in Conns : idOf[e] = p.id <=> e = d
                  /\ \E e \in Conns : AddrOf[e] = AddrOf[d] /\ f \in sent[e]
  <2>1. p \in peers /\ <<p.id, f>> \in swarms
    BY <1>3 DEF GetPeersByFileHash
  <2>2. PICK d \in Conns : idOf[d] = p.id /\ AddrOf[d] = p.addr
    BY <2>1 DEF RowsOwned
  <2>3. p.id # 0 /\ Announced(p.id, f)
    BY <2>1 DEF SwarmsAnnounced
  <2>4. \A e \in Conns : idOf[e] = p.id <=> e = d
    BY <2>2, <2>3 DEF IdsUnique
  <2>5. d # c
    BY <1>3, <2>2
  <2> QED BY <2>3, <2>4, <2>5 DEF Announced
<1>4. /\ list'[c].file = f
      /\ \A id \in list'[c].ids : \E p \in GetPeersByFileHash(f) : p.addr # AddrOf[c] /\ id = p.id
      /\ \A x \in Conns : x # c => list'[x] = list[x]
  BY DEF TypeInv, TypeOK
<1>5. PeerListsSound' /\ ListsNamed'
  BY <1>3, <1>4 DEF PeerListsSound, ListsNamed
<1> QED BY <1>1, <1>2, <1>5

LEMMA IInvServe ==
  ASSUME TypeInv, IInv, NEW c \in Conns,
         \/ ServeStep(c) \/ CreatePeer(c) \/ SendId(c) \/ RegisterRouter(c)
         \/ Timeout(c) \/ Expire(c) \/ StatementFails(c)
         \/ \E m \in inbox[c] : HandlerFails(c, m)
  PROVE  IInv'
<1> USE DEF tables, daemonVars, Unread
<1>1. ASSUME \A d \in Conns : d # c => pc'[d] = pc[d],
             pc'[c] \notin {"none", "create", "lookup", "insert", "join"},
             \A d \in Conns : inbox'[d] \subseteq inbox[d],
             UNCHANGED <<work, idOf, sent, client, list, nextId>>,
             peers' \subseteq peers, swarms' \subseteq swarms, pc[c] # "none"
      PROVE  IInv'
  <2>1. WorkAnnounced'
    BY <1>1 DEF IInv, WorkAnnounced
  <2>2. /\ \A d \in Conns : pc'[d] \in {"none", "create"} => idOf[d] = 0
        /\ \A d \in Conns : client'[d] = "new" => pc'[d] = "none"
    BY <1>1 DEF IInv, IdsUnique
  <2> QED BY <1>1, <2>1, <2>2, ShrinkStep
<1>2. CASE SendId(c) \/ RegisterRouter(c) \/ Timeout(c)
  <2>1. CASE SendId(c)
    BY <1>1, <2>1 DEF SendId, TypeInv, TypeOK
  <2>2. CASE RegisterRouter(c)
    BY <1>1, <2>2 DEF RegisterRouter, TypeInv, TypeOK
  <2>3. CASE Timeout(c)
    BY <1>1, <2>3 DEF Timeout, TypeInv, TypeOK
  <2> QED BY <1>2, <2>1, <2>2, <2>3
<1>3. CASE Expire(c)
  BY <1>1, <1>3 DEF Expire, DeletePeer, TypeInv, TypeOK
<1>4. CASE HandleGoodbye(c)
  BY <1>1, <1>4 DEF HandleGoodbye, DeletePeer, TypeInv, TypeOK
<1>5. ASSUME NEW id \in Ids, HandleSignaling(c, id) PROVE IInv'
  BY <1>1, <1>5 DEF HandleSignaling, Take, TypeInv, TypeOK
<1>6. ASSUME NEW fs \in SUBSET Files, HandleAnnounce(c, fs) PROVE IInv'
  <2>1. /\ pc[c] = "serve" /\ pc'[c] = "lookup" /\ work'[c].todo = fs
        /\ \A d \in Conns : d # c => pc'[d] = pc[d] /\ work'[d] = work[d]
        /\ \A d \in Conns : inbox'[d] \subseteq inbox[d]
        /\ AnnounceMsg(fs) \in inbox[c]
    BY <1>6 DEF HandleAnnounce, Take, TypeInv, TypeOK
  <2>2. fs \subseteq sent[c]
    BY <2>1 DEF IInv, WorkAnnounced, AnnounceMsg
  <2>3. WorkAnnounced'
    BY <1>6, <2>1, <2>2 DEF HandleAnnounce, IInv, WorkAnnounced
  <2>4. /\ \A d \in Conns : pc'[d] \in {"none", "create"} => idOf[d] = 0
        /\ \A d \in Conns : client'[d] = "new" => pc'[d] = "none"
    BY <1>6, <2>1 DEF HandleAnnounce, IInv, IdsUnique
  <2> QED BY <1>6, <2>3, <2>4, ShrinkStep DEF HandleAnnounce
<1>7. CASE CreatePeer(c)
  <2>1. CASE RowsAt(AddrOf[c]) # {}
    BY <1>1, <1>7, <2>1 DEF CreatePeer, TypeInv, TypeOK
  <2> QED BY <1>7, <2>1, IInvCreatePeer
<1>8. CASE StatementFails(c)
  <2>1. CASE pc' = [pc EXCEPT ![c] = "end"] /\ pc[c] \in {"create", "expire"}
    BY <1>1, <1>8, <2>1 DEF StatementFails, TypeInv, TypeOK
  <2>2. CASE pc[c] \in {"insert", "join"} /\ SkipFile(c)
    <3>1. /\ pc'[c] \in {"serve", "lookup"}
          /\ \A d \in Conns : d # c => pc'[d] = pc[d]
      BY <2>2 DEF SkipFile, NextFile, TypeInv, TypeOK
    <3>2. WorkAnnounced'
      BY <1>8, <2>2, <3>1 DEF StatementFails, IInv, WorkAnnounced
    <3>3. /\ \A d \in Conns : pc'[d] \in {"none", "create"} => idOf[d] = 0
          /\ \A d \in Conns : client'[d] = "new" => pc'[d] = "none"
      BY <1>8, <2>2, <3>1 DEF StatementFails, IInv, IdsUnique
    <3> QED BY <1>8, <3>2, <3>3, ShrinkStep DEF StatementFails
  <2> QED BY <1>8, <2>1, <2>2 DEF StatementFails
<1>9. ASSUME NEW m \in inbox[c], HandlerFails(c, m) PROVE IInv'
  <2>1. CASE Take(c, m) /\ UNCHANGED pc
    BY <1>1, <1>9, <2>1 DEF HandlerFails, Take, TypeInv, TypeOK
  <2>2. CASE pc[c] = "serve" /\ pc' = [pc EXCEPT ![c] = "end"] /\ Unread(c)
    BY <1>1, <1>9, <2>2 DEF HandlerFails, TypeInv, TypeOK
  <2> QED BY <1>9, <2>1, <2>2 DEF HandlerFails
<1> QED BY <1>2, <1>3, <1>4, <1>5, <1>6, <1>7, <1>8, <1>9, IInvPeerList DEF ServeStep

LEMMA IInvProcess ==
  ASSUME TypeInv, IInv, Crash \/ StopSwarms \/ StopPeers \/ StopExit \/ Restart
  PROVE  IInv'
<1> USE DEF tables, daemonVars
<1>1. CASE Crash \/ StopExit
  <2>1. /\ \A d \in Conns : pc'[d] \in {"none", "end"} /\ (pc'[d] = "none" => pc[d] = "none")
        /\ \A d \in Conns : client'[d] = "new" => client[d] = "new" /\ pc[d] = "none" /\ pc'[d] = "none"
        /\ \A d \in Conns : inbox'[d] = {} /\ work'[d] = NoWork
        /\ UNCHANGED <<tables, idOf, sent, list>>
    BY <1>1 DEF Crash, StopExit, ProcessEnds, IInv, IdsUnique
  <2>2. WorkAnnounced'
    BY <2>1 DEF IInv, WorkAnnounced, NoWork
  <2> QED BY <2>1, <2>2, ShrinkStep DEF IInv, IdsUnique
<1>2. CASE StopSwarms \/ StopPeers \/ Restart
  <2>1. WorkAnnounced'
    BY <1>2 DEF StopSwarms, StopPeers, Restart, IInv, WorkAnnounced
  <2> QED BY <1>2, <2>1, ShrinkStep DEF StopSwarms, StopPeers, Restart, IInv, IdsUnique
<1> QED BY <1>1, <1>2

LEMMA IInvNext == TypeInv /\ IInv /\ [Next]_vars => IInv'
<1>1. ASSUME IInv, UNCHANGED vars PROVE IInv'
  BY <1>1 DEF vars, tables, daemonVars, IInv, IdsUnique, RowsOwned, SwarmsAnnounced, Announced,
     WorkAnnounced, PeerListsSound, ListsNamed
<1> QED BY <1>1, IInvDaemon, IInvAnnounce, IInvServe, IInvProcess DEF Next, StartStep

(***************************************************************************)
(* Every id a PeerListResponse ever holds names exactly one other          *)
(* connection, from an address that announced the file: for any number of  *)
(* daemons and files, addresses that are used again, goodbyes, timeouts of *)
(* daemons that are alive, failed statements, swarms rows left behind by a *)
(* DELETE without cascade, crashes, stops and restarts.                    *)
(***************************************************************************)
THEOREM PeerListsSoundHolds == Spec => []PeerListsSound
<1>1. IInv => PeerListsSound
  BY DEF IInv
<1> QED BY <1>1, IInvInit, IInvNext, TypeInit, TypeNext, PTL DEF Spec

-----------------------------------------------------------------------------
(***************************************************************************)
(* SignalsSolicited: an id is followed from the list or the offer it was   *)
(* read in, through the channel, to the router it is looked up in.         *)
(***************************************************************************)
Solicited(d) ==
    \/ targets[d] # {}
    \/ \E e \in Conns : AddrOf[e] = AddrOf[d] /\ sent[e] # {}

\* A goroutine that got past CreatePeer has an id, and routers are stored under it.
RoutersNamed ==
    /\ \A c \in Conns : pc[c] \notin {"none", "create", "end"} => idOf[c] # 0
    /\ \A r \in routers : r[1] # 0 /\ r[1] = idOf[r[2]]

\* Whom a daemon addresses has announced a file or addressed somebody itself.
TargetsSolicited ==
    \A c \in Conns :
        /\ \A m \in inbox[c] : m.type = "signal" => m.target \in targets[c]
        /\ \A id \in targets[c] : id # 0 /\ \E d \in Conns : idOf[d] = id /\ Solicited(d)

\* A source that was named to a daemon addressed that daemon.
HeardFrom ==
    \A d \in Conns : \A s \in heard[d] :
        /\ s # 0 /\ Solicited(d)
        /\ \E c \in Conns : idOf[c] = s /\ idOf[d] \in targets[c]

SInv == RoutersNamed /\ TargetsSolicited /\ HeardFrom

LEMMA SInvInit == Init => SInv
  BY DEF Init, SInv, RoutersNamed, TargetsSolicited, HeardFrom

LEMMA SInvSolicits == IInv /\ SInv => SignalsSolicited
<1> SUFFICES ASSUME IInv, SInv, NEW d \in Conns, NEW s \in heard[d]
             PROVE  /\ Solicited(d)
                    /\ \A c \in Conns : idOf[c] = s => idOf[d] \in targets[c]
  BY DEF SignalsSolicited, Solicited
<1>1. PICK c \in Conns : idOf[c] = s /\ idOf[d] \in targets[c]
  BY DEF SInv, HeardFrom
<1>2. \A e \in Conns : idOf[e] = s => e = c
  BY <1>1 DEF SInv, HeardFrom, IInv, IdsUnique
<1> QED BY <1>1, <1>2 DEF SInv, HeardFrom

\* A step that forwards nothing, addresses nobody and gives out no id.
LEMMA SInvQuiet ==
  ASSUME SInv, UNCHANGED <<idOf, targets, heard>>, routers' \subseteq routers,
         \A d \in Conns : sent[d] \subseteq sent'[d],
         \A d \in Conns : \A m \in inbox'[d] : m.type = "signal" => m \in inbox[d],
         \A d \in Conns : pc'[d] \notin {"none", "create", "end"} => idOf[d] # 0
  PROVE  SInv'
<1>1. \A d \in Conns : Solicited(d) => Solicited(d)'
  BY DEF Solicited
<1>2. RoutersNamed'
  BY DEF SInv, RoutersNamed
<1>3. TargetsSolicited'
  BY <1>1 DEF SInv, TargetsSolicited
<1>4. HeardFrom'
  BY <1>1 DEF SInv, HeardFrom
<1> QED BY <1>2, <1>3, <1>4 DEF SInv

LEMMA SInvSendSignal ==
  ASSUME TypeInv, IInv, SInv, NEW c \in Conns, NEW id \in Ids, SendSignal(c, id)
  PROVE  SInv'
<1> USE DEF SendSignal, tables, procVars
<1>1. /\ id \in targets'[c]
      /\ targets'[c] = targets[c] \cup {id}
      /\ \A d \in Conns : d # c => targets'[d] = targets[d]
      /\ UNCHANGED <<routers, pc, idOf, sent, heard>>
  BY DEF TypeInv, TypeOK
<1>2. \A d \in Conns : Solicited(d) => Solicited(d)'
  BY <1>1 DEF Solicited
<1>3. id # 0 /\ \E d \in Conns : idOf[d] = id /\ Solicited(d)
  <2>1. CASE id \in list[c].ids
    BY <2>1 DEF IInv, PeerListsSound, ListsNamed, Solicited
  <2>2. CASE id \in heard[c]
    BY <2>2 DEF SInv, HeardFrom, Solicited
  <2> QED BY <2>1, <2>2
<1>4. TargetsSolicited'
  <2>1. \A d \in Conns : \A m \in inbox'[d] : m.type = "signal" => m.target \in targets'[d]
    BY <1>1 DEF Send, SignalMsg, SInv, TargetsSolicited, TypeInv, TypeOK
  <2>2. \A d \in Conns : \A i \in targets'[d] :
           i # 0 /\ \E e \in Conns : idOf[e] = i /\ Solicited(e)
    BY <1>1, <1>3 DEF SInv, TargetsSolicited
  <2> QED BY <1>1, <1>2, <2>1, <2>2 DEF TargetsSolicited
<1>5. HeardFrom'
  BY <1>1, <1>2 DEF SInv, HeardFrom
<1>6. RoutersNamed'
  BY <1>1 DEF SInv, RoutersNamed
<1> QED BY <1>4, <1>5, <1>6 DEF SInv

LEMMA SInvDaemon ==
  ASSUME TypeInv, IInv, SInv, NEW c \in Conns, DaemonStep(c)
  PROVE  SInv'
<1> USE DEF tables, daemonVars, procVars
<1>1. CASE Connect(c)
  BY <1>1, SInvQuiet DEF Connect, SInv, RoutersNamed, TypeInv, TypeOK
<1>2. CASE Leave(c)
  BY <1>2, SInvQuiet DEF Leave, SInv, RoutersNamed
<1>3. ASSUME NEW m, Send(c, m), m.type # "signal",
             UNCHANGED <<routers, pc, idOf, targets, heard>>,
             \A d \in Conns : sent[d] \subseteq sent'[d]
      PROVE  SInv'
  <2>1. \A d \in Conns : \A k \in inbox'[d] : k.type = "signal" => k \in inbox[d]
    BY <1>3 DEF Send, TypeInv, TypeOK
  <2> QED BY <1>3, <2>1, SInvQuiet DEF SInv, RoutersNamed
<1>4. ASSUME NEW fs \in SUBSET Shares[c], SendAnnounce(c, fs)
      PROVE  SInv'
  <2>1. \A d \in Conns : sent[d] \subseteq sent'[d]
    BY <1>4 DEF SendAnnounce, TypeInv, TypeOK
  <2> QED BY <1>3, <1>4, <2>1 DEF SendAnnounce, AnnounceMsg
<1>5. CASE SendGoodbye(c)
  BY <1>3, <1>5 DEF SendGoodbye, GoodbyeMsg
<1>6. ASSUME NEW f \in Files, SendPeerListRequest(c, f) PROVE SInv'
  BY <1>3, <1>6 DEF SendPeerListRequest, RequestMsg
<1> QED BY <1>1, <1>2, <1>4, <1>5, <1>6, SInvSendSignal DEF DaemonStep

\* A new id is nobody's, so no list, message or router holds it.
LEMMA SInvCreatePeer ==
  ASSUME TypeInv, IInv, SInv, NEW c \in Conns, CreatePeer(c), RowsAt(AddrOf[c]) = {}
  PROVE  SInv'
<1> USE DEF CreatePeer, daemonVars
<1>1. /\ idOf[c] = 0 /\ idOf'[c] = nextId /\ nextId # 0
      /\ \A d \in Conns : d # c => idOf'[d] = idOf[d]
      /\ \A d \in Conns : idOf[d] # 0 => idOf'[d] = idOf[d]
      /\ \A d \in Conns : d # c => pc'[d] = pc[d]
      /\ UNCHANGED <<routers, inbox, sent, targets, heard>>
  BY DEF IInv, IdsUnique, TypeInv, TypeOK
<1>2. \A d \in Conns : Solicited(d) => Solicited(d)'
  BY <1>1 DEF Solicited
<1>3. RoutersNamed'
  <2>1. \A r \in routers : r[2] \in Conns
    BY DEF TypeInv, TypeOK
  <2> QED BY <1>1, <2>1 DEF SInv, RoutersNamed
<1>4. TargetsSolicited'
  BY <1>1, <1>2 DEF SInv, TargetsSolicited
<1>5. HeardFrom'
  <2>1. ASSUME NEW d \in Conns, NEW s \in heard[d]
        PROVE  /\ s # 0 /\ Solicited(d)
               /\ \E e \in Conns : idOf'[e] = s /\ idOf'[d] \in targets[e]
    <3>1. PICK e \in Conns : idOf[e] = s /\ idOf[d] \in targets[e]
      BY DEF SInv, HeardFrom
    <3>2. s # 0 /\ Solicited(d) /\ idOf[d] # 0
      BY <3>1 DEF SInv, HeardFrom, TargetsSolicited
    <3> QED BY <1>1, <3>1, <3>2
  <2> QED BY <1>1, <1>2, <2>1 DEF HeardFrom
<1> QED BY <1>3, <1>4, <1>5 DEF SInv

\* The message goes to the connection the id was given to.
LEMMA SInvSignaling ==
  ASSUME TypeInv, IInv, SInv, NEW c \in Conns, NEW id \in Ids, HandleSignaling(c, id)
  PROVE  SInv'
<1> USE DEF HandleSignaling, tables, daemonVars, procVars
<1>1. /\ UNCHANGED <<routers, pc, idOf, sent, targets>>
      /\ \A d \in Conns : inbox'[d] \subseteq inbox[d]
      /\ SignalMsg(id) \in inbox[c] /\ pc[c] = "serve"
      /\ \A d \in Conns : heard'[d] = IF <<id, d>> \in routers
                                       THEN heard[d] \cup {idOf[c]} ELSE heard[d]
  BY DEF Take, TypeInv, TypeOK
<1>2. id \in targets[c] /\ idOf[c] # 0
  BY <1>1 DEF SignalMsg, SInv, TargetsSolicited, RoutersNamed
<1>3. ASSUME NEW d \in Conns, <<id, d>> \in routers
      PROVE  idOf[d] = id /\ Solicited(d)
  <2>1. id # 0 /\ idOf[d] = id
    BY <1>3 DEF SInv, RoutersNamed
  <2>2. PICK e \in Conns : idOf[e] = id /\ Solicited(e)
    BY <1>2 DEF SInv, TargetsSolicited
  <2>3. e = d
    BY <2>1, <2>2 DEF IInv, IdsUnique
  <2> QED BY <2>1, <2>2, <2>3
<1>4. \A d \in Conns : Solicited(d)' <=> Solicited(d)
  BY <1>1 DEF Solicited
<1>5. HeardFrom'
  <2>1. ASSUME NEW d \in Conns, NEW s \in heard'[d]
        PROVE  /\ s # 0 /\ Solicited(d)
               /\ \E e \in Conns : idOf[e] = s /\ idOf[d] \in targets[e]
    <3>1. CASE s \in heard[d]
      BY <3>1 DEF SInv, HeardFrom
    <3>2. CASE s \notin heard[d]
      <4>1. <<id, d>> \in routers /\ s = idOf[c]
        BY <1>1, <3>2
      <4> QED BY <1>2, <1>3, <4>1
    <3> QED BY <3>1, <3>2
  <2> QED BY <1>1, <1>4, <2>1 DEF HeardFrom
<1>6. TargetsSolicited'
  BY <1>1, <1>4 DEF SInv, TargetsSolicited
<1>7. RoutersNamed'
  BY <1>1 DEF SInv, RoutersNamed
<1> QED BY <1>5, <1>6, <1>7 DEF SInv

LEMMA SInvGoroutine ==
  ASSUME TypeInv, IInv, SInv, NEW c \in Conns,
         \/ StartStep(c) \/ AnnounceStep(c) \/ ServeStep(c)
         \/ Timeout(c) \/ Expire(c) \/ StatementFails(c)
         \/ \E m \in inbox[c] : HandlerFails(c, m)
  PROVE  SInv'
<1> USE DEF tables, daemonVars, procVars, Unread
<1>1. ASSUME pc[c] \notin {"none", "create", "end"} \/ pc'[c] = "end",
             \A d \in Conns : d # c => pc'[d] = pc[d],
             \A d \in Conns : inbox'[d] \subseteq inbox[d],
             UNCHANGED <<idOf, targets, heard, sent>>, routers' \subseteq routers
      PROVE  SInv'
  <2>1. \A d \in Conns : pc'[d] \notin {"none", "create", "end"} => idOf[d] # 0
    BY <1>1 DEF SInv, RoutersNamed
  <2> QED BY <1>1, <2>1, SInvQuiet
<1>2. CASE StartStep(c)
  <2>1. CASE CreatePeer(c)
    <3>1. CASE RowsAt(AddrOf[c]) # {}
      BY <1>1, <2>1, <3>1 DEF CreatePeer, TypeInv, TypeOK
    <3> QED BY <2>1, <3>1, SInvCreatePeer
  <2>2. CASE SendId(c)
    BY <1>1, <2>2 DEF SendId, TypeInv, TypeOK
  <2>3. CASE RegisterRouter(c)
    <3>1. /\ pc[c] = "register" /\ pc'[c] = "serve"
          /\ \A d \in Conns : d # c => pc'[d] = pc[d]
          /\ UNCHANGED <<idOf, inbox, sent, targets, heard>>
          /\ idOf[c] # 0
      BY <2>3 DEF RegisterRouter, SInv, RoutersNamed, TypeInv, TypeOK
    <3>2. RoutersNamed'
      BY <2>3, <3>1 DEF RegisterRouter, SInv, RoutersNamed
    <3>3. TargetsSolicited' /\ HeardFrom'
      BY <3>1 DEF SInv, TargetsSolicited, HeardFrom, Solicited
    <3> QED BY <3>2, <3>3 DEF SInv
  <2> QED BY <1>2, <2>1, <2>2, <2>3 DEF StartStep
<1>3. CASE AnnounceStep(c)
  <2>1. ASSUME NEW f \in Files, LookupFile(c, f) PROVE SInv'
    BY <1>1, <2>1 DEF LookupFile, TypeInv, TypeOK
  <2>2. CASE InsertFile(c)
    BY <1>1, <2>2 DEF InsertFile, SkipFile, NextFile, TypeInv, TypeOK
  <2>3. CASE AddPeerToSwarm(c)
    BY <1>1, <2>3 DEF AddPeerToSwarm, NextFile, TypeInv, TypeOK
  <2> QED BY <1>3, <2>1, <2>2, <2>3 DEF AnnounceStep
<1>4. CASE ServeStep(c)
  <2>1. CASE HandleGoodbye(c)
    BY <1>1, <2>1 DEF HandleGoodbye, TypeInv, TypeOK
  <2>2. ASSUME NEW f \in Files, HandlePeerListRequest(c, f) PROVE SInv'
    BY <1>1, <2>2 DEF HandlePeerListRequest, Take, TypeInv, TypeOK
  <2>3. ASSUME NEW fs \in SUBSET Files, HandleAnnounce(c, fs) PROVE SInv'
    BY <1>1, <2>3 DEF HandleAnnounce, Take, TypeInv, TypeOK
  <2> QED BY <1>4, <2>1, <2>2, <2>3, SInvSignaling DEF ServeStep
<1>5. CASE Timeout(c)
  BY <1>1, <1>5 DEF Timeout, TypeInv, TypeOK
<1>6. CASE Expire(c)
  BY <1>1, <1>6 DEF Expire, TypeInv, TypeOK
<1>7. CASE StatementFails(c)
  <2>1. CASE pc' = [pc EXCEPT ![c] = "end"]
    BY <1>1, <1>7, <2>1 DEF StatementFails, TypeInv, TypeOK
  <2>2. CASE pc[c] \in {"insert", "join"} /\ SkipFile(c) /\ UNCHANGED inbox
    BY <1>1, <1>7, <2>2 DEF StatementFails, SkipFile, NextFile, TypeInv, TypeOK
  <2> QED BY <1>7, <2>1, <2>2 DEF StatementFails
<1>8. ASSUME NEW m \in inbox[c], HandlerFails(c, m) PROVE SInv'
  <2>1. CASE Take(c, m) /\ UNCHANGED pc
    BY <1>1, <1>8, <2>1 DEF HandlerFails, Take, TypeInv, TypeOK
  <2>2. CASE pc' = [pc EXCEPT ![c] = "end"] /\ Unread(c)
    BY <1>1, <1>8, <2>2 DEF HandlerFails, TypeInv, TypeOK
  <2> QED BY <1>8, <2>1, <2>2 DEF HandlerFails
<1> QED BY <1>2, <1>3, <1>4, <1>5, <1>6, <1>7, <1>8

LEMMA SInvProcess ==
  ASSUME SInv, Crash \/ StopSwarms \/ StopPeers \/ StopExit \/ Restart
  PROVE  SInv'
<1> USE DEF tables, daemonVars
<1>1. CASE Crash \/ StopExit
  <2>1. /\ \A d \in Conns : pc'[d] \in {"none", "end"} /\ inbox'[d] = {}
        /\ routers' = {}
        /\ UNCHANGED <<idOf, sent, targets, heard>>
    BY <1>1 DEF Crash, StopExit, ProcessEnds
  <2> QED BY <2>1, SInvQuiet
<1>2. CASE StopSwarms \/ StopPeers \/ Restart
  BY <1>2, SInvQuiet DEF StopSwarms, StopPeers, Restart, SInv, RoutersNamed
<1> QED BY <1>1, <1>2

LEMMA SInvNext == TypeInv /\ IInv /\ SInv /\ [Next]_vars => SInv'
<1>1. ASSUME SInv, UNCHANGED vars PROVE SInv'
  BY <1>1, SInvQuiet DEF vars, tables, daemonVars, procVars, SInv, RoutersNamed
<1> QED BY <1>1, SInvDaemon, SInvGoroutine, SInvProcess DEF Next

(***************************************************************************)
(* Offers, answers and candidates go where they were addressed, and only   *)
(* to daemons that took part: although ids are read from old lists, come   *)
(* out of channels in any order and are looked up in a map whose entries   *)
(* outlive a goodbye.                                                      *)
(***************************************************************************)
THEOREM SignalsSolicitedHolds == Spec => []SignalsSolicited
  BY SInvSolicits, SInvInit, SInvNext, IInvInit, IInvNext, TypeInit, TypeNext, PTL DEF Spec

-----------------------------------------------------------------------------
(***************************************************************************)
(* SwarmComplete: an announced file is in the channel, at hand, in the     *)
(* swarm or skipped.  A goroutine past CreatePeer has its row, the only    *)
(* one of its address, so a goroutine that finds its INSERT refused lost   *)
(* against a daemon at another address.                                    *)
(***************************************************************************)
Serving == {"serve", "lookup", "insert", "join"}
Alive == Serving \cup {"sendid", "register", "expire"}

AddrUnique == \A p, q \in peers : p.addr = q.addr => p = q

\* Nothing is sent, and nothing skipped, before the daemon is connected.
Started(c) ==
    /\ pc[c] = "none" => sent[c] = {} /\ skipped[c] = {}
    /\ client[c] = "up" => pc[c] # "none"

Row(c) == [id |-> idOf[c], addr |-> AddrOf[c]]
OwnRow(c) == pc[c] \in Alive => Row(c) \in peers

\* Where an announced file is on its way to the swarm.
Waiting(c, f) ==
    \/ \E m \in inbox[c] : m.type = "announce" /\ f \in m.files
    \/ pc[c] \in {"lookup", "insert", "join"} /\ f \in work[c].todo
    \/ pc[c] \in {"insert", "join"} /\ f = work[c].file

Complete(c) ==
    pc[c] \notin {"expire", "end"} =>
        \A f \in sent[c] : <<idOf[c], f>> \in swarms \/ Waiting(c, f) \/ f \in skipped[c]

\* A daemon at another address has announced f too.
Elsewhere(c, f) == \E d \in Conns : AddrOf[d] # AddrOf[c] /\ f \in sent[d]

\* The row was not there when this goroutine looked.
Raced(c) == pc[c] = "insert" /\ work[c].file \in fileRow => Elsewhere(c, work[c].file)

Excused(c) == pc[c] # "end" /\ faults = 0 => \A f \in skipped[c] : Elsewhere(c, f)

\* What holds of a connection between two starts of the tracker.
Good(c) == OwnRow(c) /\ Complete(c) /\ Raced(c) /\ Excused(c)

CInv ==
    /\ AddrUnique
    /\ \A c \in Conns : Started(c)
    /\ phase = "down" => \A c \in Conns : pc[c] \in {"none", "end"}
    /\ phase = "up" => \A c \in Conns : Good(c)

LEMMA CInvInit == Init => CInv
  BY DEF Init, CInv, AddrUnique, Started, Good, OwnRow, Complete, Raced, Excused, Alive, Serving

LEMMA CInvCompletes == CInv => SwarmComplete
<1> SUFFICES ASSUME CInv, NEW c \in Conns, pc[c] = "serve", phase = "up"
             PROVE  /\ \A f \in sent[c] :
                          Settled(c, f) => <<idOf[c], f>> \in swarms \/ f \in skipped[c]
                    /\ \A f \in skipped[c] : faults = 0 =>
                          \E d \in Conns : AddrOf[d] # AddrOf[c] /\ f \in sent[d]
  BY DEF SwarmComplete
<1>1. Complete(c) /\ Excused(c)
  BY DEF CInv, Good
<1> QED BY <1>1 DEF Complete, Waiting, Settled, Excused, Elsewhere

\* What was announced elsewhere stays so.
LEMMA ElsewhereStays ==
  ASSUME \A d \in Conns : sent[d] \subseteq sent'[d], NEW c, NEW f, Elsewhere(c, f)
  PROVE  Elsewhere(c, f)'
  BY DEF Elsewhere

\* What a connection is left as when others change the tables.
LEMMA OthersKeep ==
  ASSUME NEW d \in Conns, Good(d),
         pc'[d] = pc[d], work'[d] = work[d], inbox'[d] = inbox[d], idOf'[d] = idOf[d], sent'[d] = sent[d],
         skipped'[d] = skipped[d], faults' = 0 => faults = 0,
         \A e \in Conns : sent[e] \subseteq sent'[e],
         pc[d] \in Alive /\ Row(d) \in peers => Row(d) \in peers',
         \A f : pc[d] \notin {"expire", "end"} /\ <<idOf[d], f>> \in swarms => <<idOf[d], f>> \in swarms',
         pc[d] = "insert" /\ work[d].file \notin fileRow /\ work[d].file \in fileRow' =>
            Elsewhere(d, work[d].file)
  PROVE  Good(d)'
<1>1. Row(d)' = Row(d)
  BY DEF Row
<1>2. \A f : Waiting(d, f) => Waiting(d, f)'
  BY DEF Waiting
<1>3. \A f : Elsewhere(d, f) => Elsewhere(d, f)'
  BY ElsewhereStays
<1>4. OwnRow(d)' /\ Complete(d)'
  BY <1>1, <1>2 DEF Good, OwnRow, Complete
<1>5. Raced(d)'
  BY <1>3 DEF Good, Raced, Elsewhere
<1>6. Excused(d)'
  BY <1>3 DEF Good, Excused
<1> QED BY <1>4, <1>5, <1>6 DEF Good

\* A step of one connection that leaves the tables alone.
LEMMA CInvLocal ==
  ASSUME CInv, NEW c \in Conns, UNCHANGED <<fileRow, peers, swarms, phase>>,
         \A d \in Conns : d # c =>
            /\ pc'[d] = pc[d] /\ work'[d] = work[d] /\ inbox'[d] = inbox[d] /\ skipped'[d] = skipped[d]
            /\ idOf'[d] = idOf[d] /\ sent'[d] = sent[d] /\ client'[d] = client[d],
         sent[c] \subseteq sent'[c], faults' = 0 => faults = 0,
         phase = "down" => pc'[c] \in {"none", "end"},
         Started(c)',
         phase = "up" => Good(c)'
  PROVE  CInv'
<1>1. \A d \in Conns : Started(d)'
  BY DEF CInv, Started
<1>2. phase = "up" => \A d \in Conns : Good(d)'
  <2> SUFFICES ASSUME phase = "up", NEW d \in Conns, d # c
               PROVE  Good(d)'
    OBVIOUS
  <2>1. Good(d) /\ \A e \in Conns : sent[e] \subseteq sent'[e]
    BY DEF CInv
  <2> QED BY <2>1, OthersKeep
<1> QED BY <1>1, <1>2 DEF CInv, AddrUnique

LEMMA CInvDaemon ==
  ASSUME TypeInv, IInv, CInv, NEW c \in Conns, DaemonStep(c)
  PROVE  CInv'
<1> USE DEF tables, daemonVars, procVars
<1>1. CASE Connect(c)
  <2>1. /\ pc[c] = "none" /\ pc'[c] = "create" /\ phase # "down" /\ client'[c] = "up"
        /\ \A d \in Conns : d # c => pc'[d] = pc[d] /\ client'[d] = client[d]
        /\ UNCHANGED <<tables, phase, work, inbox, idOf, sent, skipped, faults>>
    BY <1>1 DEF Connect, IInv, IdsUnique, TypeInv, TypeOK
  <2>2. sent[c] = {} /\ skipped[c] = {}
    BY <2>1 DEF CInv, Started
  <2>3. Started(c)' /\ Good(c)'
    BY <2>1, <2>2 DEF Started, Good, OwnRow, Complete, Raced, Excused, Alive, Serving
  <2> QED BY <2>1, <2>3, CInvLocal
<1>2. CASE Leave(c)
  <2>1. /\ client'[c] = "gone" /\ \A d \in Conns : d # c => client'[d] = client[d]
        /\ UNCHANGED <<tables, phase, pc, work, inbox, idOf, sent, skipped, faults>>
    BY <1>2 DEF Leave, TypeInv, TypeOK
  <2>2. Started(c)' /\ (phase = "up" => Good(c)')
    BY <2>1 DEF CInv, Started, Good, OwnRow, Row, Complete, Waiting, Raced, Excused, Elsewhere
  <2>3. phase = "down" => pc'[c] \in {"none", "end"}
    BY <2>1 DEF CInv
  <2> QED BY <2>1, <2>2, <2>3, CInvLocal
<1>3. ASSUME NEW m, Send(c, m), UNCHANGED <<tables, phase, pc, work, idOf, client, skipped, faults>>,
             \A d \in Conns : d # c => sent'[d] = sent[d],
             sent[c] \subseteq sent'[c],
             \A f \in sent'[c] : f \in sent[c] \/ (m.type = "announce" /\ f \in m.files)
      PROVE  CInv'
  <2>1. /\ client[c] = "up" /\ inbox'[c] = inbox[c] \cup {m}
        /\ \A d \in Conns : d # c => inbox'[d] = inbox[d]
    BY <1>3 DEF Send, TypeInv, TypeOK
  <2>2. Started(c)'
    BY <1>3, <2>1 DEF CInv, Started
  <2>3. ASSUME phase = "up" PROVE Good(c)'
    <3>1. Good(c)
      BY <2>3 DEF CInv
    <3>2. \A f : Waiting(c, f) => Waiting(c, f)'
      BY <1>3, <2>1 DEF Waiting
    <3>3. \A f \in sent'[c] : f \in sent[c] \/ Waiting(c, f)'
      BY <1>3, <2>1 DEF Waiting
    <3>4. \A f : Elsewhere(c, f) => Elsewhere(c, f)'
      BY <1>3, ElsewhereStays
    <3>5. OwnRow(c)' /\ Complete(c)'
      BY <1>3, <3>1, <3>2, <3>3 DEF Good, OwnRow, Row, Complete
    <3> QED BY <1>3, <3>1, <3>4, <3>5 DEF Good, Raced, Excused
  <2>4. phase = "down" => pc'[c] \in {"none", "end"}
    BY <1>3 DEF CInv
  <2> QED BY <1>3, <2>1, <2>2, <2>3, <2>4, CInvLocal
<1>5. ASSUME NEW fs \in SUBSET Shares[c], SendAnnounce(c, fs) PROVE CInv'
  <2>1. /\ sent'[c] = sent[c] \cup fs /\ \A d \in Conns : d # c => sent'[d] = sent[d]
        /\ AnnounceMsg(fs).type = "announce" /\ AnnounceMsg(fs).files = fs
    BY <1>5 DEF SendAnnounce, AnnounceMsg, TypeInv, TypeOK
  <2> QED BY <1>3, <1>5, <2>1 DEF SendAnnounce
<1>6. CASE SendGoodbye(c)
  BY <1>3, <1>6 DEF SendGoodbye
<1>7. ASSUME NEW f \in Files, SendPeerListRequest(c, f) PROVE CInv'
  BY <1>3, <1>7 DEF SendPeerListRequest
<1>8. ASSUME NEW id \in Ids, SendSignal(c, id) PROVE CInv'
  BY <1>3, <1>8 DEF SendSignal
<1> QED BY <1>1, <1>2, <1>5, <1>6, <1>7, <1>8 DEF DaemonStep

\* Of the connections from one address at most one has got past CreatePeer.
LEMMA AloneAtAddress ==
  ASSUME IInv, CInv, phase = "up", NEW c \in Conns, NEW d \in Conns,
         pc[c] \in Alive, pc[d] \in Alive, AddrOf[c] = AddrOf[d]
  PROVE  c = d
<1>1. Row(c) \in peers /\ Row(d) \in peers
  BY DEF CInv, Good, OwnRow
<1>2. Row(c) = Row(d) /\ idOf[c] # 0
  BY <1>1 DEF CInv, AddrUnique, Row, IInv, RowsOwned
<1> QED BY <1>2 DEF Row, IInv, IdsUnique

\* A step of one connection that changes the tables.
LEMMA CInvTables ==
  ASSUME CInv, NEW c \in Conns, phase' = phase, phase # "down", AddrUnique',
         \A d \in Conns : d # c => /\ pc'[d] = pc[d] /\ sent'[d] = sent[d]
                                  /\ client'[d] = client[d] /\ skipped'[d] = skipped[d],
         Started(c)',
         phase = "up" => \A d \in Conns : Good(d)'
  PROVE  CInv'
<1>1. \A d \in Conns : Started(d)'
  BY DEF CInv, Started
<1> QED BY <1>1 DEF CInv

\* A connection past Connect shares as before.
LEMMA StartedStays ==
  ASSUME CInv, NEW c \in Conns, sent' = sent, client' = client, pc'[c] # "none"
  PROVE  Started(c)'
  BY DEF CInv, Started

LEMMA CInvCreatePeer ==
  ASSUME TypeInv, IInv, CInv, NEW c \in Conns, CreatePeer(c)
  PROVE  CInv'
<1> USE DEF CreatePeer, daemonVars, procVars
<1>1. /\ pc[c] = "create" /\ phase # "down" /\ UNCHANGED <<fileRow, swarms, work, client, sent, phase, skipped, faults>>
      /\ idOf[c] = 0
  BY DEF CInv, IInv, IdsUnique
<1>2. CASE RowsAt(AddrOf[c]) # {}
  <2>1. /\ pc'[c] = "end" /\ UNCHANGED <<peers, idOf>>
        /\ \A d \in Conns : d # c => pc'[d] = pc[d] /\ inbox'[d] = inbox[d]
    BY <1>2 DEF Unread, TypeInv, TypeOK
  <2>2. Good(c)'
    BY <2>1 DEF Good, OwnRow, Complete, Raced, Excused, Alive, Serving
  <2>3. Started(c)'
    BY <1>1, <2>1, StartedStays
  <2> QED BY <1>1, <2>1, <2>2, <2>3, CInvLocal
<1>3. CASE RowsAt(AddrOf[c]) = {}
  <2>1. /\ peers' = peers \cup {[id |-> nextId, addr |-> AddrOf[c]]}
        /\ idOf'[c] = nextId /\ pc'[c] = "sendid" /\ UNCHANGED inbox
        /\ \A d \in Conns : d # c => pc'[d] = pc[d] /\ idOf'[d] = idOf[d]
    BY <1>3 DEF TypeInv, TypeOK
  <2>2. AddrUnique'
    BY <1>3, <2>1 DEF CInv, AddrUnique, RowsAt
  <2>3. Started(c)'
    BY <1>1, <2>1, StartedStays
  <2>4. ASSUME phase = "up" PROVE Good(c)'
    <3>1. Complete(c) /\ Excused(c)
      BY <2>4 DEF CInv, Good
    <3>2. \A f \in sent[c] : Waiting(c, f)' \/ f \in skipped[c]
      <4>1. \A f : <<idOf[c], f>> \notin swarms
        BY <1>1 DEF IInv, SwarmsAnnounced
      <4> QED BY <1>1, <2>1, <3>1, <4>1 DEF Complete, Waiting
    <3> QED BY <1>1, <2>1, <3>1, <3>2 DEF Good, OwnRow, Row, Complete, Raced, Excused, Elsewhere
  <2>5. ASSUME phase = "up", NEW d \in Conns, d # c PROVE Good(d)'
    <3>1. Good(d)
      BY <2>5 DEF CInv
    <3> QED BY <1>1, <2>1, <2>5, <3>1, OthersKeep
  <2> QED BY <1>1, <2>1, <2>2, <2>3, <2>4, <2>5, CInvTables
<1> QED BY <1>2, <1>3

LEMMA CInvAnnounce ==
  ASSUME TypeInv, IInv, CInv, NEW c \in Conns, AnnounceStep(c)
  PROVE  CInv'
<1> USE DEF daemonVars, procVars
<1>1. ASSUME NEW f \in Files, LookupFile(c, f) PROVE CInv'
  <2>1. /\ pc[c] = "lookup" /\ phase # "down" /\ f \in work[c].todo
        /\ UNCHANGED <<fileRow, peers, swarms, phase, inbox, idOf, sent, client, skipped, faults>>
        /\ work'[c] = [file |-> f, todo |-> work[c].todo \ {f}]
        /\ pc'[c] = IF f \in fileRow THEN "join" ELSE "insert"
        /\ \A d \in Conns : d # c => pc'[d] = pc[d] /\ work'[d] = work[d]
    BY <1>1 DEF LookupFile, tables, CInv, TypeInv, TypeOK
  <2>2. Started(c)'
    BY <2>1, StartedStays
  <2>3. ASSUME phase = "up" PROVE Good(c)'
    <3>1. OwnRow(c) /\ Complete(c) /\ Excused(c)
      BY <2>3 DEF CInv, Good
    <3>2. \A g : Waiting(c, g) => Waiting(c, g)'
      BY <2>1 DEF Waiting
    <3>3. Complete(c)'
      BY <2>1, <3>1, <3>2 DEF Complete
    <3> QED BY <2>1, <3>1, <3>3 DEF Good, OwnRow, Row, Raced, Excused, Elsewhere, Alive, Serving
  <2> QED BY <2>1, <2>2, <2>3, CInvLocal
<1>2. CASE InsertFile(c)
  <2>1. /\ pc[c] = "insert" /\ phase # "down" /\ pc'[c] \in {"join", "serve", "lookup"}
        /\ fileRow' = fileRow \cup {work[c].file}
        /\ UNCHANGED <<peers, swarms, phase, work, inbox, idOf, sent, client, faults>>
        /\ \A d \in Conns : d # c => pc'[d] = pc[d] /\ skipped'[d] = skipped[d]
    <3>1. pc[c] = "insert" /\ UNCHANGED <<peers, swarms, phase, work, inbox, idOf, sent, client, faults>>
      BY <1>2 DEF InsertFile
    <3>2. phase # "down"
      BY <3>1 DEF CInv
    <3>3. fileRow' = fileRow \cup {work[c].file}
      BY <1>2 DEF InsertFile
    <3>4. /\ pc'[c] \in {"join", "serve", "lookup"}
          /\ \A d \in Conns : d # c => pc'[d] = pc[d] /\ skipped'[d] = skipped[d]
      BY <1>2 DEF InsertFile, SkipFile, NextFile, TypeInv, TypeOK
    <3> QED BY <3>1, <3>2, <3>3, <3>4
  <2>2. \/ pc'[c] = "join" /\ skipped'[c] = skipped[c]
        \/ /\ work[c].file \in fileRow /\ skipped'[c] = skipped[c] \cup {work[c].file}
           /\ pc'[c] = IF work[c].todo = {} THEN "serve" ELSE "lookup"
    BY <1>2 DEF InsertFile, SkipFile, NextFile, TypeInv, TypeOK
  <2>3. Started(c)'
    BY <2>1 DEF CInv, Started
  <2>4. ASSUME phase = "up" PROVE Good(c)'
    <3>1. Good(c)
      BY <2>4 DEF CInv
    <3>2. \A g : Waiting(c, g) => Waiting(c, g)' \/ g \in skipped'[c]
      BY <2>1, <2>2 DEF Waiting
    <3>3. skipped[c] \subseteq skipped'[c]
      BY <2>2
    <3>4. Complete(c)'
      BY <2>1, <3>1, <3>2, <3>3 DEF Good, Complete
    <3>5. Excused(c)'
      BY <2>1, <2>2, <3>1 DEF Good, Excused, Raced, Elsewhere
    <3> QED BY <2>1, <3>1, <3>4, <3>5 DEF Good, OwnRow, Row, Raced, Alive, Serving
  <2>5. ASSUME phase = "up", NEW d \in Conns, d # c PROVE Good(d)'
    <3>1. Good(d)
      BY <2>5 DEF CInv
    <3>2. pc[d] = "insert" /\ work[d].file = work[c].file => Elsewhere(d, work[d].file)
      <4> SUFFICES ASSUME pc[d] = "insert", work[d].file = work[c].file
                   PROVE  Elsewhere(d, work[c].file)
        OBVIOUS
      <4>1. work[c].file \in sent[c]
        BY <2>1 DEF IInv, WorkAnnounced
      <4>2. AddrOf[c] # AddrOf[d]
        BY <2>1, <2>5, AloneAtAddress DEF Alive, Serving
      <4> QED BY <4>1, <4>2 DEF Elsewhere
    <3> QED BY <2>1, <2>5, <3>1, <3>2, OthersKeep
  <2>6. AddrUnique'
    BY <2>1 DEF CInv, AddrUnique
  <2> QED BY <2>1, <2>3, <2>4, <2>5, <2>6, CInvTables
<1>3. CASE AddPeerToSwarm(c)
  <2>1. /\ pc[c] = "join" /\ phase # "down"
        /\ pc'[c] = IF work[c].todo = {} THEN "serve" ELSE "lookup"
        /\ swarms' = swarms \cup {<<p.id, work[c].file>> : p \in RowsAt(AddrOf[c])}
        /\ UNCHANGED <<fileRow, peers, phase, work, inbox, idOf, sent, client, skipped, faults>>
        /\ \A d \in Conns : d # c => pc'[d] = pc[d]
    BY <1>3 DEF AddPeerToSwarm, NextFile, CInv, TypeInv, TypeOK
  <2>2. Started(c)'
    BY <2>1, StartedStays
  <2>3. ASSUME phase = "up" PROVE Good(c)'
    <3>1. OwnRow(c) /\ Complete(c) /\ Excused(c)
      BY <2>3 DEF CInv, Good
    <3>2. <<idOf[c], work[c].file>> \in swarms'
      <4>1. Row(c) \in RowsAt(AddrOf[c]) /\ Row(c).id = idOf[c]
        BY <2>1, <3>1 DEF OwnRow, Row, RowsAt, Alive, Serving
      <4> QED BY <2>1, <4>1
    <3>3. \A f : Waiting(c, f) => Waiting(c, f)' \/ f = work[c].file
      BY <2>1 DEF Waiting
    <3>4. Complete(c)'
      BY <2>1, <3>1, <3>2, <3>3 DEF Complete
    <3> QED BY <2>1, <3>1, <3>4 DEF Good, OwnRow, Row, Raced, Excused, Elsewhere, Alive, Serving
  <2>4. ASSUME phase = "up", NEW d \in Conns, d # c PROVE Good(d)'
    <3>1. Good(d)
      BY <2>4 DEF CInv
    <3> QED BY <2>1, <2>4, <3>1, OthersKeep
  <2>5. AddrUnique'
    BY <2>1 DEF CInv, AddrUnique
  <2> QED BY <2>1, <2>2, <2>3, <2>4, <2>5, CInvTables
<1> QED BY <1>1, <1>2, <1>3 DEF AnnounceStep

\* DeletePeer takes the row of its own connection only.
LEMMA CInvDelete ==
  ASSUME TypeInv, IInv, CInv, NEW c \in Conns, pc[c] \in Alive, DeletePeer(c),
         UNCHANGED <<fileRow, work, idOf, sent, client, phase, skipped, faults>>,
         \A d \in Conns : d # c => pc'[d] = pc[d] /\ inbox'[d] = inbox[d],
         pc'[c] = "end"
  PROVE  CInv'
<1>1. phase # "down" /\ AddrUnique' /\ peers' = peers \ RowsAt(AddrOf[c])
  BY DEF CInv, AddrUnique, DeletePeer, Alive, Serving
<1>2. Started(c)'
  BY StartedStays
<1>3. Good(c)'
  BY DEF Good, OwnRow, Complete, Raced, Excused, Alive, Serving
<1>4. ASSUME phase = "up", NEW d \in Conns, d # c PROVE Good(d)'
  <2>1. Good(d)
    BY <1>4 DEF CInv
  <2>2. pc[d] \in Alive => Row(d) \in peers'
    <3>1. pc[d] \in Alive => AddrOf[d] # AddrOf[c]
      BY <1>4, AloneAtAddress
    <3> QED BY <1>1, <2>1, <3>1 DEF Good, OwnRow, Row, RowsAt
  <2>3. ASSUME NEW f, pc[d] \notin {"expire", "end"}, <<idOf[d], f>> \in swarms
        PROVE  <<idOf[d], f>> \in swarms'
    <3>1. idOf[d] # 0
      BY <2>3 DEF IInv, SwarmsAnnounced
    <3>2. pc[d] \in Alive
      <4>1. pc[d] \in States /\ pc[d] \notin {"none", "create"}
        BY <3>1 DEF IInv, IdsUnique, TypeInv, TypeOK
      <4> QED BY <2>3, <4>1 DEF States, Alive, Serving
    <3>3. Row(d) \in peers' /\ Row(d).id = idOf[d]
      BY <2>2, <3>2 DEF Row
    <3> QED BY <2>3, <3>3 DEF DeletePeer
  <2> QED BY <1>4, <2>1, <2>2, <2>3, OthersKeep
<1> QED BY <1>1, <1>2, <1>3, <1>4, CInvTables

\* A step of a serving goroutine that leaves the tables alone.
LEMMA CInvServing ==
  ASSUME TypeInv, CInv, NEW c \in Conns, pc[c] \in Alive, pc'[c] \in Alive \cup {"end"},
         UNCHANGED <<fileRow, peers, swarms, phase, idOf, sent, client, skipped>>,
         faults' = 0 => faults = 0,
         \A d \in Conns : d # c => pc'[d] = pc[d] /\ work'[d] = work[d] /\ inbox'[d] = inbox[d],
         pc'[c] # "insert",
         pc'[c] \notin {"expire", "end"} => pc[c] # "expire" /\ \A f : Waiting(c, f) => Waiting(c, f)'
  PROVE  CInv'
<1>1. phase # "down"
  BY DEF CInv, Alive, Serving
<1>2. Started(c)'
  BY StartedStays DEF Alive, Serving
<1>3. ASSUME phase = "up" PROVE Good(c)'
  <2>1. OwnRow(c) /\ Complete(c) /\ Excused(c)
    BY <1>3 DEF CInv, Good
  <2>2. Complete(c)'
    BY <2>1 DEF Complete, Alive, Serving
  <2> QED BY <2>1, <2>2 DEF Good, OwnRow, Row, Raced, Excused, Elsewhere, Alive, Serving
<1> QED BY <1>1, <1>2, <1>3, CInvLocal

LEMMA CInvGoroutine ==
  ASSUME TypeInv, IInv, CInv, NEW c \in Conns,
         \/ StartStep(c) \/ AnnounceStep(c) \/ ServeStep(c)
         \/ Timeout(c) \/ Expire(c) \/ StatementFails(c)
         \/ \E m \in inbox[c] : HandlerFails(c, m)
  PROVE  CInv'
<1> USE DEF tables, daemonVars, procVars, Unread
<1>1. CASE SendId(c)
  <2>1. /\ pc[c] = "sendid" /\ pc'[c] \in {"register", "end"}
        /\ pc'[c] = "register" => UNCHANGED inbox
        /\ \A d \in Conns : d # c => pc'[d] = pc[d] /\ inbox'[d] = inbox[d]
    BY <1>1 DEF SendId, TypeInv, TypeOK
  <2> QED BY <1>1, <2>1, CInvServing DEF SendId, Alive, Serving, Waiting
<1>2. CASE RegisterRouter(c)
  <2>1. /\ pc[c] = "register" /\ pc'[c] = "serve" /\ \A d \in Conns : d # c => pc'[d] = pc[d]
    BY <1>2 DEF RegisterRouter, TypeInv, TypeOK
  <2> QED BY <1>2, <2>1, CInvServing DEF RegisterRouter, Alive, Serving, Waiting
<1>3. CASE Timeout(c)
  <2>1. /\ pc[c] = "serve" /\ pc'[c] = "expire"
        /\ \A d \in Conns : d # c => pc'[d] = pc[d] /\ inbox'[d] = inbox[d]
    BY <1>3 DEF Timeout, TypeInv, TypeOK
  <2> QED BY <1>3, <2>1, CInvServing DEF Timeout, Alive, Serving
<1>4. CASE Expire(c)
  <2>1. /\ pc[c] = "expire" /\ pc'[c] = "end" /\ \A d \in Conns : d # c => pc'[d] = pc[d]
    BY <1>4 DEF Expire, TypeInv, TypeOK
  <2> QED BY <1>4, <2>1, CInvDelete DEF Expire, Alive
<1>5. CASE HandleGoodbye(c)
  <2>1. /\ pc[c] = "serve" /\ pc'[c] = "end"
        /\ \A d \in Conns : d # c => pc'[d] = pc[d] /\ inbox'[d] = inbox[d]
    BY <1>5 DEF HandleGoodbye, TypeInv, TypeOK
  <2> QED BY <1>5, <2>1, CInvDelete DEF HandleGoodbye, Alive, Serving
<1>6. ASSUME NEW m, Take(c, m), m.type # "announce",
             UNCHANGED <<tables, phase, pc, work, idOf, sent, client, skipped>>,
             faults' = 0 => faults = 0
      PROVE  CInv'
  <2>1. /\ pc[c] = "serve" /\ inbox'[c] = inbox[c] \ {m}
        /\ \A d \in Conns : d # c => inbox'[d] = inbox[d]
    BY <1>6 DEF Take, TypeInv, TypeOK
  <2>2. \A f : Waiting(c, f) => Waiting(c, f)'
    BY <1>6, <2>1 DEF Waiting
  <2> QED BY <1>6, <2>1, <2>2, CInvServing DEF Alive, Serving
<1>7. ASSUME NEW id \in Ids, HandleSignaling(c, id) PROVE CInv'
  BY <1>6, <1>7 DEF HandleSignaling, SignalMsg
<1>8. ASSUME NEW f \in Files, HandlePeerListRequest(c, f) PROVE CInv'
  BY <1>6, <1>8 DEF HandlePeerListRequest, RequestMsg
<1>9. ASSUME NEW fs \in SUBSET Files, HandleAnnounce(c, fs) PROVE CInv'
  <2>1. /\ pc[c] = "serve" /\ pc'[c] = "lookup" /\ work'[c] = [file |-> None, todo |-> fs]
        /\ inbox'[c] = inbox[c] \ {AnnounceMsg(fs)} /\ AnnounceMsg(fs).files = fs
        /\ \A d \in Conns : d # c => pc'[d] = pc[d] /\ work'[d] = work[d] /\ inbox'[d] = inbox[d]
    BY <1>9 DEF HandleAnnounce, Take, AnnounceMsg, TypeInv, TypeOK
  <2>2. \A f : Waiting(c, f) => Waiting(c, f)'
    BY <2>1 DEF Waiting
  <2> QED BY <1>9, <2>1, <2>2, CInvServing DEF HandleAnnounce, Alive, Serving
<1>10. CASE StatementFails(c)
  <2>1. faults' = faults + 1 /\ (faults' = 0 => faults = 0)
    BY <1>10 DEF StatementFails, TypeInv, TypeOK
  <2>2. CASE pc[c] = "create"
    <3>1. /\ pc'[c] = "end" /\ skipped' = skipped /\ UNCHANGED <<tables, work, idOf, sent, client, phase>>
          /\ \A d \in Conns : d # c => pc'[d] = pc[d] /\ inbox'[d] = inbox[d]
      BY <1>10, <2>2 DEF StatementFails, TypeInv, TypeOK
    <3>2. Started(c)' /\ Good(c)'
      BY <3>1, StartedStays DEF Good, OwnRow, Complete, Raced, Excused, Alive, Serving
    <3> QED BY <2>1, <3>1, <3>2, CInvLocal
  <2>3. CASE pc[c] = "expire"
    <3>1. /\ pc'[c] = "end" /\ skipped' = skipped /\ UNCHANGED <<tables, work, idOf, sent, client, phase>>
          /\ \A d \in Conns : d # c => pc'[d] = pc[d] /\ inbox'[d] = inbox[d]
      BY <1>10, <2>3 DEF StatementFails, TypeInv, TypeOK
    <3> QED BY <2>1, <2>3, <3>1, CInvServing DEF Alive, Serving
  <2>4. CASE pc[c] \in {"insert", "join"}
    <3>1. /\ pc'[c] = IF work[c].todo = {} THEN "serve" ELSE "lookup"
          /\ skipped'[c] = skipped[c] \cup {work[c].file}
          /\ \A d \in Conns : d # c => pc'[d] = pc[d] /\ skipped'[d] = skipped[d]
          /\ UNCHANGED <<tables, work, inbox, idOf, sent, client, phase>>
      BY <1>10, <2>4 DEF StatementFails, SkipFile, NextFile, TypeInv, TypeOK
    <3>2. faults' # 0
      BY <2>1 DEF TypeInv, TypeOK
    <3>3. Started(c)' /\ phase # "down"
      BY <2>4, <3>1 DEF CInv, Started
    <3>4. ASSUME phase = "up" PROVE Good(c)'
      <4>1. Good(c)
        BY <3>4 DEF CInv
      <4>2. \A g : Waiting(c, g) => Waiting(c, g)' \/ g \in skipped'[c]
        BY <2>4, <3>1 DEF Waiting
      <4>3. Complete(c)'
        BY <2>4, <3>1, <4>1, <4>2 DEF Good, Complete
      <4> QED BY <2>4, <3>1, <3>2, <4>1, <4>3 DEF Good, OwnRow, Row, Raced, Excused, Alive, Serving
    <3> QED BY <2>1, <3>1, <3>3, <3>4, CInvLocal
  <2> QED BY <1>10, <2>2, <2>3, <2>4 DEF StatementFails
<1>11. ASSUME NEW m \in inbox[c], HandlerFails(c, m) PROVE CInv'
  <2>1. faults' = 0 => faults = 0
    BY <1>11 DEF HandlerFails, TypeInv, TypeOK
  <2>2. CASE m.type = "request" /\ Take(c, m) /\ UNCHANGED pc
    BY <1>6, <1>11, <2>1, <2>2 DEF HandlerFails
  <2>3. CASE pc[c] = "serve" /\ pc' = [pc EXCEPT ![c] = "end"] /\ Unread(c)
    <3>1. /\ pc'[c] = "end" /\ skipped' = skipped
          /\ \A d \in Conns : d # c => pc'[d] = pc[d] /\ inbox'[d] = inbox[d]
      BY <1>11, <2>3 DEF HandlerFails, TypeInv, TypeOK
    <3> QED BY <1>11, <2>1, <2>3, <3>1, CInvServing DEF HandlerFails, Alive, Serving
  <2> QED BY <1>11, <2>2, <2>3 DEF HandlerFails
<1> QED BY <1>1, <1>2, <1>3, <1>4, <1>5, <1>7, <1>8, <1>9, <1>10, <1>11, CInvCreatePeer, CInvAnnounce
        DEF StartStep, ServeStep

LEMMA CInvProcess ==
  ASSUME TypeInv, CInv, Crash \/ StopSwarms \/ StopPeers \/ StopExit \/ Restart
  PROVE  CInv'
<1> USE DEF tables, daemonVars
<1>1. CASE Crash \/ StopExit
  <2>1. /\ \A d \in Conns : /\ pc'[d] \in {"none", "end"} /\ (pc'[d] = "none" => pc[d] = "none")
                            /\ client'[d] # "up"
        /\ UNCHANGED <<tables, sent, skipped>> /\ phase' = "down"
    BY <1>1 DEF Crash, StopExit, ProcessEnds
  <2> QED BY <2>1 DEF CInv, Started, AddrUnique
<1>2. CASE StopSwarms \/ StopPeers
  <2>1. UNCHANGED <<pc, client, sent, skipped>> /\ peers' \subseteq peers /\ phase' \notin {"up", "down"}
    BY <1>2 DEF StopSwarms, StopPeers
  <2> QED BY <2>1 DEF CInv, Started, AddrUnique
<1>3. CASE Restart
  <2>1. /\ UNCHANGED <<tables, pc, work, idOf, inbox, client, sent, skipped, faults>> /\ phase' = "up"
        /\ \A d \in Conns : pc[d] \in {"none", "end"} /\ Started(d)
    BY <1>3 DEF Restart, CInv
  <2>2. \A d \in Conns : Started(d)' /\ Good(d)'
    BY <2>1 DEF Started, Good, OwnRow, Complete, Raced, Excused, Alive, Serving
  <2> QED BY <2>1, <2>2, <1>3 DEF CInv, AddrUnique
<1> QED BY <1>1, <1>2, <1>3

LEMMA CInvNext ==
  ASSUME TypeInv, IInv, CInv, [Next]_vars
  PROVE  CInv'
<1>1. CASE UNCHANGED vars
  <2>1. UNCHANGED <<fileRow, peers, swarms, phase, pc, work, inbox, idOf, sent, client, skipped, faults>>
    BY <1>1 DEF vars, tables, daemonVars, procVars
  <2> QED BY <2>1 DEF CInv, AddrUnique, Started, Good, OwnRow, Row, Complete, Waiting, Raced, Excused, Elsewhere
<1> QED BY <1>1, CInvDaemon, CInvGoroutine, CInvProcess DEF Next

(***************************************************************************)
(* A goroutine back at its select has put its daemon into the swarm of     *)
(* every file it was told of, or logged an error, and where no statement   *)
(* failed that error was the race for the file's row, lost to a daemon at  *)
(* another address: for any number of daemons that share any files, an     *)
(* address that is used again, goodbyes, timeouts of daemons that are      *)
(* alive, failed statements, and after crashes and restarts that left rows *)
(* of earlier connections behind.                                          *)
(***************************************************************************)
THEOREM SwarmCompleteHolds == Spec => []SwarmComplete
  BY CInvNext, CInvCompletes, CInvInit, IInvInit, IInvNext, TypeInit, TypeNext, PTL DEF Spec

-----------------------------------------------------------------------------
(***************************************************************************)
(* ListedRoutable: while the tracker runs, a swarms row with its peers row *)
(* belongs to a goroutine between RegisterRouter and DeletePeer.           *)
(***************************************************************************)
RInv ==
    /\ phase = "up"
    /\ \A c \in Conns : pc[c] \in Serving => <<idOf[c], c>> \in routers
    /\ \A c \in Conns : Listed(c) => pc[c] \in Serving \cup {"expire"}

LEMMA RInvInit == Init => RInv
  BY DEF Init, RInv, Listed, Serving

LEMMA RInvRoutable == RInv => ListedRoutable
  BY DEF RInv, ListedRoutable

\* A step of one connection after which no other is newly listed, and no
\* other's router is gone.
LEMMA RInvLocal ==
  ASSUME RInv, NEW c \in Conns, phase' = phase,
         \A d \in Conns : d # c => pc'[d] = pc[d] /\ idOf'[d] = idOf[d] /\ (Listed(d)' => Listed(d)),
         \A d \in Conns : d # c /\ <<idOf[d], d>> \in routers => <<idOf[d], d>> \in routers',
         pc'[c] \in Serving => <<idOf'[c], c>> \in routers',
         Listed(c)' => pc'[c] \in Serving \cup {"expire"}
  PROVE  RInv'
<1>1. ASSUME NEW d \in Conns, pc'[d] \in Serving PROVE <<idOf'[d], d>> \in routers'
  BY <1>1 DEF RInv
<1>2. ASSUME NEW d \in Conns, Listed(d)' PROVE pc'[d] \in Serving \cup {"expire"}
  BY <1>2 DEF RInv
<1> QED BY <1>1, <1>2 DEF RInv

\* Nobody is newly listed where the tables only shrink.
LEMMA ListedShrinks ==
  ASSUME peers' \subseteq peers, swarms' \subseteq swarms, NEW d, idOf'[d] = idOf[d], Listed(d)'
  PROVE  Listed(d)
  BY DEF Listed

\* A step that touches neither the tables nor the routers.
LEMMA RInvQuiet ==
  ASSUME RInv, NEW c \in Conns, UNCHANGED <<peers, swarms, routers, idOf, phase>>,
         \A d \in Conns : d # c => pc'[d] = pc[d],
         pc'[c] \in Serving => pc[c] \in Serving,
         pc[c] \in Serving \cup {"expire"} => pc'[c] \in Serving \cup {"expire"}
  PROVE  RInv'
<1>1. \A d \in Conns : Listed(d)' => Listed(d)
  BY ListedShrinks
<1> QED BY <1>1, RInvLocal DEF RInv

LEMMA RInvDaemon ==
  ASSUME TypeInv, IInv, RInv, NEW c \in Conns, DaemonStep(c)
  PROVE  RInv'
<1> USE DEF tables, daemonVars, procVars
<1>1. CASE Connect(c)
  <2>1. pc[c] = "none" /\ pc'[c] = "create" /\ \A d \in Conns : d # c => pc'[d] = pc[d]
    BY <1>1 DEF Connect, IInv, IdsUnique, TypeInv, TypeOK
  <2> QED BY <1>1, <2>1, RInvQuiet DEF Connect, Serving
<1>2. ASSUME UNCHANGED <<peers, swarms, routers, idOf, phase, pc>> PROVE RInv'
  BY <1>2, RInvQuiet
<1> QED BY <1>1, <1>2 DEF DaemonStep, SendGoodbye, Leave, SendAnnounce, SendPeerListRequest, SendSignal

LEMMA RInvCreatePeer ==
  ASSUME TypeInv, IInv, RInv, NEW c \in Conns, CreatePeer(c)
  PROVE  RInv'
<1> USE DEF CreatePeer, daemonVars, procVars
<1>1. pc[c] = "create" /\ UNCHANGED <<swarms, routers, phase>>
  OBVIOUS
<1>2. CASE RowsAt(AddrOf[c]) # {}
  <2>1. /\ pc'[c] = "end" /\ UNCHANGED <<peers, idOf>> /\ \A d \in Conns : d # c => pc'[d] = pc[d]
    BY <1>2 DEF TypeInv, TypeOK
  <2> QED BY <1>1, <2>1, RInvQuiet DEF Serving
<1>3. CASE RowsAt(AddrOf[c]) = {}
  <2>1. /\ peers' = peers \cup {[id |-> nextId, addr |-> AddrOf[c]]}
        /\ idOf'[c] = nextId /\ pc'[c] = "sendid"
        /\ \A d \in Conns : d # c => pc'[d] = pc[d] /\ idOf'[d] = idOf[d] /\ idOf[d] # nextId
    BY <1>3 DEF IInv, IdsUnique, TypeInv, TypeOK
  <2>2. \A f : <<nextId, f>> \notin swarms
    BY DEF IInv, SwarmsAnnounced, Announced, IdsUnique, TypeInv, TypeOK
  <2>3. ~Listed(c)'
    BY <1>1, <2>1, <2>2 DEF Listed
  <2>4. ASSUME NEW d \in Conns, d # c, Listed(d)' PROVE Listed(d)
    <3>1. PICK p \in peers', f \in Files : p.id = idOf[d] /\ <<p.id, f>> \in swarms
      BY <1>1, <2>1, <2>4 DEF Listed
    <3>2. p \in peers
      BY <2>1, <2>4, <3>1
    <3> QED BY <3>1, <3>2 DEF Listed
  <2> QED BY <1>1, <2>1, <2>3, <2>4, RInvLocal DEF Serving
<1> QED BY <1>2, <1>3

\* With its row a connection leaves the lists.
LEMMA RInvDelete ==
  ASSUME TypeInv, IInv, CInv, RInv, NEW c \in Conns, pc[c] \in Alive, DeletePeer(c),
         UNCHANGED <<routers, idOf, phase>>,
         \A d \in Conns : d # c => pc'[d] = pc[d],
         pc'[c] = "end"
  PROVE  RInv'
<1>1. peers' = peers \ RowsAt(AddrOf[c]) /\ peers' \subseteq peers /\ swarms' \subseteq swarms
  BY DEF DeletePeer
<1>2. \A d \in Conns : Listed(d)' => Listed(d)
  BY <1>1, ListedShrinks
<1>3. ~Listed(c)'
  <2> SUFFICES ASSUME NEW p \in peers', p.id = idOf[c] PROVE FALSE
    BY DEF Listed
  <2>1. p.id # 0 /\ \E d \in Conns : idOf[d] = p.id /\ AddrOf[d] = p.addr
    BY <1>1 DEF IInv, RowsOwned
  <2>2. p.addr = AddrOf[c]
    BY <2>1 DEF IInv, IdsUnique
  <2> QED BY <1>1, <2>2 DEF RowsAt
<1> QED BY <1>2, <1>3, RInvLocal DEF Serving

LEMMA RInvGoroutine ==
  ASSUME MaxFaults = 0, TypeInv, IInv, CInv, RInv, NEW c \in Conns,
         \/ StartStep(c) \/ AnnounceStep(c) \/ ServeStep(c)
         \/ Timeout(c) \/ Expire(c) \/ StatementFails(c)
         \/ \E m \in inbox[c] : HandlerFails(c, m)
  PROVE  RInv'
<1> USE DEF tables, daemonVars, procVars
<1>1. CASE SendId(c)
  <2>1. pc[c] = "sendid" /\ pc'[c] \in {"register", "end"} /\ \A d \in Conns : d # c => pc'[d] = pc[d]
    BY <1>1 DEF SendId, TypeInv, TypeOK
  <2> QED BY <1>1, <2>1, RInvQuiet DEF SendId, Serving
<1>2. CASE RegisterRouter(c)
  <2>1. /\ pc[c] = "register" /\ pc'[c] = "serve" /\ \A d \in Conns : d # c => pc'[d] = pc[d]
        /\ routers' = routers \cup {<<idOf[c], c>>} /\ UNCHANGED <<peers, swarms, idOf, phase>>
    BY <1>2 DEF RegisterRouter, TypeInv, TypeOK
  <2>2. \A d \in Conns : Listed(d)' => Listed(d)
    BY <2>1, ListedShrinks
  <2> QED BY <2>1, <2>2, RInvLocal DEF Serving
<1>3. CASE Timeout(c)
  <2>1. /\ pc[c] = "serve" /\ pc'[c] = "expire" /\ \A d \in Conns : d # c => pc'[d] = pc[d]
        /\ routers' = {r \in routers : r[1] # idOf[c]} /\ UNCHANGED <<peers, swarms, idOf, phase>>
    BY <1>3 DEF Timeout, TypeInv, TypeOK
  <2>2. \A d \in Conns : Listed(d)' => Listed(d)
    BY <2>1, ListedShrinks
  <2>3. idOf[c] # 0
    BY <2>1 DEF CInv, Good, OwnRow, Alive, Serving, Row, IInv, RowsOwned, RInv
  <2>4. ASSUME NEW d \in Conns, d # c, <<idOf[d], d>> \in routers PROVE <<idOf[d], d>> \in routers'
    <3>1. idOf[d] # idOf[c]
      BY <2>3, <2>4 DEF IInv, IdsUnique
    <3> QED BY <2>1, <2>4, <3>1
  <2> QED BY <2>1, <2>2, <2>4, RInvLocal DEF Serving
<1>4. CASE Expire(c)
  <2>1. /\ pc[c] = "expire" /\ pc'[c] = "end" /\ \A d \in Conns : d # c => pc'[d] = pc[d]
    BY <1>4 DEF Expire, TypeInv, TypeOK
  <2> QED BY <1>4, <2>1, RInvDelete DEF Expire, Alive
<1>5. CASE HandleGoodbye(c)
  <2>1. pc[c] = "serve" /\ pc'[c] = "end" /\ \A d \in Conns : d # c => pc'[d] = pc[d]
    BY <1>5 DEF HandleGoodbye, TypeInv, TypeOK
  <2> QED BY <1>5, <2>1, RInvDelete DEF HandleGoodbye, Alive, Serving
<1>6. ASSUME pc[c] \in Serving, pc'[c] \in Serving, \A d \in Conns : d # c => pc'[d] = pc[d],
             UNCHANGED <<peers, swarms, routers, idOf, phase>>
      PROVE  RInv'
  BY <1>6, RInvQuiet
<1>7. ASSUME NEW id \in Ids, HandleSignaling(c, id) PROVE RInv'
  BY <1>6, <1>7 DEF HandleSignaling, Take, Serving
<1>8. ASSUME NEW f \in Files, HandlePeerListRequest(c, f) PROVE RInv'
  BY <1>6, <1>8 DEF HandlePeerListRequest, Take, Serving
<1>9. ASSUME NEW fs \in SUBSET Files, HandleAnnounce(c, fs) PROVE RInv'
  BY <1>6, <1>9 DEF HandleAnnounce, Take, Serving, TypeInv, TypeOK
<1>10. ASSUME NEW f \in Files, LookupFile(c, f) PROVE RInv'
  BY <1>6, <1>10 DEF LookupFile, Serving, TypeInv, TypeOK
<1>11. CASE InsertFile(c)
  <2>1. /\ pc[c] = "insert" /\ pc'[c] \in Serving /\ \A d \in Conns : d # c => pc'[d] = pc[d]
        /\ UNCHANGED <<peers, swarms, routers, idOf, phase>>
    BY <1>11 DEF InsertFile, SkipFile, NextFile, Serving, TypeInv, TypeOK
  <2> QED BY <1>6, <2>1 DEF Serving
<1>12. CASE AddPeerToSwarm(c)
  <2>1. /\ pc[c] = "join" /\ pc'[c] \in Serving /\ \A d \in Conns : d # c => pc'[d] = pc[d]
        /\ swarms' = swarms \cup {<<p.id, work[c].file>> : p \in RowsAt(AddrOf[c])}
        /\ UNCHANGED <<peers, routers, idOf, phase>>
    BY <1>12 DEF AddPeerToSwarm, NextFile, Serving, TypeInv, TypeOK
  <2>2. Row(c) \in peers /\ <<idOf[c], c>> \in routers
    BY <2>1 DEF CInv, Good, OwnRow, Alive, Serving, RInv
  <2>3. \A p \in RowsAt(AddrOf[c]) : p.id = idOf[c] /\ p.id # 0
    BY <2>2 DEF CInv, AddrUnique, RowsAt, Row, IInv, RowsOwned
  <2>4. ASSUME NEW d \in Conns, d # c, Listed(d)' PROVE Listed(d)
    <3>1. PICK p \in peers, f \in Files : p.id = idOf[d] /\ <<p.id, f>> \in swarms'
      BY <2>1, <2>4 DEF Listed
    <3>2. p.id # idOf[c]
      <4>1. p.id # 0
        BY DEF IInv, RowsOwned
      <4> QED BY <2>4, <3>1, <4>1 DEF IInv, IdsUnique
    <3>3. <<p.id, f>> \in swarms
      BY <2>1, <2>3, <3>1, <3>2
    <3> QED BY <3>1, <3>3 DEF Listed
  <2> QED BY <2>1, <2>2, <2>4, RInvLocal
<1>13. ~(faults < MaxFaults)
  BY DEF TypeInv, TypeOK
<1> QED BY <1>1, <1>2, <1>3, <1>4, <1>5, <1>7, <1>8, <1>9, <1>10, <1>11, <1>12, <1>13, RInvCreatePeer
        DEF StartStep, ServeStep, AnnounceStep, StatementFails, HandlerFails

LEMMA RInvNext ==
  ASSUME MaxFaults = 0, MaxDowns = 0, TypeInv, IInv, CInv, RInv, [Next]_vars
  PROVE  RInv'
<1>1. CASE UNCHANGED vars
  <2>1. UNCHANGED <<peers, swarms, routers, idOf, phase, pc>>
    BY <1>1 DEF vars, tables, procVars
  <2> QED BY <2>1 DEF RInv, Listed
<1>2. ~(downs < MaxDowns) /\ phase = "up"
  BY DEF TypeInv, TypeOK, RInv
<1> QED BY <1>1, <1>2, RInvDaemon, RInvGoroutine DEF Next, Crash, StopSwarms, StopPeers, StopExit, Restart

(***************************************************************************)
(* Where no statement fails and the tracker runs on, whoever is in a peer  *)
(* list can be reached through DaemonRouters, but for the moment between   *)
(* delete(DaemonRouters) and DeletePeer of its own timeout: for any number *)
(* of daemons, addresses that are used again, goodbyes that leave their    *)
(* router in the map, and with or without the cascade of the DELETE.       *)
(***************************************************************************)
THEOREM ListedRoutableHolds == MaxFaults = 0 /\ MaxDowns = 0 /\ Spec => []ListedRoutable
<1> SUFFICES ASSUME MaxFaults = 0, MaxDowns = 0 PROVE Spec => []ListedRoutable
  OBVIOUS
<1>1. TypeInv /\ IInv /\ CInv /\ [Next]_vars => CInv'
  BY CInvNext
<1>2. TypeInv /\ IInv /\ CInv /\ RInv /\ [Next]_vars => RInv'
  BY RInvNext
<1> QED BY <1>1, <1>2, CInvInit, RInvInit, RInvRoutable, IInvInit, IInvNext, TypeInit, TypeNext, PTL DEF Spec
=============================================================================
