------------------------------- MODULE Tracker -------------------------------
(***************************************************************************)
(* The tracker server: its SQLite tables (files, peers, swarms), the       *)
(* DaemonRouters map, and one handleDaemonMsgs goroutine per connection.   *)
(*                                                                         *)
(* A connection is one TCP connection of one daemon.  Its remote address   *)
(* (ip and port) is what the tables know it by; two connections may use    *)
(* the same address one after the other.  The id of a daemon is the rowid  *)
(* of its peers row.                                                       *)
(*                                                                         *)
(* Every step is one SQL statement, one map access or one message.  The    *)
(* messages a connection has sent lie in the channels of Tracker.Channels, *)
(* one per message type, and select takes from any of them: inbox is a     *)
(* set, so the types overtake each other.                                  *)
(*                                                                         *)
(* Time is left out: the 10 s ticker may fire before a heartbeat that is   *)
(* on its way, so a timeout is possible whenever the goroutine waits, and  *)
(* the heartbeat, which only resets the ticker, changes nothing here.      *)
(***************************************************************************)
EXTENDS Naturals, FiniteSets

CONSTANTS
    Conns,      \* connections, over all runs of the tracker
    Addrs,      \* remote addresses
    AddrOf,     \* the address of each connection
    Files,      \* file hashes
    Shares,     \* the files each daemon has to announce
    Asks,       \* the files each daemon downloads
    Polite,     \* connections whose daemon says goodbye
    None,       \* no file
    MaxFaults,  \* bound on failed SQL statements
    MaxDowns    \* bound on crashes and stops of the tracker

ASSUME TrackerAssumption ==
    /\ AddrOf \in [Conns -> Addrs]
    /\ Shares \in [Conns -> SUBSET Files]
    /\ Asks \in [Conns -> SUBSET Files]
    /\ Polite \subseteq Conns
    /\ None \notin Files
    /\ MaxFaults \in Nat
    /\ MaxDowns \in Nat

VARIABLES
    fileRow,    \* files table: hashes
    peers,      \* peers table: [id, addr]
    swarms,     \* swarms table: <<peer id, file>>
    nextId,     \* AUTOINCREMENT counter of peers
    routers,    \* DaemonRouters: <<id, connection>>
    pc,         \* where the goroutine of each connection is
    work,       \* handleAnnounce: the file at hand and the files after it
    idOf,       \* daemonID of each connection, 0 before CreatePeer
    inbox,      \* messages of each connection not yet handled
    client,     \* the daemon's end: "new", "up", "gone"
    sent,       \* files each daemon has announced on its connection
    list,       \* the last PeerListResponse written to each connection
    targets,    \* peer ids each daemon has addressed a signaling message to
    heard,      \* source ids of the signaling messages written to each
    phase,      \* the tracker process: "up", "noswarms", "nopeers", "down"
    skipped,    \* history: files handleAnnounce logged an error for
    faults,     \* failed SQL statements so far
    downs       \* crashes and stops so far

tables == <<fileRow, peers, swarms, nextId>>
daemonVars == <<client, sent, targets>>
procVars == <<phase, skipped, faults, downs>>
vars == <<tables, routers, pc, work, idOf, inbox, daemonVars, list, heard, procVars>>

States == {"none", "create", "sendid", "register", "serve", "lookup", "insert",
           "join", "expire", "end"}
NoWork == [file |-> None, todo |-> {}]
NoList == [file |-> None, ids |-> {}]

Ids == 1..(nextId - 1)

AnnounceMsg(fs) == [type |-> "announce", files |-> fs, target |-> 0]
RequestMsg(f) == [type |-> "request", files |-> {f}, target |-> 0]
SignalMsg(id) == [type |-> "signal", files |-> {}, target |-> id]
GoodbyeMsg == [type |-> "goodbye", files |-> {}, target |-> 0]

Init ==
    /\ fileRow = {}
    /\ peers = {}
    /\ swarms = {}
    /\ nextId = 1
    /\ routers = {}
    /\ pc = [c \in Conns |-> "none"]
    /\ work = [c \in Conns |-> NoWork]
    /\ idOf = [c \in Conns |-> 0]
    /\ inbox = [c \in Conns |-> {}]
    /\ client = [c \in Conns |-> "new"]
    /\ sent = [c \in Conns |-> {}]
    /\ list = [c \in Conns |-> NoList]
    /\ targets = [c \in Conns |-> {}]
    /\ heard = [c \in Conns |-> {}]
    /\ phase = "up"
    /\ skipped = [c \in Conns |-> {}]
    /\ faults = 0
    /\ downs = 0

-----------------------------------------------------------------------------
(***************************************************************************)
(* The daemons, as far as the tracker sees them                            *)
(***************************************************************************)

\* The tracker accepts a connection and starts its goroutine.
Connect(c) ==
    /\ client[c] = "new"
    /\ phase # "down"
    /\ \A d \in Conns : client[d] = "up" => AddrOf[d] # AddrOf[c]
    /\ client' = [client EXCEPT ![c] = "up"]
    /\ pc' = [pc EXCEPT ![c] = "create"]
    /\ UNCHANGED <<tables, routers, work, idOf, inbox, sent, targets, list, heard, procVars>>

\* prouter puts a message into the channel of its type.  The channels of a
\* goroutine that ends are never read again: they are emptied and stay empty.
Send(c, m) ==
    /\ client[c] = "up"
    /\ pc[c] \notin {"expire", "end"}
    /\ inbox' = [inbox EXCEPT ![c] = @ \cup {m}]

Unread(c) == inbox' = [inbox EXCEPT ![c] = {}]

\* init announces the files of the database, a registration one new file: a
\* connection never announces a file twice.
SendAnnounce(c, fs) ==
    /\ fs # {}
    /\ fs \subseteq Shares[c] \ sent[c]
    /\ Send(c, AnnounceMsg(fs))
    /\ sent' = [sent EXCEPT ![c] = @ \cup fs]
    /\ UNCHANGED <<tables, routers, pc, work, idOf, client, targets, list, heard, procVars>>

\* Each download signal of a CLI asks again.
SendPeerListRequest(c, f) ==
    /\ f \in Asks[c]
    /\ Send(c, RequestMsg(f))
    /\ UNCHANGED <<tables, routers, pc, work, idOf, daemonVars, list, heard, procVars>>

\* Offers go to the peers of a list, answers to the source of an offer.
SendSignal(c, id) ==
    /\ id \in list[c].ids \cup heard[c]
    /\ id \notin targets[c]
    /\ Send(c, SignalMsg(id))
    /\ targets' = [targets EXCEPT ![c] = @ \cup {id}]
    /\ UNCHANGED <<tables, routers, pc, work, idOf, client, sent, list, heard, procVars>>

\* The protocol has a goodbye; the daemon of this repository sends none.
SendGoodbye(c) ==
    /\ c \in Polite
    /\ Send(c, GoodbyeMsg)
    /\ UNCHANGED <<tables, routers, pc, work, idOf, daemonVars, list, heard, procVars>>

\* The daemon dies or its network does.  Its messages stay in the channels.
Leave(c) ==
    /\ client[c] = "up"
    /\ client' = [client EXCEPT ![c] = "gone"]
    /\ UNCHANGED <<tables, routers, pc, work, idOf, inbox, sent, targets, list, heard, procVars>>

-----------------------------------------------------------------------------
(***************************************************************************)
(* handleDaemonMsgs                                                        *)
(***************************************************************************)

RowsAt(a) == {p \in peers : p.addr = a}

\* Mutant: without AUTOINCREMENT, the rowid is the largest one in use plus 1.
CreatePeerReusesId(c) ==
    LET id == CHOOSE i \in 1..nextId : /\ \A p \in peers : p.id < i
                                       /\ i = 1 \/ \E p \in peers : p.id = i - 1
    IN
    /\ pc[c] = "create"
    /\ IF RowsAt(AddrOf[c]) = {}
       THEN /\ peers' = peers \cup {[id |-> id, addr |-> AddrOf[c]]}
            /\ nextId' = IF id = nextId THEN nextId + 1 ELSE nextId
            /\ idOf' = [idOf EXCEPT ![c] = id]
            /\ pc' = [pc EXCEPT ![c] = "sendid"]
            /\ UNCHANGED inbox
       ELSE /\ pc' = [pc EXCEPT ![c] = "end"]
            /\ Unread(c)
            /\ UNCHANGED <<peers, nextId, idOf>>
    /\ UNCHANGED <<fileRow, swarms, routers, work, daemonVars, list, heard, procVars>>

\* INSERT INTO peers; UNIQUE(ip_address, port) refuses an address that still
\* has a row, and the goroutine returns.
CreatePeer(c) ==
    /\ pc[c] = "create"
    /\ IF RowsAt(AddrOf[c]) = {}
       THEN /\ peers' = peers \cup {[id |-> nextId, addr |-> AddrOf[c]]}
            /\ nextId' = nextId + 1
            /\ idOf' = [idOf EXCEPT ![c] = nextId]
            /\ pc' = [pc EXCEPT ![c] = "sendid"]
            /\ UNCHANGED inbox
       ELSE /\ pc' = [pc EXCEPT ![c] = "end"]
            /\ Unread(c)
            /\ UNCHANGED <<peers, nextId, idOf>>
    /\ UNCHANGED <<fileRow, swarms, routers, work, daemonVars, list, heard, procVars>>

\* Write the ID message.  When the write fails the goroutine returns and the
\* peers row stays.
SendId(c) ==
    /\ pc[c] = "sendid"
    /\ \/ pc' = [pc EXCEPT ![c] = "register"] /\ UNCHANGED inbox
       \/ client[c] = "gone" /\ pc' = [pc EXCEPT ![c] = "end"] /\ Unread(c)
    /\ UNCHANGED <<tables, routers, work, idOf, daemonVars, list, heard, procVars>>

\* DaemonRouters[daemonID] = router.
RegisterRouter(c) ==
    /\ pc[c] = "register"
    /\ routers' = routers \cup {<<idOf[c], c>>}
    /\ pc' = [pc EXCEPT ![c] = "serve"]
    /\ UNCHANGED <<tables, work, idOf, inbox, daemonVars, list, heard, procVars>>

\* Mutant: return without DeletePeer.
TimeoutKeepsRow(c) ==
    /\ pc[c] = "serve"
    /\ routers' = {r \in routers : r[1] # idOf[c]}
    /\ pc' = [pc EXCEPT ![c] = "end"]
    /\ Unread(c)
    /\ UNCHANGED <<tables, work, idOf, daemonVars, list, heard, procVars>>

\* The ticker fires: the router goes first.
Timeout(c) ==
    /\ pc[c] = "serve"
    /\ routers' = {r \in routers : r[1] # idOf[c]}
    /\ pc' = [pc EXCEPT ![c] = "expire"]
    /\ Unread(c)
    /\ UNCHANGED <<tables, work, idOf, daemonVars, list, heard, procVars>>

\* DELETE FROM peers WHERE ip and port.  The swarms rows go with it only if
\* the statement runs on the pooled connection that enabled foreign keys.
DeletePeer(c) ==
    /\ peers' = peers \ RowsAt(AddrOf[c])
    /\ \/ swarms' = {s \in swarms : \E p \in peers' : p.id = s[1]}
       \/ swarms' = swarms

\* The peers row goes last and the goroutine ends.
Expire(c) ==
    /\ pc[c] = "expire"
    /\ DeletePeer(c)
    /\ pc' = [pc EXCEPT ![c] = "end"]
    /\ UNCHANGED <<fileRow, nextId, routers, work, idOf, inbox, daemonVars, list, heard, procVars>>

Take(c, m) ==
    /\ pc[c] = "serve"
    /\ m \in inbox[c]
    /\ inbox' = [inbox EXCEPT ![c] = @ \ {m}]

\* Mutant: the goroutine ends without a DELETE.
HandleGoodbyeKeepsRow(c) ==
    /\ pc[c] = "serve"
    /\ GoodbyeMsg \in inbox[c]
    /\ Unread(c)
    /\ pc' = [pc EXCEPT ![c] = "end"]
    /\ UNCHANGED <<tables, routers, work, idOf, daemonVars, list, heard, procVars>>

\* Goodbye deletes the row and leaves the router in the map.
HandleGoodbye(c) ==
    /\ pc[c] = "serve"
    /\ GoodbyeMsg \in inbox[c]
    /\ Unread(c)
    /\ DeletePeer(c)
    /\ pc' = [pc EXCEPT ![c] = "end"]
    /\ UNCHANGED <<fileRow, nextId, routers, work, idOf, daemonVars, list, heard, procVars>>

\* Mutant: write to every router but the sender's.
HandleSignalingBroadcasts(c, id) ==
    /\ Take(c, SignalMsg(id))
    /\ heard' = [d \in Conns |-> IF d # c /\ \E r \in routers : r[2] = d
                                 THEN heard[d] \cup {idOf[c]} ELSE heard[d]]
    /\ UNCHANGED <<tables, routers, pc, work, idOf, daemonVars, list, procVars>>

\* Stamp the source and write to the target's router, if it has one.
HandleSignaling(c, id) ==
    /\ Take(c, SignalMsg(id))
    /\ heard' = [d \in Conns |-> IF <<id, d>> \in routers
                                 THEN heard[d] \cup {idOf[c]} ELSE heard[d]]
    /\ UNCHANGED <<tables, routers, pc, work, idOf, daemonVars, list, procVars>>

\* peers JOIN swarms JOIN files.
GetPeersByFileHash(f) == {p \in peers : f \in fileRow /\ <<p.id, f>> \in swarms}

\* Mutant: addresses where the ids belong.
HandlePeerListRequestAddrs(c, f) ==
    /\ Take(c, RequestMsg(f))
    /\ list' = [list EXCEPT ![c] =
                  [file |-> f,
                   ids |-> {p.addr : p \in {q \in GetPeersByFileHash(f) : q.addr # AddrOf[c]}}]]
    /\ UNCHANGED <<tables, routers, pc, work, idOf, daemonVars, heard, procVars>>

\* All peers of the file but the one that asks.
HandlePeerListRequest(c, f) ==
    /\ Take(c, RequestMsg(f))
    /\ list' = [list EXCEPT ![c] =
                  [file |-> f,
                   ids |-> {p.id : p \in {q \in GetPeersByFileHash(f) : q.addr # AddrOf[c]}}]]
    /\ UNCHANGED <<tables, routers, pc, work, idOf, daemonVars, heard, procVars>>

\* handleAnnounce loops over the files of the message.
HandleAnnounce(c, fs) ==
    /\ Take(c, AnnounceMsg(fs))
    /\ pc' = [pc EXCEPT ![c] = "lookup"]
    /\ work' = [work EXCEPT ![c] = [file |-> None, todo |-> fs]]
    /\ UNCHANGED <<tables, routers, idOf, daemonVars, list, heard, procVars>>

\* FileStore.CreateFile, first half: SELECT by hash.
LookupFile(c, f) ==
    /\ pc[c] = "lookup"
    /\ f \in work[c].todo
    /\ work' = [work EXCEPT ![c] = [file |-> f, todo |-> @.todo \ {f}]]
    /\ pc' = [pc EXCEPT ![c] = IF f \in fileRow THEN "join" ELSE "insert"]
    /\ UNCHANGED <<tables, routers, idOf, inbox, daemonVars, list, heard, procVars>>

\* Mutant: return from the loop after one file.
NextFileReturns(c) == pc' = [pc EXCEPT ![c] = "serve"]

\* The loop goes on, or is over.
NextFile(c) == pc' = [pc EXCEPT ![c] = IF work[c].todo = {} THEN "serve" ELSE "lookup"]

\* The error is logged and the loop continues with the next file.
SkipFile(c) ==
    /\ NextFile(c)
    /\ skipped' = [skipped EXCEPT ![c] = @ \cup {work[c].file}]

\* Second half: INSERT.  Where another goroutine was faster, UNIQUE(hash) fails.
InsertFile(c) ==
    LET f == work[c].file IN
    /\ pc[c] = "insert"
    /\ IF f \in fileRow
       THEN SkipFile(c) /\ UNCHANGED fileRow
       ELSE /\ fileRow' = fileRow \cup {f}
            /\ pc' = [pc EXCEPT ![c] = "join"]
            /\ UNCHANGED skipped
    /\ UNCHANGED <<peers, swarms, nextId, routers, work, idOf, inbox, daemonVars, list,
                   heard, phase, faults, downs>>

\* AddPeerToSwarm: INSERT ... SELECT by address and hash.
AddPeerToSwarm(c) ==
    /\ pc[c] = "join"
    /\ swarms' = swarms \cup {<<p.id, work[c].file>> : p \in RowsAt(AddrOf[c])}
    /\ NextFile(c)
    /\ UNCHANGED <<fileRow, peers, nextId, routers, work, idOf, inbox, daemonVars, list,
                   heard, procVars>>

-----------------------------------------------------------------------------
(***************************************************************************)
(* Faults and the end of the process                                       *)
(***************************************************************************)

\* A statement fails (the database is locked): log, and do without it.
StatementFails(c) ==
    /\ faults < MaxFaults
    /\ faults' = faults + 1
    /\ \/ /\ pc[c] \in {"create", "expire"}
          /\ pc' = [pc EXCEPT ![c] = "end"]
          /\ Unread(c)
          /\ UNCHANGED skipped
       \/ pc[c] \in {"insert", "join"} /\ SkipFile(c) /\ UNCHANGED inbox
    /\ UNCHANGED <<tables, routers, work, idOf, daemonVars, list, heard, phase, downs>>

\* The SELECT of a peer list request fails, and there is no answer, or the
\* DELETE of a goodbye does, and the row stays.
HandlerFails(c, m) ==
    /\ faults < MaxFaults
    /\ faults' = faults + 1
    /\ \/ m.type = "request" /\ Take(c, m) /\ UNCHANGED pc
       \/ /\ m = GoodbyeMsg /\ m \in inbox[c] /\ pc[c] = "serve"
          /\ pc' = [pc EXCEPT ![c] = "end"]
          /\ Unread(c)
    /\ UNCHANGED <<tables, routers, work, idOf, daemonVars, list, heard, phase, skipped, downs>>

\* Every goroutine and every connection ends with the process, and what lies in
\* its channels is lost.
ProcessEnds ==
    /\ phase' = "down"
    /\ routers' = {}
    /\ inbox' = [c \in Conns |-> {}]
    /\ work' = [c \in Conns |-> NoWork]
    /\ pc' = [c \in Conns |-> IF pc[c] = "none" THEN "none" ELSE "end"]
    /\ client' = [c \in Conns |-> IF client[c] = "up" THEN "gone" ELSE client[c]]

\* Killed: the tables stay as they are.
Crash ==
    /\ phase # "down"
    /\ downs < MaxDowns
    /\ downs' = downs + 1
    /\ ProcessEnds
    /\ UNCHANGED <<tables, idOf, sent, targets, list, heard, skipped, faults>>

\* SIGTERM: DeleteAllSwarms, DeleteAllPeers, exit; the goroutines run on.
StopSwarms ==
    /\ phase = "up"
    /\ downs < MaxDowns
    /\ downs' = downs + 1
    /\ swarms' = {}
    /\ phase' = "noswarms"
    /\ UNCHANGED <<fileRow, peers, nextId, routers, pc, work, idOf, inbox, daemonVars,
                   list, heard, skipped, faults>>

StopPeers ==
    /\ phase = "noswarms"
    /\ peers' = {}
    /\ swarms' \in {{}, swarms}
    /\ phase' = "nopeers"
    /\ UNCHANGED <<fileRow, nextId, routers, pc, work, idOf, inbox, daemonVars, list,
                   heard, skipped, faults, downs>>

StopExit ==
    /\ phase = "nopeers"
    /\ ProcessEnds
    /\ UNCHANGED <<tables, idOf, sent, targets, list, heard, skipped, faults, downs>>

Restart ==
    /\ phase = "down"
    /\ phase' = "up"
    /\ UNCHANGED <<tables, routers, pc, work, idOf, inbox, daemonVars, list, heard, skipped,
                   faults, downs>>

-----------------------------------------------------------------------------
DaemonStep(c) ==
    \/ Connect(c) \/ SendGoodbye(c) \/ Leave(c)
    \/ \E fs \in SUBSET Shares[c] : SendAnnounce(c, fs)
    \/ \E f \in Files : SendPeerListRequest(c, f)
    \/ \E id \in Ids : SendSignal(c, id)

StartStep(c) == CreatePeer(c) \/ SendId(c) \/ RegisterRouter(c)

AnnounceStep(c) ==
    \/ \E f \in Files : LookupFile(c, f)
    \/ InsertFile(c)
    \/ AddPeerToSwarm(c)

ServeStep(c) ==
    \/ HandleGoodbye(c)
    \/ \E id \in Ids : HandleSignaling(c, id)
    \/ \E f \in Files : HandlePeerListRequest(c, f)
    \/ \E fs \in SUBSET Files : HandleAnnounce(c, fs)

Next ==
    \/ \E c \in Conns : \/ DaemonStep(c) \/ StartStep(c) \/ AnnounceStep(c) \/ ServeStep(c)
                        \/ Timeout(c) \/ Expire(c) \/ StatementFails(c)
                        \/ \E m \in inbox[c] : HandlerFails(c, m)
    \/ Crash \/ StopSwarms \/ StopPeers \/ StopExit \/ Restart

Spec == Init /\ [][Next]_vars

(***************************************************************************)
(* Goroutines run, and the ticker of a connection whose daemon is gone and *)
(* whose channels are drained fires: nothing resets it any more.           *)
(***************************************************************************)
Fairness ==
    /\ \A c \in Conns : /\ WF_vars(StartStep(c))
                        /\ WF_vars(AnnounceStep(c))
                        /\ WF_vars(ServeStep(c))
                        /\ WF_vars(client[c] = "gone" /\ Timeout(c))
                        /\ WF_vars(Expire(c))
    /\ WF_vars(StopPeers) /\ WF_vars(StopExit)

FairSpec == Spec /\ Fairness

-----------------------------------------------------------------------------
(***************************************************************************)
(* Properties                                                              *)
(***************************************************************************)

Messages == [type : {"announce", "request", "signal", "goodbye"},
             files : SUBSET Files, target : Nat]

\* Every variable has its type.
TypeOK ==
    /\ fileRow \subseteq Files
    /\ peers \subseteq [id : Nat, addr : Addrs]
    /\ swarms \subseteq Nat \X Files
    /\ nextId \in Nat \ {0}
    /\ routers \subseteq Nat \X Conns
    /\ pc \in [Conns -> States]
    /\ work \in [Conns -> [file : Files \cup {None}, todo : SUBSET Files]]
    /\ idOf \in [Conns -> Nat]
    /\ inbox \in [Conns -> SUBSET Messages]
    /\ client \in [Conns -> {"new", "up", "gone"}]
    /\ sent \in [Conns -> SUBSET Files]
    /\ list \in [Conns -> [file : Files \cup {None}, ids : SUBSET Nat]]
    /\ targets \in [Conns -> SUBSET Nat]
    /\ heard \in [Conns -> SUBSET Nat]
    /\ phase \in {"up", "noswarms", "nopeers", "down"}
    /\ skipped \in [Conns -> SUBSET Files]
    /\ faults \in 0..MaxFaults
    /\ downs \in 0..MaxDowns

(***************************************************************************)
(* Every id in a peer list belongs to one other connection, and the file   *)
(* was announced from the address of that connection.  The tables outlive  *)
(* timeouts, goodbyes, crashes and restarts, and swarms rows may outlive   *)
(* their peers row, so this rests on ids that are never used twice.        *)
(***************************************************************************)
PeerListsSound ==
    \A c \in Conns : \A id \in list[c].ids :
        \E d \in Conns :
            /\ d # c
            /\ \A e \in Conns : idOf[e] = id <=> e = d
            /\ \E e \in Conns : AddrOf[e] = AddrOf[d] /\ list[c].file \in sent[e]

(***************************************************************************)
(* Signaling reaches only daemons that addressed somebody themselves or    *)
(* from whose address a file was announced, and every source named to a    *)
(* daemon is the connection that addressed it: an offer made for one peer  *)
(* never reaches another.                                                  *)
(***************************************************************************)
SignalsSolicited ==
    \A d \in Conns : \A s \in heard[d] :
        /\ \/ targets[d] # {}
           \/ \E e \in Conns : AddrOf[e] = AddrOf[d] /\ sent[e] # {}
        /\ \A c \in Conns : idOf[c] = s => idOf[d] \in targets[c]

\* The connections listed for some file.
Listed(c) == \E p \in peers, f \in Files : p.id = idOf[c] /\ <<p.id, f>> \in swarms

(***************************************************************************)
(* A peer in the lists can be reached through DaemonRouters, except in the *)
(* window of its own timeout, between delete(DaemonRouters) and DeletePeer. *)
(***************************************************************************)
ListedRoutable ==
    \A c \in Conns : Listed(c) /\ phase # "down" =>
        <<idOf[c], c>> \in routers \/ pc[c] = "expire"

\* No announcement of f waits in the channel of a connection.
Settled(c, f) == ~\E m \in inbox[c] : m.type = "announce" /\ f \in m.files

(***************************************************************************)
(* When a goroutine is back at its select, its daemon is in the swarm of   *)
(* every file it was told of, new files and files that other daemons had   *)
(* announced alike, but for those handleAnnounce logged an error for; and  *)
(* without a failed statement the error is the lost race between SELECT    *)
(* and INSERT, against a daemon at another address with the same file.     *)
(***************************************************************************)
SwarmComplete ==
    \A c \in Conns : pc[c] = "serve" /\ phase = "up" =>
        /\ \A f \in sent[c] :
              Settled(c, f) => <<idOf[c], f>> \in swarms \/ f \in skipped[c]
        /\ \A f \in skipped[c] : faults = 0 =>
              \E d \in Conns : AddrOf[d] # AddrOf[c] /\ f \in sent[d]

(***************************************************************************)
(* README.md:22 and tracker.go:221 promise more: a peer that joins with a  *)
(* file others have announced is added to its swarm.                       *)
(***************************************************************************)
EveryoneJoins ==
    \A c \in Conns : pc[c] = "serve" /\ phase = "up" =>
        \A f \in sent[c] : Settled(c, f) => <<idOf[c], f>> \in swarms

\* A daemon that is gone is delisted in the end.
Delisted == \A c \in Conns : client[c] = "gone" ~> ~Listed(c)

=============================================================================
