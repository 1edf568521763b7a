------------------------------- MODULE Library -------------------------------
(***************************************************************************)
(* The file library of one node (daemon): its SQLite rows, its download    *)
(* directory, the part of peerChunkMap that describes the node itself, and *)
(* the goroutines that change them:                                        *)
(*                                                                         *)
(*   - Jobs: the handleCLIMsgs goroutines (internal/node/ipc.go), one per  *)
(*     CLI connection.  Each serves one signal at a time and runs either   *)
(*     handleDownloadSignal or handleRegisterSignal.                       *)
(*   - Handlers: the OnMessage callbacks of the data channels, one per     *)
(*     remote peer.  Each runs handleChunkResponse for one message.        *)
(*   - one downloadManager goroutine per active download.                  *)
(*                                                                         *)
(* Every step is one access to shared state: one SQL statement, one file   *)
(* operation or one critical section.  A crash (or an error return) may    *)
(* fall between any two of them; the rows and the files survive it, the    *)
(* maps and the goroutines do not.                                         *)
(*                                                                         *)
(* Bytes are abstracted: slot i of a file on disk holds the name of the    *)
(* file whose chunk i is stored there, Zero (a hole) or Eof (past the      *)
(* end).  A chunk is always read and written at its own index, so the      *)
(* index need not be stored.                                               *)
(***************************************************************************)
EXTENDS Naturals, FiniteSets

CONSTANTS
    Files,      \* file hashes
    Names,      \* base names under downloads/daemon-<index>/
    NameOf,     \* the name recorded for each file
    Total,      \* TotalChunks of each file, as its .p2p file lists them
    MaxChunks,  \* bound on Total
    Jobs,       \* CLI connections being served
    Handlers,   \* remote peers with a data channel
    MaxFaults,  \* bound on crashes and failed operations in a behaviour
    Zero, Eof,  \* contents of a hole and of a slot past the end of a file
    None        \* no file

ASSUME LibraryAssumption ==
    /\ NameOf \in [Files -> Names]
    /\ MaxChunks \in Nat
    /\ Total \in [Files -> 0..MaxChunks]
    /\ MaxFaults \in Nat
    /\ Zero \notin Files /\ Eof \notin Files /\ Zero # Eof
    /\ None \notin Files

VARIABLES
    fileRow,    \* files table: hashes that have a row
    rows,       \* chunks table: number of rows of each file, indexes 0..rows-1
    avail,      \* chunks table: indexes whose is_available is 1
    onDisk,     \* names that exist in the download directory
    disk,       \* their contents, slot by slot
    hasMap,     \* hashes with an entry in peerChunkMap[n.id]
    ownMap,     \* indexes set to 1 in that entry
    active,     \* activeDownloads, each with its downloadManager
    requested,  \* chunk requests a peer may still answer, any number of times
    job,        \* the signal each CLI goroutine is serving
    handler,    \* the response each data channel callback is applying
    reported,   \* hashes for which "done" was sent to the CLI
    announced,  \* hashes this process announced to the tracker
    faults,     \* crashes and failed operations so far
    \* History, for the properties: hashes whose creation a fault cut short,
    \* and hashes a download signal went on with while another goroutine was
    \* still creating their rows or their file.
    torn,
    early

rowVars == <<fileRow, rows, avail>>
diskVars == <<onDisk, disk>>
mapVars == <<hasMap, ownMap>>
vars == <<rowVars, diskVars, mapVars, active, requested, job, handler,
          reported, announced, faults, torn, early>>

Index == 0..(MaxChunks - 1)
ChunksOf(f) == 0..(Total[f] - 1)
Slots == Files \cup {Zero, Eof}

JobStates == {"idle", "absent", "found", "create", "chunks", "peers",
              "rchunks", "copy", "announce"}
HandlerStates == {"idle", "write", "map", "mark"}

\* A job between the INSERT of the file row and the end of its writes to the
\* download directory is creating the hash.
OwnerStates == {"chunks", "rchunks", "copy"}
Owned(f) == \E j \in Jobs : job[j].st \in OwnerStates /\ job[j].file = f

At(st, f) == [st |-> st, file |-> f]
Idle == At("idle", None)
Free == [st |-> "idle", file |-> None, idx |-> 0]

Init ==
    /\ fileRow = {}
    /\ rows = [f \in Files |-> 0]
    /\ avail = [f \in Files |-> {}]
    /\ onDisk = {}
    /\ disk = [nm \in Names |-> [i \in Index |-> Eof]]
    /\ hasMap = {}
    /\ ownMap = [f \in Files |-> {}]
    /\ active = {}
    /\ requested = {}
    /\ job = [j \in Jobs |-> Idle]
    /\ handler = [h \in Handlers |-> Free]
    /\ reported = {}
    /\ announced = {}
    /\ faults = 0
    /\ torn = {}
    /\ early = {}

-----------------------------------------------------------------------------
(***************************************************************************)
(* handleDownloadSignal                                                    *)
(***************************************************************************)

\* A make([]int32, totalChunks) stored under the node's own id.
ResetOwnMap(f) ==
    /\ hasMap' = hasMap \cup {f}
    /\ ownMap' = [ownMap EXCEPT ![f] = {}]

\* The goroutine goes on with a hash another one is still creating.
GoesOn(f) == early' = early \cup (IF Owned(f) THEN {f} ELSE {})

\* Parse the .p2p file and look its hash up: fileExists.
DownloadSignal(j, f) ==
    /\ job[j] = Idle
    /\ job' = [job EXCEPT ![j] = At(IF f \in fileRow THEN "found" ELSE "absent", f)]
    /\ GoesOn(f)
    /\ UNCHANGED <<rowVars, diskVars, mapVars, active, requested, handler,
                   reported, announced, faults, torn>>

\* Mutant: chunk rows and file are made without asking whether the row is new.
ClearOwnMapRecreates(j) ==
    /\ job[j].st \in {"found", "absent"}
    /\ ResetOwnMap(job[j].file)
    /\ job' = [job EXCEPT ![j].st = IF @ = "found" THEN "chunks" ELSE "create"]
    /\ UNCHANGED <<rowVars, diskVars, active, requested, handler, reported,
                   announced, faults, torn, early>>

\* Mutant: the map is made for a new file only.
ClearOwnMapOnce(j) ==
    /\ job[j].st \in {"found", "absent"}
    /\ IF job[j].st = "absent" THEN ResetOwnMap(job[j].file) ELSE UNCHANGED mapVars
    /\ job' = [job EXCEPT ![j].st = IF @ = "found" THEN "peers" ELSE "create"]
    /\ UNCHANGED <<rowVars, diskVars, active, requested, handler, reported,
                   announced, faults, torn, early>>

\* Clear the own chunk map, on a repeated signal too.
ClearOwnMap(j) ==
    /\ job[j].st \in {"found", "absent"}
    /\ ResetOwnMap(job[j].file)
    /\ job' = [job EXCEPT ![j].st = IF @ = "found" THEN "peers" ELSE "create"]
    /\ UNCHANGED <<rowVars, diskVars, active, requested, handler, reported,
                   announced, faults, torn, early>>

\* FileStore.CreateFile: this goroutine inserts the row.
CreateFile(j) ==
    LET f == job[j].file IN
    /\ job[j].st = "create"
    /\ f \notin fileRow
    /\ fileRow' = fileRow \cup {f}
    /\ job' = [job EXCEPT ![j] = At("chunks", f)]
    /\ UNCHANGED <<rows, avail, diskVars, mapVars, active, requested, handler,
                   reported, announced, faults, torn, early>>

\* Another goroutine inserted it first: CreateFile finds the row (created is
\* false), or finds none and its INSERT fails on UNIQUE(hash).
CreateFileLost(j) ==
    LET f == job[j].file IN
    /\ job[j].st = "create"
    /\ f \in fileRow
    /\ \/ job' = [job EXCEPT ![j] = At("peers", f)] /\ GoesOn(f)
       \/ job' = [job EXCEPT ![j] = Idle] /\ UNCHANGED early
    /\ UNCHANGED <<rowVars, diskVars, mapVars, active, requested, handler,
                   reported, announced, faults, torn>>

\* Mutant: one chunk too many.
CreateChunkPastEnd(j) ==
    LET f == job[j].file IN
    /\ job[j].st = "chunks"
    /\ rows[f] <= Total[f]
    /\ rows' = [rows EXCEPT ![f] = @ + 1]
    /\ UNCHANGED <<fileRow, avail, diskVars, mapVars, active, requested, job,
                   handler, reported, announced, faults, torn, early>>

\* One CreateChunk of the loop over the chunk lines, is_available = 0.
CreateChunk(j) ==
    LET f == job[j].file IN
    /\ job[j].st = "chunks"
    /\ rows[f] < Total[f]
    /\ rows' = [rows EXCEPT ![f] = @ + 1]
    /\ UNCHANGED <<fileRow, avail, diskVars, mapVars, active, requested, job,
                   handler, reported, announced, faults, torn, early>>

\* os.Create, then one byte at fileSize/8 - 1: an eighth of the file is a hole.
Preallocated(f) == [i \in Index |-> IF 8 * i < Total[f] THEN Zero ELSE Eof]

\* All rows exist: clear the own map again and create the file.
Preallocate(j) ==
    LET f == job[j].file IN
    /\ job[j].st = "chunks"
    /\ rows[f] = Total[f]
    /\ ResetOwnMap(f)
    /\ onDisk' = onDisk \cup {NameOf[f]}
    /\ disk' = [disk EXCEPT ![NameOf[f]] = Preallocated(f)]
    /\ job' = [job EXCEPT ![j] = At("peers", f)]
    /\ UNCHANGED <<rowVars, active, requested, handler, reported, announced,
                   faults, torn, early>>

\* The tracker's peer list arrives: startFileDownload, unless already active.
StartFileDownload(j) ==
    /\ job[j].st = "peers"
    /\ active' = active \cup {job[j].file}
    /\ job' = [job EXCEPT ![j] = Idle]
    /\ UNCHANGED <<rowVars, diskVars, mapVars, requested, handler, reported,
                   announced, faults, torn, early>>

\* Ten seconds pass without one.
PeerListTimeout(j) ==
    /\ job[j].st = "peers"
    /\ job' = [job EXCEPT ![j] = Idle]
    /\ UNCHANGED <<rowVars, diskVars, mapVars, active, requested, handler,
                   reported, announced, faults, torn, early>>

-----------------------------------------------------------------------------
(***************************************************************************)
(* handleRegisterSignal.  The source file lies outside the download        *)
(* directory.                                                              *)
(***************************************************************************)

\* Hash the source and create its row; a file that has one is left alone.
RegisterSignal(j, f) ==
    /\ job[j] = Idle
    /\ f \notin fileRow
    /\ fileRow' = fileRow \cup {f}
    /\ job' = [job EXCEPT ![j] = At("rchunks", f)]
    /\ UNCHANGED <<rows, avail, diskVars, mapVars, active, requested, handler,
                   reported, announced, faults, torn, early>>

\* One CreateChunk of the read loop, is_available = 1.
RegisterChunk(j) ==
    LET f == job[j].file IN
    /\ job[j].st = "rchunks"
    /\ rows[f] < Total[f]
    /\ rows' = [rows EXCEPT ![f] = @ + 1]
    /\ avail' = [avail EXCEPT ![f] = @ \cup {rows[f]}]
    /\ UNCHANGED <<fileRow, diskVars, mapVars, active, requested, job, handler,
                   reported, announced, faults, torn, early>>

\* Mutant: announce before the copy is there.
CreateCopyAnnounces(j) ==
    LET f == job[j].file IN
    /\ job[j].st = "rchunks"
    /\ rows[f] = Total[f]
    /\ onDisk' = onDisk \cup {NameOf[f]}
    /\ disk' = [disk EXCEPT ![NameOf[f]] = [i \in Index |-> Eof]]
    /\ job' = [job EXCEPT ![j] = At("copy", f)]
    /\ announced' = announced \cup {f}
    /\ UNCHANGED <<rowVars, mapVars, active, requested, handler, reported, faults, torn, early>>

\* os.Create of the copy in the download directory.
CreateCopy(j) ==
    LET f == job[j].file IN
    /\ job[j].st = "rchunks"
    /\ rows[f] = Total[f]
    /\ onDisk' = onDisk \cup {NameOf[f]}
    /\ disk' = [disk EXCEPT ![NameOf[f]] = [i \in Index |-> Eof]]
    /\ job' = [job EXCEPT ![j] = At("copy", f)]
    /\ UNCHANGED <<rowVars, mapVars, active, requested, handler, reported,
                   announced, faults, torn, early>>

\* io.Copy.
CopyFile(j) ==
    LET f == job[j].file IN
    /\ job[j].st = "copy"
    /\ disk' = [disk EXCEPT ![NameOf[f]] =
                   [i \in Index |-> IF i \in ChunksOf(f) THEN f ELSE @[i]]]
    /\ job' = [job EXCEPT ![j] = At("announce", f)]
    /\ UNCHANGED <<rowVars, onDisk, mapVars, active, requested, handler,
                   reported, announced, faults, torn, early>>

\* Write the .p2p file and send the Announce message.
Announce(j) ==
    /\ job[j].st = "announce"
    /\ announced' = announced \cup {job[j].file}
    /\ job' = [job EXCEPT ![j] = Idle]
    /\ UNCHANGED <<rowVars, diskVars, mapVars, active, requested, handler,
                   reported, faults, torn, early>>

-----------------------------------------------------------------------------
(***************************************************************************)
(* downloadManager, one tick at a time                                     *)
(***************************************************************************)

Missing(f) == {i \in 0..(rows[f] - 1) : i \notin avail[f]}

\* Mutant: the last row is not looked at.
IsDownloadCompleteButLast(f) == Missing(f) \subseteq {rows[f] - 1}

IsDownloadComplete(f) == Missing(f) = {}

\* GetChunks shows no missing row: forget the download and tell the CLI.
ManagerDone(f) ==
    /\ f \in active
    /\ IsDownloadComplete(f)
    /\ active' = active \ {f}
    /\ reported' = reported \cup {f}
    /\ UNCHANGED <<rowVars, diskVars, mapVars, requested, job, handler,
                   announced, faults, torn, early>>

\* Mutant: index 0 taken for "none missing".
RequestOneMissingChunkButFirst(f, i) ==
    /\ f \in active
    /\ i \in Missing(f)
    /\ \A k \in Missing(f) : i <= k
    /\ i # 0
    /\ requested' = requested \cup {<<f, i>>}
    /\ UNCHANGED <<rowVars, diskVars, mapVars, active, job, handler, reported,
                   announced, faults, torn, early>>

\* requestOneMissingChunk asks some peer for the first missing chunk.  Every
\* tick asks again until the chunk is marked, so answers may be duplicated.
RequestOneMissingChunk(f, i) ==
    /\ f \in active
    /\ i \in Missing(f)
    /\ \A k \in Missing(f) : i <= k
    /\ requested' = requested \cup {<<f, i>>}
    /\ UNCHANGED <<rowVars, diskVars, mapVars, active, job, handler, reported,
                   announced, faults, torn, early>>

-----------------------------------------------------------------------------
(***************************************************************************)
(* handleChunkResponse                                                     *)
(***************************************************************************)

\* A peer's answer arrives and os.OpenFile(path, O_RDWR) succeeds.  When the
\* file does not exist the handler returns and nothing changes.
ReceiveChunk(h, f, i) ==
    /\ handler[h] = Free
    /\ <<f, i>> \in requested
    /\ NameOf[f] \in onDisk
    /\ handler' = [handler EXCEPT ![h] = [st |-> "write", file |-> f, idx |-> i]]
    /\ UNCHANGED <<rowVars, diskVars, mapVars, active, requested, job, reported,
                   announced, faults, torn, early>>

\* WriteAt(data, i * maxChunkSize): a gap below becomes a hole.
WriteChunkData(h) ==
    LET f == handler[h].file
        i == handler[h].idx
    IN
    /\ handler[h].st = "write"
    /\ disk' = [disk EXCEPT ![NameOf[f]] =
                   [k \in Index |-> IF k = i THEN f
                                    ELSE IF k < i /\ @[k] = Eof THEN Zero
                                    ELSE @[k]]]
    /\ handler' = [handler EXCEPT ![h].st = "map"]
    /\ UNCHANGED <<rowVars, onDisk, mapVars, active, requested, job, reported,
                   announced, faults, torn, early>>

\* peerChunkMap[n.id][hash][index] = 1.  Without the entry this is an index
\* into a nil slice: a panic (see SlotReady).
UpdateOwnMap(h) ==
    LET f == handler[h].file IN
    /\ handler[h].st = "map"
    /\ f \in hasMap
    /\ ownMap' = [ownMap EXCEPT ![f] = @ \cup {handler[h].idx}]
    /\ handler' = [handler EXCEPT ![h].st = "mark"]
    /\ UNCHANGED <<rowVars, diskVars, hasMap, active, requested, job, reported,
                   announced, faults, torn, early>>

\* MarkChunkAvailable: an UPDATE, of no row when the row does not exist.
MarkChunkAvailable(h) ==
    LET f == handler[h].file IN
    /\ handler[h].st = "mark"
    /\ avail' = [avail EXCEPT ![f] = @ \cup ({handler[h].idx} \cap 0..(rows[f] - 1))]
    /\ handler' = [handler EXCEPT ![h] = Free]
    /\ UNCHANGED <<fileRow, rows, diskVars, mapVars, active, requested, job,
                   reported, announced, faults, torn, early>>

-----------------------------------------------------------------------------
(***************************************************************************)
(* Faults                                                                  *)
(***************************************************************************)

\* A statement or a file operation of a job fails: log and return.
JobFails(j) ==
    /\ faults < MaxFaults
    /\ job[j].st \in {"create", "chunks", "rchunks", "copy", "announce"}
    /\ job' = [job EXCEPT ![j] = Idle]
    /\ faults' = faults + 1
    /\ torn' = torn \cup (IF job[j].st \in OwnerStates THEN {job[j].file} ELSE {})
    /\ UNCHANGED <<rowVars, diskVars, mapVars, active, requested, handler,
                   reported, announced, early>>

\* WriteAt or the UPDATE of a response fails: the chunk stays missing.
ResponseFails(h) ==
    /\ faults < MaxFaults
    /\ handler[h].st \in {"write", "mark"}
    /\ handler' = [handler EXCEPT ![h] = Free]
    /\ faults' = faults + 1
    /\ UNCHANGED <<rowVars, diskVars, mapVars, active, requested, job, reported,
                   announced, torn, early>>

\* The process dies and is started again.  Its data channels are gone, so no
\* earlier request can still be answered.  init announces every file row and
\* leaves peerChunkMap[n.id] empty.
Crash ==
    /\ faults < MaxFaults
    /\ faults' = faults + 1
    /\ hasMap' = {}
    /\ ownMap' = [f \in Files |-> {}]
    /\ active' = {}
    /\ requested' = {}
    /\ job' = [j \in Jobs |-> Idle]
    /\ handler' = [h \in Handlers |-> Free]
    /\ announced' = fileRow
    /\ torn' = torn \cup {f \in Files : Owned(f)}
    /\ UNCHANGED <<rowVars, diskVars, reported, early>>

-----------------------------------------------------------------------------
JobStep(j) ==
    \/ ClearOwnMap(j) \/ CreateFile(j) \/ CreateFileLost(j) \/ CreateChunk(j) \/ Preallocate(j)
    \/ StartFileDownload(j) \/ PeerListTimeout(j)
    \/ RegisterChunk(j) \/ CreateCopy(j) \/ CopyFile(j) \/ Announce(j)

HandlerStep(h) == WriteChunkData(h) \/ UpdateOwnMap(h) \/ MarkChunkAvailable(h)

Next ==
    \/ \E j \in Jobs, f \in Files : DownloadSignal(j, f) \/ RegisterSignal(j, f)
    \/ \E j \in Jobs : JobStep(j) \/ JobFails(j)
    \/ \E f \in Files : ManagerDone(f)
    \/ \E f \in Files, i \in Index : RequestOneMissingChunk(f, i)
    \/ \E h \in Handlers, f \in Files, i \in Index : ReceiveChunk(h, f, i)
    \/ \E h \in Handlers : HandlerStep(h) \/ ResponseFails(h)
    \/ Crash

Spec == Init /\ [][Next]_vars

(***************************************************************************)
(* Goroutines run; the ticker of a downloadManager never stops; and a peer *)
(* that is asked for a chunk again and again answers some of the requests. *)
(* Signals and faults need never happen.                                   *)
(***************************************************************************)
Fairness ==
    /\ \A j \in Jobs : WF_vars(JobStep(j))
    /\ \A h \in Handlers : WF_vars(HandlerStep(h))
    /\ \A f \in Files : WF_vars(ManagerDone(f))
    /\ \A f \in Files, i \in Index :
          /\ WF_vars(RequestOneMissingChunk(f, i))
          /\ SF_vars(\E h \in Handlers : ReceiveChunk(h, f, i))

FairSpec == Spec /\ Fairness

-----------------------------------------------------------------------------
(***************************************************************************)
(* Properties                                                              *)
(***************************************************************************)

\* Every variable has its type; the rows of a file are numbered without gaps.
TypeOK ==
    /\ fileRow \subseteq Files
    /\ rows \in [Files -> 0..MaxChunks]
    /\ avail \in [Files -> SUBSET Index]
    /\ onDisk \subseteq Names
    /\ disk \in [Names -> [Index -> Slots]]
    /\ hasMap \subseteq Files
    /\ ownMap \in [Files -> SUBSET Index]
    /\ active \subseteq Files
    /\ requested \subseteq Files \X Index
    /\ job \in [Jobs -> [st : JobStates, file : Files \cup {None}]]
    /\ handler \in [Handlers -> [st : HandlerStates, file : Files \cup {None}, idx : Nat]]
    /\ reported \subseteq Files
    /\ announced \subseteq Files
    /\ faults \in 0..MaxFaults
    /\ torn \subseteq Files /\ early \subseteq Files

NamesDistinct == \A f, g \in Files : NameOf[f] = NameOf[g] => f = g

\* What readChunkFromFile would return for chunk i of f, if anything.
Readable(f, i) == NameOf[f] \in onDisk /\ disk[NameOf[f]][i] # Eof

(***************************************************************************)
(* handleChunkRequest answers from the row's is_available alone and no     *)
(* hash is ever checked, so the row must imply the bytes: whatever is      *)
(* readable at the place of an available chunk is that chunk, after any    *)
(* crash, with duplicate and late responses, whatever the other goroutines *)
(* do to the directory.                                                    *)
(***************************************************************************)
Integrity ==
    \A f \in Files : \A i \in avail[f] :
        Readable(f, i) => disk[NameOf[f]][i] = f

(***************************************************************************)
(* A response that reaches line 153 of chunk.go finds its slot of          *)
(* peerChunkMap[n.id], so the assignment does not panic: the entry made by *)
(* the download signal outlives every request made for it.                 *)
(***************************************************************************)
SlotReady ==
    \A h \in Handlers : handler[h].st = "map" =>
        /\ handler[h].file \in hasMap
        /\ handler[h].idx \in ChunksOf(handler[h].file)

(***************************************************************************)
(* The CLI prints "Downloaded ... successfully" on "done": every chunk the *)
(* .p2p file lists is marked and stored by then, whatever failed, crashed  *)
(* or was repeated in between, unless a fault cut the creation of the      *)
(* file's own rows short, or the signal overtook another that was still    *)
(* creating them: then its manager finds no missing chunk too early.       *)
(***************************************************************************)
Whole(f) == /\ avail[f] = ChunksOf(f)
            /\ \A i \in ChunksOf(f) : NameOf[f] \in onDisk /\ disk[NameOf[f]][i] = f

ReportedComplete == \A f \in reported : Whole(f) \/ f \in torn \cup early

(***************************************************************************)
(* What this node announces it can serve, after a restart too: each chunk  *)
(* its rows offer for an announced file can be read back, unless a fault   *)
(* cut the creation of that file short.                                    *)
(***************************************************************************)
AnnouncedServable ==
    \A f \in announced \ torn : \A i \in avail[f] : Readable(f, i)

\* A download that has peers comes to an end after every failed response and
\* every crash, unless its rows or its file were never completed.
DownloadsEnd == \A f \in Files : f \in active ~> f \notin active \/ f \in torn

=============================================================================
