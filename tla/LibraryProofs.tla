--------------------------- MODULE LibraryProofs ---------------------------
(***************************************************************************)
(* Proofs about Library for any set of files, jobs and data channels, with *)
(* any number of crashes and failed operations.                            *)
(***************************************************************************)
EXTENDS Library, TLAPS

Stored(f, i) == NameOf[f] \in onDisk /\ disk[NameOf[f]][i] = f
AllStored(f) == \A i \in avail[f] : Stored(f, i)
Busy(h) == handler[h].st # "idle"

\* A busy goroutine works on a file, a busy callback on one of its chunks.
Working ==
    /\ \A j \in Jobs : job[j].st # "idle" => job[j].file \in Files
    /\ \A h \in Handlers : Busy(h) => /\ handler[h].file \in Files
                                      /\ handler[h].idx \in Index

\* Rows of a file come after its file row, before its bytes and before any
\* request for its chunks.
RowsFirst ==
    \A f \in Files :
        /\ rows[f] <= Total[f]
        /\ avail[f] \subseteq 0..(rows[f] - 1)
        /\ \A i \in Index : <<f, i>> \in requested => i < rows[f]
        /\ f \notin fileRow => rows[f] = 0 /\ NameOf[f] \notin onDisk

\* One goroutine creates the rows and the file of a hash.
OneOwner ==
    /\ \A j \in Jobs : job[j].st \in OwnerStates => job[j].file \in fileRow
    /\ \A j, k \in Jobs :
          /\ job[j].st \in OwnerStates
          /\ job[k].st \in OwnerStates
          /\ job[j].file = job[k].file
          => j = k

\* Until the owner of a download has created the file nothing is available.
Downloading ==
    \A j \in Jobs :
        job[j].st = "chunks" =>
            /\ NameOf[job[j].file] \notin onDisk
            /\ avail[job[j].file] = {}

\* While a file is being registered nobody asks for its chunks.
Registering ==
    \A j \in Jobs :
        job[j].st \in {"rchunks", "copy"} =>
            /\ job[j].st = "rchunks" => NameOf[job[j].file] \notin onDisk
            /\ Missing(job[j].file) = {}
            /\ \A i \in Index : <<job[j].file, i>> \notin requested
            /\ \A h \in Handlers : Busy(h) => handler[h].file # job[j].file

\* A file of which chunks are missing, asked for or arriving has the bytes of
\* every chunk its rows call available.
Trusted ==
    /\ \A f \in Files : Missing(f) # {} => AllStored(f)
    /\ \A f \in Files, i \in Index : <<f, i>> \in requested => AllStored(f)
    /\ \A h \in Handlers : Busy(h) => AllStored(handler[h].file)

\* The file of a response exists, and its chunk is there once written.
Arriving ==
    \A h \in Handlers : Busy(h) =>
        /\ NameOf[handler[h].file] \in onDisk
        /\ handler[h].st \in {"map", "mark"} =>
              disk[NameOf[handler[h].file]][handler[h].idx] = handler[h].file

\* The own chunk map exists wherever a response may need it.
MapReady ==
    /\ \A f \in Files : rows[f] <= Total[f]
    /\ \A j \in Jobs : job[j].st \in {"create", "chunks", "peers"} => job[j].file \in hasMap
    /\ active \subseteq hasMap
    /\ \A f \in Files, i \in Index :
          <<f, i>> \in requested => f \in hasMap /\ i \in ChunksOf(f)
    /\ \A h \in Handlers : Busy(h) =>
          /\ handler[h].file \in hasMap
          /\ handler[h].idx \in ChunksOf(handler[h].file)

IInv ==
    /\ RowsFirst /\ OneOwner /\ Downloading /\ Registering
    /\ Trusted /\ Arriving /\ Integrity

-----------------------------------------------------------------------------
(***************************************************************************)
(* Types                                                                   *)
(***************************************************************************)

TypeInv == TypeOK /\ Working

LEMMA TypeInit == Init => TypeInv
  BY LibraryAssumption DEF Init, TypeInv, TypeOK, Working, Busy, Idle, At, Free,
     JobStates, HandlerStates, Slots, Index

LEMMA TypeJob ==
  ASSUME TypeInv, NEW j \in Jobs, JobStep(j) \/ JobFails(j)
  PROVE  TypeInv'
<1> USE LibraryAssumption DEF TypeInv, TypeOK, Working, Busy, Idle, At,
        JobStates, Slots, Index, ChunksOf, rowVars, diskVars, mapVars, ResetOwnMap
<1>1. CASE ClearOwnMap(j)
  <2>1. job'[j].st \in {"peers", "create"} /\ job'[j].file = job[j].file
    BY <1>1 DEF ClearOwnMap
  <2>2. job' \in [Jobs -> [st : JobStates, file : Files \cup {None}]]
    <3>1. job' = [job EXCEPT ![j] = [job[j] EXCEPT !.st = job'[j].st]]
      BY <1>1, <2>1 DEF ClearOwnMap
    <3> QED BY <2>1, <3>1
  <2>3. \A k \in Jobs : job'[k].st # "idle" => job'[k].file \in Files
    BY <1>1, <2>1 DEF ClearOwnMap
  <2>4. hasMap' \subseteq Files /\ ownMap' \in [Files -> SUBSET Index]
    BY <1>1 DEF ClearOwnMap
  <2> QED BY <1>1, <2>2, <2>3, <2>4 DEF ClearOwnMap
<1>2. CASE CreateFile(j) BY <1>2 DEF CreateFile
<1>3. CASE CreateFileLost(j)
  <2>1. CASE job' = [job EXCEPT ![j] = At("peers", job[j].file)]
    BY <1>3, <2>1 DEF CreateFileLost, GoesOn
  <2>2. CASE job' = [job EXCEPT ![j] = Idle]
    BY <1>3, <2>2 DEF CreateFileLost, GoesOn
  <2>3. early' \subseteq Files
    BY <1>3 DEF CreateFileLost, GoesOn
  <2> QED BY <1>3, <2>1, <2>2, <2>3 DEF CreateFileLost
<1>4. CASE CreateChunk(j) BY <1>4 DEF CreateChunk
<1>5. CASE Preallocate(j) BY <1>5 DEF Preallocate, Preallocated
<1>6. CASE StartFileDownload(j) BY <1>6 DEF StartFileDownload
<1>7. CASE PeerListTimeout(j) BY <1>7 DEF PeerListTimeout
<1>8. CASE RegisterChunk(j) BY <1>8 DEF RegisterChunk
<1>9. CASE CreateCopy(j) BY <1>9 DEF CreateCopy
<1>10. CASE CopyFile(j) BY <1>10 DEF CopyFile
<1>11. CASE Announce(j) BY <1>11 DEF Announce
<1>12. CASE JobFails(j) BY <1>12 DEF JobFails, OwnerStates
<1> QED BY <1>1, <1>2, <1>3, <1>4, <1>5, <1>6, <1>7, <1>8, <1>9, <1>10, <1>11,
           <1>12 DEF JobStep

HandlerType == [Handlers -> [st : HandlerStates, file : Files \cup {None}, idx : Nat]]

\* A callback that moves on to its next state stays well typed.
LEMMA HandlerMoves ==
  ASSUME TypeInv, NEW h \in Handlers, Busy(h), NEW s \in HandlerStates,
         handler' = [handler EXCEPT ![h].st = s]
  PROVE  /\ handler' \in HandlerType
         /\ \A k \in Handlers : handler'[k].file = handler[k].file
                              /\ handler'[k].idx = handler[k].idx
         /\ \A k \in Handlers : Busy(k)' => Busy(k)
<1>1. handler \in HandlerType
  BY DEF TypeInv, TypeOK, HandlerType
<1>2. handler' = [handler EXCEPT ![h] = [handler[h] EXCEPT !.st = s]]
  OBVIOUS
<1>3. [handler[h] EXCEPT !.st = s] \in [st : HandlerStates, file : Files \cup {None}, idx : Nat]
  BY <1>1 DEF HandlerType
<1> QED BY <1>1, <1>2, <1>3 DEF HandlerType, Busy

LEMMA TypeHandler ==
  ASSUME TypeInv, NEW h \in Handlers, HandlerStep(h) \/ ResponseFails(h)
  PROVE  TypeInv'
<1> USE LibraryAssumption DEF TypeInv, Working
<1>1. CASE WriteChunkData(h)
  <2>1. Busy(h) /\ handler' = [handler EXCEPT ![h].st = "map"]
    BY <1>1 DEF WriteChunkData, Busy
  <2>2. handler' \in HandlerType /\ Working'
    BY <1>1, <2>1, HandlerMoves DEF HandlerStates, WriteChunkData
  <2>3. handler[h].file \in Files /\ NameOf[handler[h].file] \in Names
    BY <2>1
  <2>4. disk' \in [Names -> [Index -> Slots]]
    BY <1>1, <2>3 DEF WriteChunkData, TypeOK, Slots
  <2> QED BY <1>1, <2>2, <2>4 DEF WriteChunkData, TypeOK, HandlerType, rowVars, mapVars
<1>2. CASE UpdateOwnMap(h)
  <2>1. Busy(h) /\ handler' = [handler EXCEPT ![h].st = "mark"]
    BY <1>2 DEF UpdateOwnMap, Busy
  <2>2. handler' \in HandlerType /\ Working'
    BY <1>2, <2>1, HandlerMoves DEF HandlerStates, UpdateOwnMap
  <2>3. ownMap' \in [Files -> SUBSET Index]
    BY <1>2, <2>1 DEF UpdateOwnMap, TypeOK
  <2> QED BY <1>2, <2>2, <2>3 DEF UpdateOwnMap, TypeOK, HandlerType, rowVars, diskVars
<1>3. CASE MarkChunkAvailable(h)
  <2>1. Busy(h)
    BY <1>3 DEF MarkChunkAvailable, Busy
  <2>2. handler' \in HandlerType /\ Working'
    BY <1>3 DEF MarkChunkAvailable, TypeOK, HandlerType, HandlerStates, Free, Busy
  <2>3. avail' \in [Files -> SUBSET Index]
    BY <1>3, <2>1 DEF MarkChunkAvailable, TypeOK
  <2> QED BY <1>3, <2>2, <2>3 DEF MarkChunkAvailable, TypeOK, HandlerType, diskVars, mapVars
<1>4. CASE ResponseFails(h)
  BY <1>4 DEF ResponseFails, TypeOK, Busy, Free, HandlerStates, rowVars, diskVars, mapVars
<1> QED BY <1>1, <1>2, <1>3, <1>4 DEF HandlerStep

LEMMA TypeNext == TypeInv /\ [Next]_vars => TypeInv'
<1> SUFFICES ASSUME TypeInv, [Next]_vars PROVE TypeInv'
  OBVIOUS
<1>1. ASSUME NEW j \in Jobs, NEW f \in Files, DownloadSignal(j, f)
      PROVE  TypeInv'
  BY <1>1 DEF DownloadSignal, GoesOn, TypeInv, TypeOK, Working, Busy, Idle, At, JobStates,
     rowVars, diskVars, mapVars
<1>2. ASSUME NEW j \in Jobs, NEW f \in Files, RegisterSignal(j, f)
      PROVE  TypeInv'
  BY <1>2 DEF RegisterSignal, TypeInv, TypeOK, Working, Busy, Idle, At, JobStates,
     rowVars, diskVars, mapVars
<1>3. ASSUME NEW f \in Files, ManagerDone(f)
      PROVE  TypeInv'
  BY <1>3 DEF ManagerDone, TypeInv, TypeOK, Working, Busy, rowVars, diskVars, mapVars
<1>4. ASSUME NEW f \in Files, NEW i \in Index, RequestOneMissingChunk(f, i)
      PROVE  TypeInv'
  BY <1>4 DEF RequestOneMissingChunk, TypeInv, TypeOK, Working, Busy, rowVars,
     diskVars, mapVars
<1>5. ASSUME NEW h \in Handlers, NEW f \in Files, NEW i \in Index, ReceiveChunk(h, f, i)
      PROVE  TypeInv'
  <2>1. i \in Nat
    BY LibraryAssumption DEF Index
  <2>2. handler' \in HandlerType
    BY <1>5, <2>1 DEF ReceiveChunk, TypeInv, TypeOK, HandlerType, HandlerStates
  <2>3. \A k \in Handlers : k # h => handler'[k] = handler[k]
    BY <1>5 DEF ReceiveChunk, TypeInv, TypeOK
  <2>4. handler'[h].file = f /\ handler'[h].idx = i
    BY <1>5 DEF ReceiveChunk, TypeInv, TypeOK
  <2>5. Working'
    BY <1>5, <2>3, <2>4 DEF ReceiveChunk, TypeInv, Working, Busy
  <2> QED BY <1>5, <2>2, <2>5
         DEF ReceiveChunk, TypeInv, TypeOK, HandlerType, rowVars, diskVars, mapVars
<1>6. CASE Crash
  <2>1. /\ job' \in [Jobs -> [st : JobStates, file : Files \cup {None}]]
        /\ \A j \in Jobs : job'[j].st = "idle"
    BY <1>6 DEF Crash, Idle, At, JobStates
  <2>2. handler' \in HandlerType /\ \A h \in Handlers : handler'[h].st = "idle"
    BY <1>6 DEF Crash, HandlerType, HandlerStates, Free
  <2>3. /\ hasMap' \subseteq Files /\ active' \subseteq Files /\ announced' \subseteq Files
        /\ requested' \subseteq Files \X Index
        /\ ownMap' \in [Files -> SUBSET Index]
        /\ torn' \subseteq Files
    BY <1>6 DEF Crash, TypeInv, TypeOK
  <2>4. faults' \in 0..MaxFaults
    BY <1>6, LibraryAssumption DEF Crash, TypeInv, TypeOK
  <2>5. Working'
    BY <2>1, <2>2 DEF Working, Busy
  <2> QED BY <1>6, <2>1, <2>2, <2>3, <2>4, <2>5
         DEF Crash, TypeInv, TypeOK, HandlerType, rowVars, diskVars
<1>7. CASE UNCHANGED vars
  BY <1>7 DEF vars, rowVars, diskVars, mapVars, TypeInv, TypeOK, Working, Busy
<1> QED
  BY <1>1, <1>2, <1>3, <1>4, <1>5, <1>6, <1>7, TypeJob, TypeHandler DEF Next

(***************************************************************************)
(* Every reachable state of a node is well typed, whatever jobs and        *)
(* responses interleave and wherever a crash falls.                        *)
(***************************************************************************)
THEOREM TypeCorrect == Spec => [](TypeOK /\ Working)
  BY TypeInit, TypeNext, PTL DEF Spec, TypeInv

-----------------------------------------------------------------------------
(***************************************************************************)
(* Integrity                                                               *)
(***************************************************************************)

LEMMA IInvInit == Init => IInv
  BY LibraryAssumption DEF Init, IInv, RowsFirst, OneOwner, Downloading, Registering,
     Trusted, Arriving, Integrity, Idle, At, Free, OwnerStates, Busy, Missing,
     AllStored, Stored, Readable

\* A step that leaves rows, files, requests and responses alone, and makes no
\* goroutine an owner.
LEMMA QuietStep ==
  ASSUME IInv, UNCHANGED <<rowVars, diskVars, requested, handler>>,
         \A k \in Jobs : job'[k].st \in OwnerStates => job'[k] = job[k]
  PROVE  IInv'
<1> USE DEF IInv, rowVars, diskVars, OwnerStates
<1>1. RowsFirst' /\ Trusted' /\ Arriving' /\ Integrity'
  BY DEF RowsFirst, Trusted, Arriving, Integrity, Busy, Missing, AllStored, Stored, Readable
<1>2. OneOwner'
  BY DEF OneOwner
<1>3. Downloading' /\ Registering'
  BY DEF Downloading, Registering, Busy, Missing
<1> QED BY <1>1, <1>2, <1>3

LEMMA OneMore ==
  ASSUME NEW n \in Nat, NEW m, m = n + 1, NEW i \in 0..(m - 1)
  PROVE  i \in 0..(n - 1) \/ i = n
OBVIOUS

\* The steps of a job that take or keep the ownership of a hash.
LEMMA OwnerStep ==
  ASSUME NamesDistinct, TypeInv, IInv, NEW j \in Jobs,
         \/ CreateFile(j) \/ CreateChunk(j) \/ Preallocate(j)
         \/ RegisterChunk(j) \/ CreateCopy(j) \/ CopyFile(j)
  PROVE  IInv'
<1> DEFINE f == job[j].file
<1> USE LibraryAssumption DEF TypeInv, TypeOK, Working, At, OwnerStates
<1>1. CASE CreateFile(j)
  <2> USE <1>1 DEF CreateFile, diskVars, IInv
  <2>1. Trusted' /\ Arriving' /\ Integrity'
    <3>1. Trusted'
      BY DEF Trusted, Busy, Missing, AllStored, Stored
    <3>2. Arriving'
      BY DEF Arriving, Busy, Stored
    <3>3. Integrity'
      BY DEF Integrity, Readable
    <3> QED BY <3>1, <3>2, <3>3
  <2>2. RowsFirst' /\ OneOwner'
    BY DEF RowsFirst, OneOwner
  <2>3. Downloading'
    BY DEF Downloading, RowsFirst
  <2>4. Registering'
    BY DEF Registering, Busy, Missing
  <2> QED BY <2>1, <2>2, <2>3, <2>4
<1>2. CASE CreateChunk(j)
  <2> USE <1>2 DEF CreateChunk, diskVars, IInv
  <2>1. Arriving' /\ Integrity' /\ Downloading' /\ OneOwner'
    BY DEF Arriving, Integrity, Downloading, OneOwner, Busy, Readable
  <2>2. Trusted'
    <3>1. \A g \in Files : AllStored(g) => AllStored(g)'
      BY DEF AllStored, Stored
    <3>2. f \in Files /\ AllStored(f)'
      BY DEF Downloading, AllStored, Stored
    <3>3. \A g \in Files : g # f /\ Missing(g)' # {} => Missing(g) # {}
      BY <3>2 DEF Missing
    <3>4. \A g \in Files : Missing(g)' # {} => AllStored(g)'
      <4>1. ASSUME NEW g \in Files, g # f, Missing(g)' # {} PROVE AllStored(g)'
        BY <3>1, <3>3, <4>1 DEF Trusted
      <4> QED BY <3>2, <4>1 DEF AllStored, Stored
    <3>5. \A g \in Files, i \in Index : <<g, i>> \in requested' => AllStored(g)'
      BY <3>1 DEF Trusted
    <3>6. \A h \in Handlers : Busy(h)' => AllStored(handler[h].file)'
      BY DEF Trusted, Busy, AllStored, Stored
    <3> QED BY <3>4, <3>5, <3>6 DEF Trusted
  <2>3. Registering'
    BY DEF Registering, OneOwner, Busy, Missing
  <2>4. RowsFirst'
    <3>1. f \in fileRow /\ rows'[f] = rows[f] + 1 /\ rows[f] \in Nat
      BY DEF OneOwner
    <3>2. \A g \in Files : g # f => rows'[g] = rows[g]
      OBVIOUS
    <3> QED BY <3>1, <3>2 DEF RowsFirst, Index
  <2> QED BY <2>1, <2>2, <2>3, <2>4
<1>3. CASE Preallocate(j)
  <2> USE <1>3 DEF Preallocate, rowVars, IInv
  <2>1. f \in Files /\ avail[f] = {} /\ NameOf[f] \notin onDisk
    BY DEF Downloading
  <2>2. \A g \in Files : g # f => NameOf[g] # NameOf[f]
    BY <2>1 DEF NamesDistinct
  <2>3. \A g \in Files : g # f =>
           /\ disk'[NameOf[g]] = disk[NameOf[g]]
           /\ NameOf[g] \in onDisk' <=> NameOf[g] \in onDisk
    BY <2>1, <2>2
  <2>4. RowsFirst'
    BY <2>3 DEF RowsFirst, OneOwner
  <2>5. OneOwner' /\ Downloading' /\ Registering'
    BY <2>2, <2>3 DEF OneOwner, Downloading, Registering, Busy, Missing
  <2>6. Trusted' /\ Integrity'
    BY <2>1, <2>3 DEF Trusted, Integrity, Busy, Missing, AllStored, Stored, Readable
  <2>7. Arriving'
    BY <2>1, <2>3 DEF Arriving, Busy
  <2> QED BY <2>4, <2>5, <2>6, <2>7
<1>4. CASE RegisterChunk(j)
  <2> USE <1>4 DEF RegisterChunk, diskVars, IInv
  <2>1. /\ f \in Files /\ NameOf[f] \notin onDisk /\ Missing(f) = {}
        /\ \A i \in Index : <<f, i>> \notin requested
        /\ \A h \in Handlers : Busy(h) => handler[h].file # f
    BY DEF Registering
  <2>2. Missing(f)' = {}
    <3>1. /\ f' = f /\ rows[f] \in Nat
          /\ rows'[f] = rows[f] + 1 /\ avail'[f] = avail[f] \cup {rows[f]}
      BY <2>1
    <3>2. \A i \in 0..(rows[f] - 1) : i \in avail[f]
      BY <2>1 DEF Missing
    <3>3. ASSUME NEW i \in 0..(rows'[f] - 1) PROVE i \in avail'[f]
      <4>1. i \in 0..(rows[f] - 1) \/ i = rows[f]
        BY <3>1, OneMore
      <4> QED BY <3>1, <3>2, <4>1
    <3> QED BY <3>1, <3>3 DEF Missing
  <2>3. \A g \in Files : g # f => avail'[g] = avail[g] /\ rows'[g] = rows[g]
    OBVIOUS
  <2>4. RowsFirst'
    BY <2>1, <2>3 DEF RowsFirst, OneOwner
  <2>5. OneOwner' /\ Downloading' /\ Registering'
    BY <2>1, <2>2, <2>3 DEF OneOwner, Downloading, Registering, Busy, Missing
  <2>6. Arriving' /\ Integrity'
    BY <2>1, <2>3 DEF Integrity, Arriving, Busy, Readable
  <2>7. \A g \in Files : Missing(g)' # {} => AllStored(g)'
    <3>1. ASSUME NEW g \in Files, g # f, Missing(g)' # {} PROVE AllStored(g)'
      BY <2>3, <3>1 DEF Trusted, Missing, AllStored, Stored
    <3>2. job'[j].file = f
      OBVIOUS
    <3> QED BY <2>2, <3>1, <3>2
  <2>8. Trusted'
    <3>1. ASSUME NEW g \in Files, g # f, AllStored(g) PROVE AllStored(g)'
      BY <2>3, <3>1 DEF AllStored, Stored
    <3>2. \A g \in Files, i \in Index : <<g, i>> \in requested' => AllStored(g)'
      BY <2>1, <3>1 DEF Trusted
    <3>3. \A h \in Handlers : Busy(h)' => AllStored(handler[h].file)'
      BY <2>1, <3>1 DEF Trusted, Busy
    <3> QED BY <2>7, <3>2, <3>3 DEF Trusted
  <2> QED BY <2>4, <2>5, <2>6, <2>8
<1>5. CASE CreateCopy(j) \/ CopyFile(j)
  <2> USE DEF rowVars, IInv
  <2>1. /\ f \in Files /\ Missing(f) = {}
        /\ \A i \in Index : <<f, i>> \notin requested
        /\ \A h \in Handlers : Busy(h) => handler[h].file # f
    BY <1>5 DEF CreateCopy, CopyFile, Registering
  <2>2. \A g \in Files : g # f => NameOf[g] # NameOf[f]
    BY <2>1 DEF NamesDistinct
  <2>3. \A g \in Files : g # f =>
           /\ disk'[NameOf[g]] = disk[NameOf[g]]
           /\ NameOf[g] \in onDisk' <=> NameOf[g] \in onDisk
    BY <1>5, <2>1, <2>2 DEF CreateCopy, CopyFile
  <2>4. \A i \in avail[f] : disk'[NameOf[f]][i] \in {f, Eof}
    BY <1>5, <2>1 DEF CreateCopy, CopyFile, RowsFirst, ChunksOf, Index
  <2>5. /\ UNCHANGED <<rowVars, requested, handler>>
        /\ f \in fileRow
        /\ job'[j].file = f /\ job'[j].st \in {"copy", "announce"}
        /\ \A k \in Jobs : k # j => job'[k] = job[k]
    BY <1>5 DEF CreateCopy, CopyFile, OneOwner
  <2>6. RowsFirst'
    BY <2>3, <2>5 DEF RowsFirst
  <2>7. \A k \in Jobs : k # j /\ job[k].st \in OwnerStates => job[k].file # f
    BY <1>5 DEF OneOwner, CreateCopy, CopyFile
  <2>8. OneOwner' /\ Downloading'
    <3>1. OneOwner'
      BY <2>5, <2>7 DEF OneOwner, rowVars
    <3>2. ASSUME NEW k \in Jobs, job'[k].st = "chunks" PROVE Downloading!(k)'
      <4>1. k # j /\ job'[k] = job[k] /\ job[k].file \in Files /\ job[k].file # f
        BY <2>5, <2>7, <3>2
      <4> QED BY <2>3, <2>5, <3>2, <4>1 DEF Downloading
    <3> QED BY <3>1, <3>2 DEF Downloading
  <2>9. Registering'
    <3>1. ASSUME NEW k \in Jobs, k # j PROVE Registering!(k)'
      BY <2>3, <2>5, <2>7, <3>1 DEF Registering, Busy, Missing
    <3>2. Registering!(j)'
      BY <2>1, <2>5 DEF Busy, Missing
    <3> QED BY <3>1, <3>2 DEF Registering
  <2>10. Integrity' /\ Arriving'
    <3>1. ASSUME NEW g \in Files, NEW i \in avail[g], Readable(g, i)'
          PROVE  disk'[NameOf[g]][i] = g
      <4>1. CASE g = f
        BY <2>4, <3>1, <4>1 DEF Readable
      <4>2. CASE g # f
        BY <2>3, <3>1, <4>2 DEF Integrity, Readable
      <4> QED BY <4>1, <4>2
    <3>3. Integrity'
      BY <2>5, <3>1 DEF Integrity
    <3>2. Arriving'
      BY <2>1, <2>3, <2>5 DEF Arriving, Busy
    <3> QED BY <3>2, <3>3
  <2>11. Trusted'
    <3>1. ASSUME NEW g \in Files, g # f, AllStored(g) PROVE AllStored(g)'
      BY <2>3, <2>5, <3>1 DEF AllStored, Stored
    <3>2. \A g \in Files : Missing(g)' # {} => AllStored(g)'
      BY <2>1, <2>5, <3>1 DEF Trusted, Missing
    <3>3. \A g \in Files, i \in Index : <<g, i>> \in requested' => AllStored(g)'
      BY <2>1, <2>5, <3>1 DEF Trusted
    <3>4. \A h \in Handlers : Busy(h)' => AllStored(handler[h].file)'
      BY <2>1, <2>5, <3>1 DEF Trusted, Busy
    <3> QED BY <3>2, <3>3, <3>4 DEF Trusted
  <2> QED BY <2>6, <2>8, <2>9, <2>10, <2>11
<1> QED BY <1>1, <1>2, <1>3, <1>4, <1>5

\* Trusted survives a step that unmarks nothing stored, makes nothing missing,
\* asks for nothing and starts no callback.
LEMMA TrustedKept ==
  ASSUME Working, Trusted,
         \A g \in Files : AllStored(g) => AllStored(g)',
         \A g \in Files : Missing(g) = {} => Missing(g)' = {},
         requested' \subseteq requested,
         \A k \in Handlers : Busy(k)' => Busy(k) /\ handler'[k].file = handler[k].file
  PROVE  Trusted'
<1>1. \A g \in Files : Missing(g)' # {} => AllStored(g)'
  BY DEF Trusted
<1>2. \A g \in Files, i \in Index : <<g, i>> \in requested' => AllStored(g)'
  BY DEF Trusted
<1>3. ASSUME NEW k \in Handlers, Busy(k)' PROVE AllStored(handler[k].file)'
  <2> DEFINE g == handler[k].file
  <2> HIDE DEF g
  <2>1. g \in Files /\ AllStored(g) /\ handler'[k].file = g
    BY <1>3 DEF Working, Trusted, g
  <2>2. \A i \in avail'[g] : NameOf[g] \in onDisk' /\ disk'[NameOf[g]][i] = g
    <3>1. ASSUME NEW c \in Files, AllStored(c)
          PROVE  \A i \in avail'[c] : NameOf[c] \in onDisk' /\ disk'[NameOf[c]][i] = c
      BY <3>1 DEF AllStored, Stored
    <3> QED BY <2>1, <3>1
  <2> QED BY <2>1, <2>2 DEF AllStored, Stored
<1> QED BY <1>1, <1>2, <1>3 DEF Trusted

LEMMA RequestStep ==
  ASSUME TypeInv, IInv, NEW f \in Files, NEW i \in Index, RequestOneMissingChunk(f, i)
  PROVE  IInv'
<1> USE DEF RequestOneMissingChunk, IInv, rowVars, diskVars
<1>1. OneOwner' /\ Downloading' /\ Arriving' /\ Integrity'
  BY DEF OneOwner, Downloading, Arriving, Integrity, Busy, Readable
<1>2. i < rows[f] /\ Missing(f) # {}
  <2>1. i \in 0..(rows[f] - 1) /\ i \in Missing(f) /\ rows[f] \in Nat
    BY LibraryAssumption DEF Missing, TypeInv, TypeOK
  <2> QED BY <2>1
<1>3. RowsFirst'
  BY <1>2 DEF RowsFirst
<1>4. Registering'
  BY <1>2 DEF Registering, Busy, Missing
<1>5. Trusted'
  BY <1>2 DEF Trusted, Busy, Missing, AllStored, Stored
<1> QED BY <1>1, <1>3, <1>4, <1>5

\* Responses: nothing but the handler's own slot and its row change.
LEMMA HandlerStepInv ==
  ASSUME NamesDistinct, TypeInv, IInv, NEW h \in Handlers,
         \/ \E f \in Files, i \in Index : ReceiveChunk(h, f, i)
         \/ HandlerStep(h)
         \/ ResponseFails(h)
  PROVE  IInv'
<1> USE LibraryAssumption DEF IInv, TypeInv, Working
<1>1. ASSUME NEW f \in Files, NEW i \in Index, ReceiveChunk(h, f, i)
      PROVE  IInv'
  <2> USE <1>1 DEF ReceiveChunk, rowVars, diskVars
  <2>1. \A k \in Handlers : k # h => handler'[k] = handler[k]
    BY DEF TypeOK
  <2>2. handler'[h] = [st |-> "write", file |-> f, idx |-> i]
    BY DEF TypeOK
  <2>3. RowsFirst' /\ OneOwner' /\ Downloading' /\ Integrity'
    BY DEF RowsFirst, OneOwner, Downloading, Integrity, Readable
  <2>4. Registering'
    BY <2>1, <2>2 DEF Registering, Busy, Missing
  <2>5. Trusted'
    <3>1. \A g \in Files : Missing(g)' # {} => AllStored(g)'
      BY DEF Trusted, Missing, AllStored, Stored
    <3>2. \A g \in Files, c \in Index : <<g, c>> \in requested' => AllStored(g)'
      BY DEF Trusted, AllStored, Stored
    <3>3. AllStored(f)
      BY DEF Trusted
    <3>4. AllStored(handler[h].file)'
      BY <2>2, <3>3 DEF AllStored, Stored
    <3>5. ASSUME NEW k \in Handlers, k # h, Busy(k)' PROVE AllStored(handler[k].file)'
      <4>1. AllStored(handler[k].file) /\ handler'[k].file = handler[k].file
        BY <2>1, <3>5 DEF Trusted, Busy
      <4> QED BY <4>1 DEF AllStored, Stored
    <3> QED BY <3>1, <3>2, <3>4, <3>5 DEF Trusted
  <2>6. Arriving'
    BY <2>1, <2>2 DEF Arriving, Busy
  <2> QED BY <2>3, <2>4, <2>5, <2>6
<1>2. CASE WriteChunkData(h)
  <2> DEFINE f == handler[h].file
             i == handler[h].idx
  <2> USE <1>2 DEF WriteChunkData, rowVars
  <2>1. /\ Busy(h) /\ handler' = [handler EXCEPT ![h].st = "map"]
        /\ f \in Files /\ i \in Index
        /\ AllStored(f) /\ NameOf[f] \in onDisk /\ NameOf[f] \in Names
    BY DEF Busy, Trusted, Arriving
  <2>2. /\ \A k \in Handlers : handler'[k].file = handler[k].file
                              /\ handler'[k].idx = handler[k].idx
        /\ \A k \in Handlers : Busy(k)' => Busy(k)
        /\ \A k \in Handlers : k # h => handler'[k] = handler[k]
    BY <2>1, HandlerMoves DEF HandlerStates, TypeOK
  <2>3. \A g \in Files : g # f => disk'[NameOf[g]] = disk[NameOf[g]]
    BY <2>1 DEF NamesDistinct, TypeOK
  <2>4. /\ disk'[NameOf[f]][i] = f
        /\ \A k \in Index : disk[NameOf[f]][k] = f => disk'[NameOf[f]][k] = f
    BY <2>1 DEF TypeOK
  <2>5. RowsFirst' /\ OneOwner' /\ Downloading'
    BY DEF RowsFirst, OneOwner, Downloading
  <2>6. Registering'
    BY <2>2 DEF Registering, Busy, Missing
  <2>7. \A g \in Files : AllStored(g) => AllStored(g)'
    <3> SUFFICES ASSUME NEW g \in Files, AllStored(g) PROVE AllStored(g)'
      OBVIOUS
    <3>1. avail' = avail /\ avail[g] \subseteq Index
      BY <2>1 DEF TypeOK
    <3>2. \A k \in avail[g] : disk[NameOf[g]][k] = g => disk'[NameOf[g]][k] = g
      BY <2>3, <2>4, <3>1
    <3> QED BY <2>1, <3>1, <3>2 DEF AllStored, Stored
  <2>8. Trusted'
    BY <2>2, <2>7, TrustedKept DEF Missing
  <2>9. Integrity'
    <3>1. ASSUME NEW g \in Files, NEW k \in avail[g], Readable(g, k)'
          PROVE  disk'[NameOf[g]][k] = g
      <4>1. CASE g = f
        BY <2>1, <2>7, <4>1 DEF AllStored, Stored
      <4>2. CASE g # f
        BY <2>3, <3>1, <4>2 DEF Integrity, Readable
      <4> QED BY <4>1, <4>2
    <3> QED BY <3>1 DEF Integrity
  <2>10. Arriving'
    <3>1. ASSUME NEW k \in Handlers, Busy(k)'
          PROVE  /\ NameOf[handler'[k].file] \in onDisk
                 /\ handler'[k].st \in {"map", "mark"} =>
                       disk'[NameOf[handler'[k].file]][handler'[k].idx] = handler'[k].file
      <4>1. CASE k = h
        BY <2>1, <2>2, <2>4, <4>1
      <4>2. CASE k # h
        <5> DEFINE g == handler[k].file
                   x == handler[k].idx
        <5>1. handler'[k] = handler[k] /\ Busy(k)
          BY <2>2, <3>1, <4>2
        <5>2. g \in Files /\ x \in Index
          BY <5>1 DEF Working
        <5>3. /\ NameOf[g] \in onDisk
              /\ handler[k].st \in {"map", "mark"} => disk[NameOf[g]][x] = g
          BY <5>1 DEF Arriving
        <5>4. disk[NameOf[g]][x] = g => disk'[NameOf[g]][x] = g
          BY <2>3, <2>4, <5>2
        <5> QED BY <5>1, <5>3, <5>4
      <4> QED BY <4>1, <4>2
    <3> QED BY <3>1 DEF Arriving
  <2> QED BY <2>5, <2>6, <2>8, <2>9, <2>10
<1>3. CASE UpdateOwnMap(h)
  <2> USE <1>3 DEF UpdateOwnMap, rowVars, diskVars
  <2>1. Busy(h) /\ handler' = [handler EXCEPT ![h].st = "mark"]
    BY DEF Busy
  <2>2. /\ \A k \in Handlers : handler'[k].file = handler[k].file
                              /\ handler'[k].idx = handler[k].idx
        /\ \A k \in Handlers : Busy(k)' => Busy(k)
        /\ \A k \in Handlers : k # h => handler'[k] = handler[k]
    BY <2>1, HandlerMoves DEF HandlerStates, TypeOK
  <2>3. RowsFirst' /\ OneOwner' /\ Downloading' /\ Integrity'
    BY DEF RowsFirst, OneOwner, Downloading, Integrity, Readable
  <2>4. Registering'
    BY <2>2 DEF Registering, Busy, Missing
  <2>5. Trusted'
    BY <2>2, TrustedKept DEF Missing, AllStored, Stored
  <2>6. Arriving'
    BY <2>2 DEF Arriving, Busy
  <2> QED BY <2>3, <2>4, <2>5, <2>6
<1>4. CASE MarkChunkAvailable(h)
  <2> DEFINE f == handler[h].file
             i == handler[h].idx
  <2> USE <1>4 DEF MarkChunkAvailable, diskVars
  <2>1. /\ Busy(h) /\ f \in Files /\ i \in Index
        /\ AllStored(f) /\ Stored(f, i)
    BY DEF Busy, Trusted, Arriving, Stored
  <2>2. /\ handler'[h].st = "idle"
        /\ \A k \in Handlers : k # h => handler'[k] = handler[k]
    BY DEF TypeOK, Free
  <2>3. /\ avail'[f] \subseteq avail[f] \cup {i}
        /\ avail[f] \subseteq avail'[f]
        /\ avail'[f] \subseteq 0..(rows[f] - 1) \cup avail[f]
        /\ \A g \in Files : g # f => avail'[g] = avail[g]
    BY <2>1 DEF TypeOK
  <2>4. \A g \in Files : AllStored(g) => AllStored(g)'
    BY <2>1, <2>3 DEF AllStored, Stored
  <2>5. \A g \in Files : Missing(g) = {} => Missing(g)' = {}
    BY <2>3 DEF Missing
  <2>6. RowsFirst' /\ OneOwner'
    BY <2>1, <2>3 DEF RowsFirst, OneOwner
  <2>7. Downloading'
    BY <2>1, <2>3 DEF Downloading, Stored
  <2>8. Registering'
    <3> SUFFICES ASSUME NEW j \in Jobs, job[j].st \in {"rchunks", "copy"}
                 PROVE  /\ job[j].st = "rchunks" => NameOf[job[j].file] \notin onDisk
                        /\ Missing(job[j].file)' = {}
                        /\ \A k \in Index : <<job[j].file, k>> \notin requested
                        /\ \A k \in Handlers : Busy(k)' => handler'[k].file # job[j].file
      BY DEF Registering
    <3>1. /\ job[j].file \in Files
          /\ job[j].st = "rchunks" => NameOf[job[j].file] \notin onDisk
          /\ Missing(job[j].file) = {}
          /\ \A k \in Index : <<job[j].file, k>> \notin requested
          /\ \A k \in Handlers : Busy(k) => handler[k].file # job[j].file
      BY DEF Registering, Working
    <3> QED BY <2>2, <2>5, <3>1 DEF Busy
  <2>9. Trusted'
    BY <2>2, <2>4, <2>5, TrustedKept DEF Busy
  <2>10. Integrity'
    BY <2>1, <2>3, <2>4 DEF Integrity, Readable, AllStored, Stored
  <2>11. Arriving'
    BY <2>2 DEF Arriving, Busy
  <2> QED BY <2>6, <2>7, <2>8, <2>9, <2>10, <2>11
<1>5. CASE ResponseFails(h)
  <2> USE <1>5 DEF ResponseFails, rowVars, diskVars
  <2>1. /\ handler'[h].st = "idle"
        /\ \A k \in Handlers : k # h => handler'[k] = handler[k]
    BY DEF TypeOK, Free
  <2>2. RowsFirst' /\ OneOwner' /\ Downloading' /\ Integrity'
    BY DEF RowsFirst, OneOwner, Downloading, Integrity, Readable
  <2>3. Registering'
    BY <2>1 DEF Registering, Busy, Missing
  <2>4. Trusted'
    BY <2>1, TrustedKept DEF Busy, Missing, AllStored, Stored
  <2>5. Arriving'
    BY <2>1 DEF Arriving, Busy
  <2> QED BY <2>2, <2>3, <2>4, <2>5
<1> QED BY <1>1, <1>2, <1>3, <1>4, <1>5 DEF HandlerStep

LEMMA CrashStep ==
  ASSUME IInv, Crash
  PROVE  IInv'
<1> USE DEF IInv, Crash, rowVars, diskVars
<1>1. /\ \A j \in Jobs : job'[j].st = "idle"
      /\ \A h \in Handlers : handler'[h].st = "idle"
      /\ requested' = {}
  BY DEF Idle, At, Free
<1>2. RowsFirst' /\ Integrity'
  BY DEF RowsFirst, Integrity, Readable
<1>3. OneOwner' /\ Downloading' /\ Registering'
  BY <1>1 DEF OneOwner, Downloading, Registering, OwnerStates
<1>4. Trusted' /\ Arriving'
  BY <1>1 DEF Trusted, Arriving, Busy, Missing, AllStored, Stored
<1> QED BY <1>2, <1>3, <1>4

LEMMA IInvNext ==
  ASSUME NamesDistinct, TypeInv, IInv, [Next]_vars
  PROVE  IInv'
<1>1. ASSUME NEW j \in Jobs, NEW f \in Files, DownloadSignal(j, f)
      PROVE  IInv'
  BY <1>1, QuietStep DEF DownloadSignal, At, OwnerStates, TypeInv, TypeOK
<1>2. ASSUME NEW j \in Jobs, NEW f \in Files, RegisterSignal(j, f)
      PROVE  IInv'
  <2> USE <1>2, LibraryAssumption
      DEF RegisterSignal, IInv, diskVars, TypeInv, TypeOK, Working, At, OwnerStates
  <2>1. RowsFirst' /\ Integrity'
    BY DEF RowsFirst, Integrity, Readable
  <2>2. OneOwner' /\ Downloading'
    BY DEF OneOwner, Downloading
  <2>3. Trusted' /\ Arriving'
    BY DEF Trusted, Arriving, Busy, Missing, AllStored, Stored
  <2>4. /\ Missing(f) = {} /\ NameOf[f] \notin onDisk
        /\ \A i \in Index : <<f, i>> \notin requested
        /\ \A h \in Handlers : Busy(h) => handler[h].file # f
    <3>1. rows[f] = 0 /\ NameOf[f] \notin onDisk
      BY DEF RowsFirst
    <3>2. \A i \in Index : <<f, i>> \notin requested
      BY <3>1 DEF RowsFirst, Index
    <3> QED BY <3>1, <3>2 DEF Missing, Arriving
  <2>5. Registering'
    BY <2>4 DEF Registering, Busy, Missing
  <2> QED BY <2>1, <2>2, <2>3, <2>5
<1>3. ASSUME NEW j \in Jobs, JobStep(j)
      PROVE  IInv'
  <2>1. CASE ClearOwnMap(j)
    BY <2>1, QuietStep DEF ClearOwnMap, OwnerStates, TypeInv, TypeOK
  <2>2. CASE CreateFileLost(j)
    BY <2>2, QuietStep DEF CreateFileLost, At, Idle, OwnerStates, TypeInv, TypeOK
  <2>3. CASE StartFileDownload(j) \/ PeerListTimeout(j) \/ Announce(j)
    BY <2>3, QuietStep DEF StartFileDownload, PeerListTimeout, Announce, At, Idle,
       OwnerStates, TypeInv, TypeOK
  <2> QED BY <1>3, <2>1, <2>2, <2>3, OwnerStep DEF JobStep
<1>4. ASSUME NEW j \in Jobs, JobFails(j)
      PROVE  IInv'
  BY <1>4, QuietStep DEF JobFails, At, Idle, OwnerStates, TypeInv, TypeOK
<1>5. ASSUME NEW f \in Files, ManagerDone(f)
      PROVE  IInv'
  BY <1>5, QuietStep DEF ManagerDone
<1>6. CASE UNCHANGED vars
  BY <1>6, QuietStep DEF vars
<1> QED BY <1>1, <1>2, <1>3, <1>4, <1>5, <1>6, RequestStep, HandlerStepInv, CrashStep DEF Next

(***************************************************************************)
(* Where no two files share a name, an is_available row never vouches for  *)
(* other bytes: for any number of files, CLI connections, peers, repeated  *)
(* or late responses, failed operations and crashes, whatever              *)
(* readChunkFromFile finds at the place of an available chunk is that      *)
(* chunk.                                                                  *)
(***************************************************************************)
THEOREM IntegrityHolds == NamesDistinct /\ Spec => []Integrity
<1> SUFFICES ASSUME NamesDistinct PROVE Spec => []Integrity
  OBVIOUS
<1>1. TypeInv /\ IInv /\ [Next]_vars => IInv'
  BY IInvNext
<1>2. IInv => Integrity
  BY DEF IInv
<1> QED BY <1>1, <1>2, IInvInit, TypeInit, TypeNext, PTL DEF Spec

-----------------------------------------------------------------------------
(***************************************************************************)
(* SlotReady                                                               *)
(***************************************************************************)

LEMMA MapReadyInit == Init => MapReady
  BY LibraryAssumption DEF Init, MapReady, Idle, At, Free, Busy

LEMMA MapReadyJob ==
  ASSUME TypeInv, MapReady, NEW j \in Jobs, JobStep(j) \/ JobFails(j)
  PROVE  MapReady'
<1> USE LibraryAssumption DEF TypeInv, TypeOK, Working, MapReady, Busy, ChunksOf,
        At, Idle, rowVars, diskVars, mapVars, ResetOwnMap
<1>1. CASE ClearOwnMap(j) BY <1>1 DEF ClearOwnMap
<1>2. CASE CreateFile(j) BY <1>2 DEF CreateFile
<1>3. CASE CreateFileLost(j)
  <2>1. CASE job' = [job EXCEPT ![j] = At("peers", job[j].file)]
    BY <1>3, <2>1 DEF CreateFileLost
  <2>2. CASE job' = [job EXCEPT ![j] = Idle]
    BY <1>3, <2>2 DEF CreateFileLost
  <2> QED BY <1>3, <2>1, <2>2 DEF CreateFileLost
<1>4. CASE CreateChunk(j) BY <1>4 DEF CreateChunk
<1>5. CASE Preallocate(j) BY <1>5 DEF Preallocate
<1>6. CASE StartFileDownload(j) BY <1>6 DEF StartFileDownload
<1>7. CASE PeerListTimeout(j) BY <1>7 DEF PeerListTimeout
<1>8. CASE RegisterChunk(j) BY <1>8 DEF RegisterChunk
<1>9. CASE CreateCopy(j) BY <1>9 DEF CreateCopy
<1>10. CASE CopyFile(j) BY <1>10 DEF CopyFile
<1>11. CASE Announce(j) BY <1>11 DEF Announce
<1>12. CASE JobFails(j) BY <1>12 DEF JobFails
<1> QED BY <1>1, <1>2, <1>3, <1>4, <1>5, <1>6, <1>7, <1>8, <1>9, <1>10, <1>11,
           <1>12 DEF JobStep

LEMMA MapReadyHandler ==
  ASSUME TypeInv, MapReady, NEW h \in Handlers, HandlerStep(h) \/ ResponseFails(h)
  PROVE  MapReady'
<1>1. /\ UNCHANGED <<rows, job, active, requested, hasMap>>
      /\ \A k \in Handlers : Busy(k)' =>
            /\ Busy(k)
            /\ handler'[k].file = handler[k].file
            /\ handler'[k].idx = handler[k].idx
  <2>1. CASE WriteChunkData(h)
    BY <2>1, HandlerMoves DEF WriteChunkData, Busy, HandlerStates, rowVars, mapVars
  <2>2. CASE UpdateOwnMap(h)
    BY <2>2, HandlerMoves DEF UpdateOwnMap, Busy, HandlerStates, rowVars
  <2>3. CASE MarkChunkAvailable(h) \/ ResponseFails(h)
    BY <2>3 DEF MarkChunkAvailable, ResponseFails, Busy, Free, TypeInv, TypeOK, rowVars,
       mapVars
  <2> QED BY <2>1, <2>2, <2>3 DEF HandlerStep
<1> QED BY <1>1 DEF MapReady, ChunksOf

LEMMA MapReadyNext ==
  ASSUME TypeInv, MapReady, [Next]_vars
  PROVE  MapReady'
<1> USE DEF MapReady, Busy, ChunksOf
<1>1. ASSUME NEW j \in Jobs, NEW f \in Files, DownloadSignal(j, f) \/ RegisterSignal(j, f)
      PROVE  MapReady'
  <2>1. CASE DownloadSignal(j, f)
    BY <2>1 DEF DownloadSignal, At, TypeInv, TypeOK, rowVars, mapVars
  <2>2. CASE RegisterSignal(j, f)
    BY <2>2 DEF RegisterSignal, At, TypeInv, TypeOK, mapVars
  <2> QED BY <1>1, <2>1, <2>2
<1>2. ASSUME NEW f \in Files, ManagerDone(f)
      PROVE  MapReady'
  BY <1>2 DEF ManagerDone, rowVars, mapVars
<1>3. ASSUME NEW f \in Files, NEW i \in Index, RequestOneMissingChunk(f, i)
      PROVE  MapReady'
  <2>1. i < rows[f] /\ rows[f] <= Total[f] /\ i \in Nat /\ rows[f] \in Nat /\ Total[f] \in Nat
    BY <1>3, LibraryAssumption DEF RequestOneMissingChunk, Missing, TypeInv, TypeOK, Index
  <2>2. f \in hasMap /\ i \in 0..(Total[f] - 1)
    BY <1>3, <2>1 DEF RequestOneMissingChunk
  <2> QED BY <1>3, <2>2 DEF RequestOneMissingChunk, rowVars, mapVars
<1>4. ASSUME NEW h \in Handlers, NEW f \in Files, NEW i \in Index, ReceiveChunk(h, f, i)
      PROVE  MapReady'
  BY <1>4 DEF ReceiveChunk, TypeInv, TypeOK, rowVars, mapVars
<1>5. CASE Crash
  BY <1>5 DEF Crash, Idle, At, Free, rowVars
<1>6. CASE UNCHANGED vars
  BY <1>6 DEF vars, rowVars, mapVars
<1> QED BY <1>1, <1>2, <1>3, <1>4, <1>5, <1>6, MapReadyJob, MapReadyHandler DEF Next

(***************************************************************************)
(* handleChunkResponse never indexes a missing entry of its own chunk map, *)
(* nor past its end: the entry of a file is made before the first request  *)
(* for one of its chunks can be sent and lasts as long as an answer can    *)
(* arrive.                                                                 *)
(***************************************************************************)
THEOREM SlotReadyHolds == Spec => []SlotReady
<1>1. TypeInv /\ MapReady /\ [Next]_vars => MapReady'
  BY MapReadyNext
<1>2. MapReady => SlotReady
  BY DEF MapReady, SlotReady, Busy
<1> QED BY <1>1, <1>2, MapReadyInit, TypeInit, TypeNext, PTL DEF Spec

-----------------------------------------------------------------------------
(***************************************************************************)
(* ReportedComplete and AnnouncedServable                                  *)
(***************************************************************************)

\* All rows and the file exist, and nobody will create them again.
Settled(f) ==
    /\ f \in fileRow
    /\ ~Owned(f)
    /\ rows[f] = Total[f]
    /\ NameOf[f] \in onDisk
    /\ AllStored(f)

\* A hash is owned until it is settled, unless a fault ends its creation.
KeptInv ==
    /\ \A j \in Jobs : job[j].st = "copy" =>
          /\ rows[job[j].file] = Total[job[j].file]
          /\ NameOf[job[j].file] \in onDisk
    /\ \A j \in Jobs : job[j].st = "announce" => Settled(job[j].file)
    /\ \A f \in announced : Settled(f) \/ f \in torn
    /\ \A f \in fileRow : Owned(f) \/ Settled(f) \/ f \in torn

\* A download starts on a settled file, or on one whose creation was cut short
\* or overtaken.
Excused(f) == f \in torn \cup early

DoneInv ==
    /\ \A j \in Jobs : job[j].st \in {"found", "peers"} =>
          Settled(job[j].file) \/ Excused(job[j].file)
    /\ \A f \in active : Settled(f) \/ Excused(f)
    /\ \A f \in reported : (Settled(f) /\ avail[f] = ChunksOf(f)) \/ Excused(f)

\* Nothing is taken back from the history.
LEMMA HistoryGrows ==
  ASSUME TypeInv, [Next]_vars
  PROVE  torn \subseteq torn' /\ early \subseteq early'
<1>1. ASSUME NEW j \in Jobs, NEW f \in Files, DownloadSignal(j, f) \/ RegisterSignal(j, f)
      PROVE  torn \subseteq torn' /\ early \subseteq early'
  BY <1>1 DEF DownloadSignal, RegisterSignal, GoesOn
<1>2. ASSUME NEW j \in Jobs, JobStep(j) \/ JobFails(j)
      PROVE  torn \subseteq torn' /\ early \subseteq early'
  BY <1>2 DEF JobStep, JobFails, ClearOwnMap, CreateFile, CreateFileLost, GoesOn, CreateChunk,
     Preallocate, StartFileDownload, PeerListTimeout, RegisterChunk, CreateCopy, CopyFile,
     Announce
<1>3. ASSUME NEW f \in Files, ManagerDone(f)
      PROVE  UNCHANGED <<torn, early>>
  BY <1>3 DEF ManagerDone
<1>4. ASSUME NEW f \in Files, NEW i \in Index, RequestOneMissingChunk(f, i)
      PROVE  UNCHANGED <<torn, early>>
  BY <1>4 DEF RequestOneMissingChunk
<1>5. ASSUME NEW h \in Handlers, NEW f \in Files, NEW i \in Index, ReceiveChunk(h, f, i)
      PROVE  UNCHANGED <<torn, early>>
  BY <1>5 DEF ReceiveChunk
<1>6. ASSUME NEW h \in Handlers, HandlerStep(h) \/ ResponseFails(h)
      PROVE  UNCHANGED <<torn, early>>
  BY <1>6 DEF HandlerStep, WriteChunkData, UpdateOwnMap, MarkChunkAvailable, ResponseFails
<1>7. CASE Crash \/ UNCHANGED vars
  BY <1>7 DEF Crash, vars
<1> QED BY <1>1, <1>2, <1>3, <1>4, <1>5, <1>6, <1>7 DEF Next

\* Rows, files and available chunks are never taken away again.
LEMMA NothingLost ==
  ASSUME TypeInv, [Next]_vars
  PROVE  /\ fileRow \subseteq fileRow'
         /\ onDisk \subseteq onDisk'
         /\ \A f \in Files : avail[f] \subseteq avail'[f]
         /\ \A f \in Files : rows[f] <= rows'[f]
<1> USE LibraryAssumption DEF TypeInv, TypeOK, Working, rowVars, diskVars, mapVars
<1>1. ASSUME NEW j \in Jobs, NEW f \in Files, DownloadSignal(j, f) \/ RegisterSignal(j, f)
      PROVE  /\ fileRow \subseteq fileRow' /\ onDisk \subseteq onDisk'
             /\ avail' = avail /\ rows' = rows
  BY <1>1 DEF DownloadSignal, RegisterSignal
<1>2. ASSUME NEW j \in Jobs, JobStep(j) \/ JobFails(j)
      PROVE  /\ fileRow \subseteq fileRow' /\ onDisk \subseteq onDisk'
             /\ \A f \in Files : avail[f] \subseteq avail'[f] /\ rows[f] <= rows'[f]
  <2>1. CASE CreateChunk(j) \/ RegisterChunk(j)
    <3>1. job[j].file \in Files /\ rows[job[j].file] \in Nat
      BY <2>1 DEF CreateChunk, RegisterChunk
    <3>2. \A f \in Files : avail[f] \subseteq avail'[f]
      <4>1. CASE CreateChunk(j)
        BY <4>1 DEF CreateChunk
      <4>2. CASE RegisterChunk(j)
        <5>1. PICK g \in Files : \E n : avail' = [avail EXCEPT ![g] = avail[g] \cup {n}]
          BY <3>1, <4>2 DEF RegisterChunk
        <5> QED BY <5>1
      <4> QED BY <2>1, <4>1, <4>2
    <3>3. PICK g \in Files : g = job[j].file
      BY <3>1
    <3>4. rows' = [rows EXCEPT ![g] = rows[g] + 1]
      BY <2>1, <3>3 DEF CreateChunk, RegisterChunk
    <3>5. \A f \in Files : rows[f] <= rows'[f]
      <4>1. \A f \in Files : rows[f] \in Nat
        OBVIOUS
      <4> HIDE DEF TypeInv, TypeOK
      <4>2. rows \in [Files -> 0..MaxChunks]
        BY DEF TypeInv, TypeOK
      <4> QED BY <3>4, <4>1, <4>2
    <3> QED BY <2>1, <3>2, <3>5 DEF CreateChunk, RegisterChunk
  <2>2. CASE CreateFile(j) \/ Preallocate(j) \/ CreateCopy(j) \/ CopyFile(j)
    BY <2>2 DEF CreateFile, Preallocate, CreateCopy, CopyFile
  <2>3. CASE ClearOwnMap(j) \/ CreateFileLost(j) \/ StartFileDownload(j)
             \/ PeerListTimeout(j) \/ Announce(j) \/ JobFails(j)
    BY <2>3 DEF ClearOwnMap, CreateFileLost, StartFileDownload, PeerListTimeout, Announce,
       JobFails
  <2> QED BY <1>2, <2>1, <2>2, <2>3 DEF JobStep
<1>3. ASSUME NEW f \in Files, ManagerDone(f)
      PROVE  UNCHANGED <<rowVars, diskVars>>
  BY <1>3 DEF ManagerDone
<1>4. ASSUME NEW f \in Files, NEW i \in Index, RequestOneMissingChunk(f, i)
      PROVE  UNCHANGED <<rowVars, diskVars>>
  BY <1>4 DEF RequestOneMissingChunk
<1>5. ASSUME NEW h \in Handlers, NEW f \in Files, NEW i \in Index, ReceiveChunk(h, f, i)
      PROVE  UNCHANGED <<rowVars, diskVars>>
  BY <1>5 DEF ReceiveChunk
<1>6. ASSUME NEW h \in Handlers, HandlerStep(h) \/ ResponseFails(h)
      PROVE  /\ fileRow' = fileRow /\ onDisk' = onDisk /\ rows' = rows
             /\ \A f \in Files : avail[f] \subseteq avail'[f]
  <2>1. CASE MarkChunkAvailable(h)
    BY <2>1 DEF MarkChunkAvailable
  <2>2. CASE WriteChunkData(h) \/ UpdateOwnMap(h) \/ ResponseFails(h)
    BY <2>2 DEF WriteChunkData, UpdateOwnMap, ResponseFails
  <2> QED BY <1>6, <2>1, <2>2 DEF HandlerStep
<1>7. CASE Crash \/ UNCHANGED vars
  BY <1>7 DEF Crash, vars
<1> QED BY <1>1, <1>2, <1>3, <1>4, <1>5, <1>6, <1>7 DEF Next

\* Steps that leave rows and files alone and make nobody an owner.
LEMMA SettledQuiet ==
  ASSUME UNCHANGED <<rowVars, diskVars>>, NEW f, Settled(f),
         \A k \in Jobs : job'[k].st \in OwnerStates => job'[k] = job[k]
  PROVE  Settled(f)'
BY DEF Settled, Owned, AllStored, Stored, rowVars, diskVars

\* An owner works on other hashes, so under other names.
LEMMA SettledJob ==
  ASSUME NamesDistinct, TypeInv, IInv, NEW f \in Files, Settled(f),
         NEW j \in Jobs, JobStep(j)
  PROVE  Settled(f)'
<1> DEFINE g == job[j].file
<1> USE LibraryAssumption DEF TypeInv, TypeOK, Working, At, OwnerStates
<1>1. CASE CreateFile(j)
  <2>1. g \in Files /\ g # f
    BY <1>1 DEF CreateFile, Settled
  <2>2. ~Owned(f)'
    BY <1>1, <2>1 DEF CreateFile, Settled, Owned
  <2> QED BY <1>1, <2>2 DEF CreateFile, Settled, AllStored, Stored, diskVars
<1>2. CASE CreateChunk(j) \/ Preallocate(j) \/ RegisterChunk(j) \/ CreateCopy(j) \/ CopyFile(j)
  <2>1. g \in Files /\ job[j].st \in OwnerStates
    BY <1>2 DEF CreateChunk, Preallocate, RegisterChunk, CreateCopy, CopyFile
  <2>2. g # f
    BY <2>1 DEF Settled, Owned
  <2>3. NameOf[g] # NameOf[f]
    BY <2>1, <2>2 DEF NamesDistinct
  <2>4. job'[j].st \in OwnerStates => job'[j].file = g
    BY <1>2, <2>1 DEF CreateChunk, Preallocate, RegisterChunk, CreateCopy, CopyFile
  <2>5. \A k \in Jobs : k # j => job'[k] = job[k]
    BY <1>2 DEF CreateChunk, Preallocate, RegisterChunk, CreateCopy, CopyFile
  <2>6. ~Owned(f)'
    BY <2>2, <2>4, <2>5 DEF Settled, Owned
  <2>7. /\ fileRow' = fileRow /\ rows'[f] = rows[f] /\ avail'[f] = avail[f]
        /\ disk'[NameOf[f]] = disk[NameOf[f]]
        /\ onDisk \subseteq onDisk'
    BY <1>2, <2>1, <2>2, <2>3 DEF CreateChunk, Preallocate, RegisterChunk, CreateCopy,
       CopyFile, rowVars, diskVars
  <2> QED BY <2>6, <2>7 DEF Settled, AllStored, Stored
<1>3. CASE ClearOwnMap(j) \/ CreateFileLost(j) \/ StartFileDownload(j)
           \/ PeerListTimeout(j) \/ Announce(j)
  <2>1. UNCHANGED <<rowVars, diskVars>>
    BY <1>3 DEF ClearOwnMap, CreateFileLost, StartFileDownload, PeerListTimeout, Announce
  <2>2. job'[j].st \notin OwnerStates /\ \A k \in Jobs : k # j => job'[k] = job[k]
    BY <1>3 DEF ClearOwnMap, CreateFileLost, StartFileDownload, PeerListTimeout, Announce,
       Idle
  <2> QED BY <2>1, <2>2, SettledQuiet
<1> QED BY <1>1, <1>2, <1>3 DEF JobStep

\* A response adds to a file's bytes, and marks what it has written.
LEMMA SettledHandler ==
  ASSUME NamesDistinct, TypeInv, IInv, NEW f \in Files, Settled(f),
         NEW h \in Handlers, HandlerStep(h)
  PROVE  Settled(f)'
<1> DEFINE g == handler[h].file
           i == handler[h].idx
<1> USE LibraryAssumption DEF TypeInv, TypeOK, Working
<1>1. CASE WriteChunkData(h)
  <2>1. g \in Files /\ i \in Index /\ NameOf[g] \in Names /\ NameOf[f] \in Names
    BY <1>1 DEF WriteChunkData, Busy
  <2>2. \A k \in Index : disk[NameOf[f]][k] = f => disk'[NameOf[f]][k] = f
    <3>1. CASE g = f
      BY <1>1, <2>1, <3>1 DEF WriteChunkData
    <3>2. CASE g # f
      <4>1. NameOf[g] # NameOf[f]
        BY <2>1, <3>2 DEF NamesDistinct
      <4> QED BY <1>1, <2>1, <4>1 DEF WriteChunkData
    <3> QED BY <3>1, <3>2
  <2>3. UNCHANGED <<fileRow, rows, avail, onDisk, job>>
    BY <1>1 DEF WriteChunkData, rowVars
  <2>4. avail[f] \subseteq Index
    OBVIOUS
  <2> QED BY <2>2, <2>3, <2>4 DEF Settled, Owned, AllStored, Stored
<1>2. CASE UpdateOwnMap(h)
  BY <1>2, SettledQuiet DEF UpdateOwnMap
<1>3. CASE MarkChunkAvailable(h)
  <2>1. g \in Files /\ i \in Index /\ Stored(g, i)
    BY <1>3 DEF MarkChunkAvailable, Busy, IInv, Arriving, Stored
  <2>2. /\ avail'[f] \subseteq avail[f] \cup {k \in {i} : g = f}
        /\ UNCHANGED <<fileRow, rows, onDisk, disk, job>>
    BY <1>3, <2>1 DEF MarkChunkAvailable, diskVars
  <2> QED BY <2>1, <2>2 DEF Settled, Owned, AllStored, Stored
<1> QED BY <1>1, <1>2, <1>3 DEF HandlerStep

LEMMA SettledStays ==
  ASSUME NamesDistinct, TypeInv, IInv, [Next]_vars,
         NEW f \in Files, Settled(f)
  PROVE  Settled(f)'
<1>1. ASSUME NEW j \in Jobs, NEW g \in Files, DownloadSignal(j, g)
      PROVE  Settled(f)'
  BY <1>1, SettledQuiet DEF DownloadSignal, At, OwnerStates, TypeInv, TypeOK
<1>2. ASSUME NEW j \in Jobs, NEW g \in Files, RegisterSignal(j, g)
      PROVE  Settled(f)'
  BY <1>2 DEF RegisterSignal, Settled, Owned, AllStored, Stored, At, OwnerStates, TypeInv,
     TypeOK, diskVars
<1>3. ASSUME NEW g \in Files, ManagerDone(g) PROVE Settled(f)'
  BY <1>3, SettledQuiet DEF ManagerDone
<1>4. ASSUME NEW g \in Files, NEW i \in Index, RequestOneMissingChunk(g, i)
      PROVE  Settled(f)'
  BY <1>4, SettledQuiet DEF RequestOneMissingChunk
<1>5. ASSUME NEW h \in Handlers, NEW g \in Files, NEW i \in Index, ReceiveChunk(h, g, i)
      PROVE  Settled(f)'
  BY <1>5, SettledQuiet DEF ReceiveChunk
<1>6. CASE UNCHANGED vars
  BY <1>6, SettledQuiet DEF vars
<1>7. ASSUME NEW j \in Jobs, JobFails(j) PROVE Settled(f)'
  BY <1>7, SettledQuiet DEF JobFails, At, Idle, OwnerStates, TypeInv, TypeOK
<1>8. ASSUME NEW h \in Handlers, ResponseFails(h) PROVE Settled(f)'
  BY <1>8, SettledQuiet DEF ResponseFails
<1>9. CASE Crash
  BY <1>9, SettledQuiet DEF Crash, At, Idle, OwnerStates
<1> QED BY <1>1, <1>2, <1>3, <1>4, <1>5, <1>6, <1>7, <1>8, <1>9, SettledJob, SettledHandler
       DEF Next

\* The end of a creation: the file is settled from then on.
LEMMA OwnerEnds ==
  ASSUME NamesDistinct, TypeInv, IInv, KeptInv, NEW j \in Jobs, NEW f, f = job[j].file,
         Preallocate(j) \/ CopyFile(j)
  PROVE  Settled(f)'
<1> USE LibraryAssumption DEF TypeInv, TypeOK, Working, At, OwnerStates, IInv
<1>1. /\ f \in Files /\ f \in fileRow /\ NameOf[f] \in Names
      /\ avail[f] \subseteq 0..(rows[f] - 1) /\ avail[f] \subseteq Index
      /\ \A k \in Jobs : k # j => ~(job[k].st \in OwnerStates /\ job[k].file = f)
  BY DEF Preallocate, CopyFile, OneOwner, RowsFirst
<1>2. job'[j].st \notin OwnerStates /\ \A k \in Jobs : k # j => job'[k] = job[k]
  BY DEF Preallocate, CopyFile
<1>3. ~Owned(f)'
  BY <1>1, <1>2 DEF Owned
<1>4. CASE Preallocate(j)
  <2>1. avail'[f] = {} /\ rows'[f] = Total[f] /\ NameOf[f] \in onDisk' /\ fileRow' = fileRow
    BY <1>4 DEF Preallocate, Downloading, rowVars
  <2> QED BY <1>1, <1>3, <2>1 DEF Settled, AllStored, Stored
<1>5. CASE CopyFile(j)
  <2>1. rows[f] = Total[f] /\ NameOf[f] \in onDisk
    BY <1>5 DEF CopyFile, KeptInv
  <2>2. \A i \in avail[f] : i \in Index /\ i \in ChunksOf(f)
    BY <1>1, <2>1 DEF ChunksOf
  <2>3. disk' = [disk EXCEPT ![NameOf[f]] =
                    [i \in Index |-> IF i \in ChunksOf(f) THEN f ELSE disk[NameOf[f]][i]]]
    BY <1>1, <1>5 DEF CopyFile
  <2>4. \A i \in avail[f] : disk'[NameOf[f]][i] = f
    BY <1>1, <2>2, <2>3
  <2>5. UNCHANGED <<fileRow, rows, avail, onDisk>>
    BY <1>5 DEF CopyFile, rowVars
  <2> QED BY <1>1, <1>3, <2>1, <2>4, <2>5 DEF Settled, AllStored, Stored
<1> QED BY <1>4, <1>5

\* An owner keeps its hash until the creation ends, or a fault ends it.
LEMMA OwnedStays ==
  ASSUME TypeInv, [Next]_vars, NEW j \in Jobs,
         job[j].st \in OwnerStates, ~Preallocate(j), ~CopyFile(j)
  PROVE  \/ job'[j].st \in OwnerStates /\ job'[j].file = job[j].file
         \/ job[j].file \in torn'
<1> USE LibraryAssumption DEF TypeInv, TypeOK, At, OwnerStates, Idle
<1>1. ASSUME NEW k \in Jobs, NEW f \in Files, DownloadSignal(k, f) \/ RegisterSignal(k, f)
      PROVE  job'[j] = job[j]
  BY <1>1 DEF DownloadSignal, RegisterSignal
<1>2. ASSUME NEW k \in Jobs, JobStep(k)
      PROVE  job'[j].st \in OwnerStates /\ job'[j].file = job[j].file
  <2>1. CASE k # j
    BY <1>2, <2>1 DEF JobStep, ClearOwnMap, CreateFile, CreateFileLost, CreateChunk,
       Preallocate, StartFileDownload, PeerListTimeout, RegisterChunk, CreateCopy, CopyFile,
       Announce
  <2>2. CASE k = j
    BY <1>2, <2>2 DEF JobStep, ClearOwnMap, CreateFile, CreateFileLost, CreateChunk,
       StartFileDownload, PeerListTimeout, RegisterChunk, CreateCopy, Announce
  <2> QED BY <2>1, <2>2
<1>3. ASSUME NEW f \in Files, ManagerDone(f) PROVE job' = job
  BY <1>3 DEF ManagerDone
<1>4. ASSUME NEW f \in Files, NEW i \in Index, RequestOneMissingChunk(f, i) PROVE job' = job
  BY <1>4 DEF RequestOneMissingChunk
<1>5. ASSUME NEW h \in Handlers, NEW f \in Files, NEW i \in Index, ReceiveChunk(h, f, i)
      PROVE  job' = job
  BY <1>5 DEF ReceiveChunk
<1>6. ASSUME NEW h \in Handlers, HandlerStep(h) PROVE job' = job
  BY <1>6 DEF HandlerStep, WriteChunkData, UpdateOwnMap, MarkChunkAvailable
<1>7. CASE UNCHANGED vars
  BY <1>7 DEF vars
<1>8. ASSUME NEW k \in Jobs, JobFails(k) PROVE job'[j] = job[j] \/ job[j].file \in torn'
  BY <1>8 DEF JobFails
<1>9. ASSUME NEW h \in Handlers, ResponseFails(h) PROVE job' = job
  BY <1>9 DEF ResponseFails
<1>10. CASE Crash
  <2>1. job[j].file \in Files /\ Owned(job[j].file)
    BY DEF Working, Owned
  <2> QED BY <1>10, <2>1 DEF Crash
<1> QED BY <1>1, <1>2, <1>3, <1>4, <1>5, <1>6, <1>7, <1>8, <1>9, <1>10 DEF Next

\* Where a job's state, the announced and the inserted hashes can come from.
LEMMA NewlyKept ==
  ASSUME TypeInv, [Next]_vars
  PROVE  /\ \A j \in Jobs : job'[j].st = "copy" => job'[j] = job[j] \/ CreateCopy(j)
         /\ \A j \in Jobs : job'[j].st = "announce" => job'[j] = job[j] \/ CopyFile(j)
         /\ \A f \in announced' \ announced :
               \/ \E j \in Jobs : job[j].st = "announce" /\ job[j].file = f
               \/ Crash /\ f \in fileRow
         /\ \A f \in fileRow' \ fileRow : Owned(f)'
<1> USE LibraryAssumption DEF TypeInv, TypeOK, At, OwnerStates, Idle
<1>1. ASSUME NEW k \in Jobs, NEW f \in Files, DownloadSignal(k, f)
      PROVE  /\ \A j \in Jobs : job'[j].st \in {"copy", "announce"} => job'[j] = job[j]
             /\ announced' = announced /\ fileRow' = fileRow
  BY <1>1 DEF DownloadSignal, rowVars
<1>2. ASSUME NEW k \in Jobs, NEW f \in Files, RegisterSignal(k, f)
      PROVE  /\ \A j \in Jobs : job'[j].st \in {"copy", "announce"} => job'[j] = job[j]
             /\ announced' = announced /\ fileRow' = fileRow \cup {f} /\ Owned(f)'
  BY <1>2 DEF RegisterSignal, Owned
<1>3. ASSUME NEW k \in Jobs, JobStep(k)
      PROVE  /\ \A j \in Jobs : job'[j].st = "copy" => job'[j] = job[j] \/ CreateCopy(j)
             /\ \A j \in Jobs : job'[j].st = "announce" => job'[j] = job[j] \/ CopyFile(j)
             /\ \A f \in announced' \ announced :
                   \E j \in Jobs : job[j].st = "announce" /\ job[j].file = f
             /\ \A f \in fileRow' \ fileRow : Owned(f)'
  <2>1. CASE CreateFile(k)
    BY <2>1 DEF CreateFile, Owned
  <2>2. CASE CreateChunk(k) \/ RegisterChunk(k)
    BY <2>2 DEF CreateChunk, RegisterChunk
  <2>3. CASE Preallocate(k) \/ StartFileDownload(k) \/ PeerListTimeout(k) \/ CreateFileLost(k)
    BY <2>3 DEF Preallocate, StartFileDownload, PeerListTimeout, CreateFileLost, rowVars
  <2>4. CASE CreateCopy(k)
    BY <2>4 DEF CreateCopy, rowVars
  <2>7. CASE CopyFile(k)
    <3>1. /\ UNCHANGED <<announced, fileRow>>
          /\ job'[k].st = "announce"
          /\ \A j \in Jobs : j # k => job'[j] = job[j]
      BY <2>7 DEF CopyFile, rowVars
    <3> QED BY <2>7, <3>1
  <2>5. CASE Announce(k)
    BY <2>5 DEF Announce, rowVars
  <2>6. CASE ClearOwnMap(k)
    BY <2>6 DEF ClearOwnMap, rowVars
  <2> QED BY <1>3, <2>1, <2>2, <2>3, <2>4, <2>5, <2>6, <2>7 DEF JobStep
<1>4. ASSUME NEW f \in Files, ManagerDone(f) PROVE UNCHANGED <<job, announced, fileRow>>
  BY <1>4 DEF ManagerDone, rowVars
<1>5. ASSUME NEW f \in Files, NEW i \in Index, RequestOneMissingChunk(f, i)
      PROVE  UNCHANGED <<job, announced, fileRow>>
  BY <1>5 DEF RequestOneMissingChunk, rowVars
<1>6. ASSUME NEW h \in Handlers, NEW f \in Files, NEW i \in Index, ReceiveChunk(h, f, i)
      PROVE  UNCHANGED <<job, announced, fileRow>>
  BY <1>6 DEF ReceiveChunk, rowVars
<1>7. ASSUME NEW h \in Handlers, HandlerStep(h) PROVE UNCHANGED <<job, announced, fileRow>>
  BY <1>7 DEF HandlerStep, WriteChunkData, UpdateOwnMap, MarkChunkAvailable, rowVars
<1>8. CASE UNCHANGED vars
  BY <1>8 DEF vars, rowVars
<1>9. ASSUME NEW k \in Jobs, JobFails(k)
      PROVE  /\ \A j \in Jobs : job'[j].st \in {"copy", "announce"} => job'[j] = job[j]
             /\ announced' = announced /\ fileRow' = fileRow
  BY <1>9 DEF JobFails, rowVars
<1>10. ASSUME NEW h \in Handlers, ResponseFails(h) PROVE UNCHANGED <<job, announced, fileRow>>
  BY <1>10 DEF ResponseFails, rowVars
<1>11. CASE Crash
  BY <1>11 DEF Crash, rowVars
<1> QED BY <1>1, <1>2, <1>3, <1>4, <1>5, <1>6, <1>7, <1>8, <1>9, <1>10, <1>11 DEF Next

LEMMA KeptNext ==
  ASSUME NamesDistinct, TypeInv, IInv, KeptInv, [Next]_vars
  PROVE  KeptInv'
<1>1. \A f \in Files : Settled(f) => Settled(f)'
  BY SettledStays
<1>2. /\ TypeInv' /\ IInv'
      /\ fileRow \subseteq Files /\ announced \subseteq Files
  BY TypeNext, IInvNext DEF TypeInv, TypeOK
<1>3. ASSUME NEW j \in Jobs, job'[j].st = "copy"
      PROVE  rows'[job'[j].file] = Total[job'[j].file] /\ NameOf[job'[j].file] \in onDisk'
  <2>1. CASE job'[j] = job[j]
    <3>1. PICK f \in Files : f = job[j].file
      BY <1>3, <2>1 DEF TypeInv, Working
    <3>2. rows[f] = Total[f] /\ NameOf[f] \in onDisk
      BY <1>3, <2>1, <3>1 DEF KeptInv
    <3>3. rows'[f] <= Total[f] /\ rows[f] <= rows'[f] /\ NameOf[f] \in onDisk'
      BY <1>2, <3>2, NothingLost DEF IInv, RowsFirst
    <3>4. rows'[f] \in Nat /\ Total[f] \in Nat
      BY <1>2, LibraryAssumption DEF TypeInv, TypeOK
    <3> QED BY <2>1, <3>1, <3>2, <3>3, <3>4
  <2>2. CASE CreateCopy(j)
    BY <2>2 DEF CreateCopy, TypeInv, TypeOK, At, rowVars
  <2> QED BY <1>3, <2>1, <2>2, NewlyKept
<1>4. ASSUME NEW j \in Jobs, job'[j].st = "announce"
      PROVE  Settled(job[j].file)'
  <2>1. PICK f : f = job'[j].file
    OBVIOUS
  <2>2. CASE job'[j] = job[j]
    <3>1. f \in Files
      BY <1>4, <2>1, <2>2 DEF TypeInv, Working
    <3> QED BY <1>1, <1>4, <2>1, <2>2, <3>1 DEF KeptInv
  <2>3. CASE CopyFile(j)
    <3>1. job[j].file = f
      BY <2>1, <2>3 DEF CopyFile, TypeInv, TypeOK, At
    <3>2. Settled(f)'
      BY <2>3, <3>1, OwnerEnds
    <3> QED BY <2>1, <3>2
  <2> QED BY <1>4, <2>2, <2>3, NewlyKept
<1>5. ASSUME NEW f \in announced' PROVE Settled(f)' \/ f \in torn'
  <2>1. CASE f \in announced
    BY <1>1, <1>2, <2>1, HistoryGrows DEF KeptInv
  <2>2. CASE \E j \in Jobs : job[j].st = "announce" /\ job[j].file = f
    <3>1. f \in Files /\ Settled(f)
      BY <2>2 DEF KeptInv, TypeInv, Working
    <3> QED BY <1>1, <3>1
  <2>3. CASE Crash /\ f \in fileRow
    <3>1. f \in Files /\ (Owned(f) => f \in torn')
      BY <1>2, <2>3 DEF Crash
    <3> QED BY <1>1, <2>3, <3>1, HistoryGrows DEF KeptInv
  <2> QED BY <2>1, <2>2, <2>3, NewlyKept
<1>6. ASSUME NEW f \in fileRow' PROVE Owned(f)' \/ Settled(f)' \/ f \in torn'
  <2>1. CASE f \notin fileRow
    BY <2>1, NewlyKept
  <2>2. CASE f \in fileRow /\ Settled(f)
    BY <1>1, <1>2, <2>2
  <2>3. CASE Owned(f)
    <3>1. PICK j \in Jobs : job[j].st \in OwnerStates /\ job[j].file = f
      BY <2>3 DEF Owned
    <3>2. CASE Preallocate(j) \/ CopyFile(j)
      BY <3>1, <3>2, OwnerEnds
    <3>3. CASE ~Preallocate(j) /\ ~CopyFile(j)
      BY <3>1, <3>3, OwnedStays DEF Owned
    <3> QED BY <3>2, <3>3
  <2>4. CASE f \in torn
    BY <2>4, HistoryGrows
  <2> QED BY <2>1, <2>2, <2>3, <2>4 DEF KeptInv
<1> QED BY <1>3, <1>4, <1>5, <1>6 DEF KeptInv

LEMMA KeptInit == Init => KeptInv
  BY DEF Init, KeptInv, Idle, At

(***************************************************************************)
(* What a node announces it can serve, when it registers a file and when   *)
(* it starts again: the copy is written before Announce, the preallocated  *)
(* file exists before any chunk is marked, and no other goroutine touches  *)
(* either.  Any number of jobs, responses, failed operations and crashes;  *)
(* only the files whose own creation one of them cut short are excepted.   *)
(***************************************************************************)
THEOREM AnnouncedServableHolds == NamesDistinct /\ Spec => []AnnouncedServable
<1> SUFFICES ASSUME NamesDistinct PROVE Spec => []AnnouncedServable
  OBVIOUS
<1>1. TypeInv /\ IInv /\ KeptInv /\ [Next]_vars => KeptInv'
  BY KeptNext
<1>2. TypeInv /\ IInv /\ [Next]_vars => IInv'
  BY IInvNext
<1>3. TypeInv /\ KeptInv => AnnouncedServable
  <2> SUFFICES ASSUME TypeInv, KeptInv, NEW f \in announced \ torn, NEW i \in avail[f]
               PROVE  Readable(f, i)
    BY DEF AnnouncedServable
  <2>1. NameOf[f] \in onDisk /\ disk[NameOf[f]][i] = f /\ f \in Files
    BY DEF KeptInv, Settled, AllStored, Stored, TypeInv, TypeOK
  <2> QED BY <2>1, LibraryAssumption DEF Readable
<1> QED BY <1>1, <1>2, <1>3, KeptInit, IInvInit, TypeInit, TypeNext, PTL DEF Spec

\* Where a job's state, the active and the reported hashes can come from.
LEMMA NewlyDone ==
  ASSUME TypeInv, [Next]_vars
  PROVE  /\ \A j \in Jobs : job'[j].st \in {"found", "peers"} =>
               \/ job'[j] = job[j]
               \/ /\ job[j] = Idle
                  /\ job'[j].file \in fileRow
                  /\ Owned(job'[j].file) => job'[j].file \in early'
               \/ job[j].st = "found" /\ job'[j].file = job[j].file
               \/ Preallocate(j)
               \/ CreateFileLost(j)
         /\ \A f \in active' \ active :
               \E j \in Jobs : job[j].st = "peers" /\ job[j].file = f
         /\ \A f \in reported' \ reported : f \in active /\ Missing(f) = {}
<1> USE LibraryAssumption DEF TypeInv, TypeOK, At, Idle
<1> DEFINE Goes(j) == job'[j].st \in {"found", "peers"} =>
               \/ job'[j] = job[j]
               \/ /\ job[j] = Idle
                  /\ job'[j].file \in fileRow
                  /\ Owned(job'[j].file) => job'[j].file \in early'
               \/ job[j].st = "found" /\ job'[j].file = job[j].file
               \/ Preallocate(j)
               \/ CreateFileLost(j)
<1>1. ASSUME NEW k \in Jobs, NEW f \in Files, DownloadSignal(k, f)
      PROVE  UNCHANGED <<active, reported>> /\ \A j \in Jobs : Goes(j)
  <2>1. /\ \A j \in Jobs : j # k => job'[j] = job[j]
        /\ job[k] = Idle
        /\ job'[k].file = f /\ (job'[k].st = "found" => f \in fileRow)
        /\ job'[k].st \in {"found", "absent"}
        /\ Owned(f) => f \in early'
    BY <1>1 DEF DownloadSignal, GoesOn
  <2> QED BY <1>1, <2>1 DEF DownloadSignal
<1>2. ASSUME NEW k \in Jobs, NEW f \in Files, RegisterSignal(k, f)
      PROVE  UNCHANGED <<active, reported>> /\ \A j \in Jobs : Goes(j)
  BY <1>2 DEF RegisterSignal
<1>3. ASSUME NEW k \in Jobs, JobStep(k)
      PROVE  /\ \A j \in Jobs : Goes(j)
             /\ \A f \in active' \ active :
                   \E j \in Jobs : job[j].st = "peers" /\ job[j].file = f
             /\ reported' = reported
  <2>1. CASE CreateFile(k) \/ RegisterChunk(k) \/ CreateCopy(k) \/ CopyFile(k) \/ Announce(k)
    BY <2>1 DEF CreateFile, RegisterChunk, CreateCopy, CopyFile, Announce
  <2>2. CASE CreateChunk(k) \/ Preallocate(k) \/ PeerListTimeout(k)
    BY <2>2 DEF CreateChunk, Preallocate, PeerListTimeout
  <2>3. CASE CreateFileLost(k)
    BY <2>3 DEF CreateFileLost
  <2>4. CASE StartFileDownload(k)
    BY <2>4 DEF StartFileDownload
  <2>5. CASE ClearOwnMap(k)
    <3>1. /\ job'[k].file = job[k].file
          /\ job'[k].st = "peers" => job[k].st = "found"
          /\ job'[k].st \in {"peers", "create"}
          /\ \A j \in Jobs : j # k => job'[j] = job[j]
      BY <2>5 DEF ClearOwnMap
    <3> QED BY <2>5, <3>1 DEF ClearOwnMap
  <2> QED BY <1>3, <2>1, <2>2, <2>3, <2>4, <2>5 DEF JobStep
<1>4. ASSUME NEW f \in Files, ManagerDone(f)
      PROVE  /\ UNCHANGED job /\ active' \subseteq active
             /\ reported' = reported \cup {f} /\ f \in active /\ Missing(f) = {}
  BY <1>4 DEF ManagerDone, IsDownloadComplete
<1>5. ASSUME NEW f \in Files, NEW i \in Index, RequestOneMissingChunk(f, i)
      PROVE  UNCHANGED <<job, active, reported>>
  BY <1>5 DEF RequestOneMissingChunk
<1>6. ASSUME NEW h \in Handlers, NEW f \in Files, NEW i \in Index, ReceiveChunk(h, f, i)
      PROVE  UNCHANGED <<job, active, reported>>
  BY <1>6 DEF ReceiveChunk
<1>7. ASSUME NEW h \in Handlers, HandlerStep(h) PROVE UNCHANGED <<job, active, reported>>
  BY <1>7 DEF HandlerStep, WriteChunkData, UpdateOwnMap, MarkChunkAvailable
<1>8. CASE UNCHANGED vars
  BY <1>8 DEF vars
<1>9. ASSUME NEW k \in Jobs, JobFails(k)
      PROVE  UNCHANGED <<active, reported>> /\ \A j \in Jobs : Goes(j)
  BY <1>9 DEF JobFails
<1>10. ASSUME NEW h \in Handlers, ResponseFails(h)
      PROVE  UNCHANGED <<job, active, reported>>
  BY <1>10 DEF ResponseFails
<1>11. CASE Crash
  BY <1>11 DEF Crash
<1> QED BY <1>1, <1>2, <1>3, <1>4, <1>5, <1>6, <1>7, <1>8, <1>9, <1>10, <1>11 DEF Next

LEMMA DoneNext ==
  ASSUME NamesDistinct, TypeInv, IInv, KeptInv, DoneInv, [Next]_vars
  PROVE  DoneInv'
<1> USE DEF TypeInv, TypeOK
<1>1. ASSUME NEW f \in Files, Settled(f) \/ Excused(f)
      PROVE  Settled(f)' \/ Excused(f)'
  <2>1. CASE Settled(f)
    BY <2>1, SettledStays
  <2>2. CASE Excused(f)
    BY <2>2, HistoryGrows DEF Excused
  <2> QED BY <1>1, <2>1, <2>2
<1>2. ASSUME NEW f \in Files, f \in fileRow, Owned(f) => f \in early'
      PROVE  Settled(f)' \/ Excused(f)'
  <2>1. CASE Owned(f)
    BY <1>2, <2>1 DEF Excused
  <2>2. CASE ~Owned(f)
    BY <1>1, <1>2, <2>2 DEF KeptInv, Excused
  <2> QED BY <2>1, <2>2
<1>3. ASSUME NEW j \in Jobs, job'[j].st \in {"found", "peers"}
      PROVE  Settled(job[j].file)' \/ Excused(job[j].file)'
  <2>1. PICK f : f = job'[j].file
    OBVIOUS
  <2>2. f \in Files
    BY <1>3, <2>1, TypeNext DEF Working
  <2> SUFFICES Settled(f)' \/ Excused(f)'
    BY <2>1 DEF Settled, Owned, AllStored, Stored, Excused
  <2>3. CASE job'[j] = job[j]
    <3>1. job[j].st \in {"found", "peers"} /\ job[j].file = f
      BY <1>3, <2>1, <2>3
    <3> QED BY <1>1, <2>2, <3>1 DEF DoneInv
  <2>4. CASE f \in fileRow /\ (Owned(f) => f \in early')
    BY <1>2, <2>2, <2>4
  <2>5. CASE job[j].st = "found" /\ f = job[j].file
    BY <1>1, <2>2, <2>5 DEF DoneInv
  <2>6. CASE Preallocate(j)
    <3>1. f = job[j].file
      BY <2>1, <2>6 DEF Preallocate, At
    <3> QED BY <2>6, <3>1, OwnerEnds
  <2>7. CASE CreateFileLost(j)
    <3>1. f = job[j].file /\ GoesOn(f)
      BY <1>3, <2>1, <2>7 DEF CreateFileLost, At, Idle
    <3>2. f \in fileRow /\ (Owned(f) => f \in early')
      BY <2>7, <3>1 DEF CreateFileLost, GoesOn
    <3> QED BY <1>2, <2>2, <3>2
  <2> QED BY <1>3, <2>1, <2>3, <2>4, <2>5, <2>6, <2>7, NewlyDone
<1>4. ASSUME NEW f \in active' PROVE Settled(f)' \/ Excused(f)'
  <2>1. CASE f \in active
    BY <1>1, <2>1 DEF DoneInv
  <2>2. CASE f \notin active
    <3>1. \E j \in Jobs : job[j].st = "peers" /\ job[j].file = f
      BY <2>2, NewlyDone
    <3>2. f \in Files /\ (Settled(f) \/ Excused(f))
      BY <3>1 DEF DoneInv, Working
    <3> QED BY <1>1, <3>2
  <2> QED BY <2>1, <2>2
<1>5. ASSUME NEW f \in reported'
      PROVE  (Settled(f)' /\ avail'[f] = ChunksOf(f)) \/ Excused(f)'
  <2>1. f \in Files /\ (Excused(f) \/ (Settled(f) /\ ChunksOf(f) \subseteq avail[f]))
    <3>1. CASE f \in reported
      BY <3>1 DEF DoneInv
    <3>2. CASE f \notin reported
      <4>1. f \in active /\ Missing(f) = {}
        BY <3>2, NewlyDone
      <4>2. f \in Files /\ (Settled(f) \/ Excused(f))
        BY <4>1 DEF DoneInv
      <4> QED BY <4>1, <4>2 DEF Settled, Missing, ChunksOf
    <3> QED BY <3>1, <3>2
  <2>2. CASE Excused(f)
    BY <2>2, HistoryGrows DEF Excused
  <2>3. CASE Settled(f) /\ ChunksOf(f) \subseteq avail[f]
    <3>1. Settled(f)' /\ avail[f] \subseteq avail'[f]
      BY <2>1, <2>3, SettledStays, NothingLost
    <3>2. avail'[f] \subseteq 0..(rows'[f] - 1)
      BY <2>1, IInvNext DEF IInv, RowsFirst
    <3> QED BY <2>3, <3>1, <3>2 DEF Settled, ChunksOf
  <2> QED BY <2>1, <2>2, <2>3
<1> QED BY <1>3, <1>4, <1>5 DEF DoneInv

LEMMA DoneInit == Init => DoneInv
  BY DEF Init, DoneInv, Idle, At

(***************************************************************************)
(* "done" is told to the CLI only when every chunk the .p2p file lists is  *)
(* marked and stored, whatever the peers answer and however often, with    *)
(* any number of CLI connections, crashes and failed operations.  The      *)
(* hashes excepted are those whose own rows a fault left unfinished, and   *)
(* those a signal went on with while another goroutine was still creating  *)
(* them: a second CLI connection, or a fault, does no harm to any other.   *)
(***************************************************************************)
THEOREM ReportedCompleteHolds == NamesDistinct /\ Spec => []ReportedComplete
<1> SUFFICES ASSUME NamesDistinct PROVE Spec => []ReportedComplete
  OBVIOUS
<1>1. TypeInv /\ IInv /\ KeptInv /\ [Next]_vars => KeptInv'
  BY KeptNext
<1>2. TypeInv /\ IInv /\ [Next]_vars => IInv'
  BY IInvNext
<1>3. TypeInv /\ IInv /\ KeptInv /\ DoneInv /\ [Next]_vars => DoneInv'
  BY DoneNext
<1>4. DoneInv => ReportedComplete
  BY DEF DoneInv, ReportedComplete, Whole, Excused, Settled, AllStored, Stored
<1> QED BY <1>1, <1>2, <1>3, <1>4, DoneInit, KeptInit, IInvInit, TypeInit, TypeNext, PTL
       DEF Spec
=============================================================================
