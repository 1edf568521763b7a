------------------------------ MODULE Transfer ------------------------------
(***************************************************************************)
(* One file, byte by byte, from its registration to a finished download:   *)
(* the chunk loop of handleRegisterSignal, the .p2p file that              *)
(* GenerateP2PFile writes line by line and ParseP2PFile reads back, the    *)
(* rows and the preallocated file of the downloader, the choice of the     *)
(* next chunk, and the arithmetic of offsets when a chunk is read from one *)
(* file and written to the other.                                          *)
(*                                                                         *)
(* The .p2p file may be read before all its lines are written, as after a  *)
(* crash.  Library has the faults of the rows and maps, Swarm the peers.   *)
(*                                                                         *)
(* A string is the sequence of its parts between colons, which is what     *)
(* strings.Split makes of it; a number and its text are the number.  A     *)
(* hash is what was hashed.                                                *)
(***************************************************************************)
EXTENDS Naturals, Sequences, SequencesExt

CONSTANTS
    Sizes,      \* sizes of the file
    ChunkSizes, \* values for maxChunkSize (32 KiB in the code)
    Names,      \* names of the file
    NoText,     \* the empty string, of a field that was not read
    NoFile

\* ParserFile, with every line of its header read, and its chunks.
ParserChunks == [index : Nat, hash : Seq(Nat), size : Nat]
ParserFiles == [name : Seq(STRING), hash : Seq(Nat), size : Nat, maxChunkSize : Nat, totalChunks : Nat,
                chunks : Seq(ParserChunks)]

ASSUME TransferAssumption ==
    /\ Sizes \subseteq Nat /\ ChunkSizes \subseteq Nat \ {0}
    /\ \A name \in Names : name \in Seq(STRING) /\ name # <<>>
    /\ NoFile \notin Seq(Nat) /\ NoFile \notin ParserFiles

VARIABLES
    data,           \* the bytes of the file
    maxChunkSize,
    fileName,
    reading,        \* where handleRegisterSignal is
    seedRows,       \* chunk rows of the node that registers
    seedFile,       \* its copy of the file
    p2p,            \* lines of the .p2p file
    parserFile,     \* what the downloader parsed, NoFile before
    rows,           \* its chunk rows, in the order of their index
    disk,           \* its file
    requests,       \* indexes requested
    responses       \* chunks sent back

inputs == <<data, maxChunkSize, fileName>>
seedVars == <<reading, seedRows, seedFile, p2p>>
vars == <<inputs, seedVars, parserFile, rows, disk, requests, responses>>

Zero == 0
Least(m, n) == IF m < n THEN m ELSE n
Most(m, n) == IF m < n THEN n ELSE m

Init ==
    /\ data \in {[i \in 1..n |-> i] : n \in Sizes}
    /\ maxChunkSize \in ChunkSizes
    /\ fileName \in Names
    /\ reading = "rows"
    /\ seedRows = <<>>
    /\ seedFile = NoFile
    /\ p2p = <<>>
    /\ parserFile = NoFile
    /\ rows = <<>>
    /\ disk = NoFile
    /\ requests = {}
    /\ responses = {}

-----------------------------------------------------------------------------
(***************************************************************************)
(* Arithmetic of chunks and files                                          *)
(***************************************************************************)

\* Mutant: a last chunk even when there is nothing left for it.
CalculateTotalChunksPlus(fileSize, chunkSize) == fileSize \div chunkSize + 1

CalculateTotalChunks(fileSize, chunkSize) == (fileSize + chunkSize - 1) \div chunkSize

\* Mutant: every chunk is read in full length.
ReadChunkDataFull(file, index, size) ==
    IF (index + 1) * maxChunkSize <= Len(file)
    THEN SubSeq(file, index * maxChunkSize + 1, (index + 1) * maxChunkSize) ELSE NoFile

\* io.ReaderAt fails when fewer bytes are left.
ReadChunkData(file, index, size) ==
    IF index * maxChunkSize + size <= Len(file)
    THEN SubSeq(file, index * maxChunkSize + 1, index * maxChunkSize + size) ELSE NoFile

\* io.WriterAt: bytes past the end make the file longer, with zeros in between.
WriteAt(file, bytes, offset) ==
    [i \in 1..Most(Len(file), offset + Len(bytes)) |->
        IF i \in (offset + 1)..(offset + Len(bytes)) THEN bytes[i - offset]
        ELSE IF i <= Len(file) THEN file[i] ELSE Zero]

\* Mutant: the offset is counted in chunks of the size of this one.
WriteChunkDataOwnSize(file, index, bytes) == WriteAt(file, bytes, index * Len(bytes))

WriteChunkData(file, index, bytes) == WriteAt(file, bytes, index * maxChunkSize)

\* A byte is written at the last position, if there is one.
CreatePreallocatedFile(size) == [i \in 1..size |-> Zero]

-----------------------------------------------------------------------------
(***************************************************************************)
(* The .p2p file                                                           *)
(***************************************************************************)

ParserChunk(index, hash, size) == [index |-> index, hash |-> hash, size |-> size]

\* What handleRegisterSignal collects for the .p2p file.
Registered ==
    [name |-> fileName, hash |-> data, size |-> Len(data), maxChunkSize |-> maxChunkSize,
     totalChunks |-> CalculateTotalChunks(Len(data), maxChunkSize),
     chunks |-> [i \in 1..Len(seedRows) |->
                   ParserChunk(seedRows[i].index,
                               SubSeq(data, (i - 1) * maxChunkSize + 1,
                                      (i - 1) * maxChunkSize + seedRows[i].size),
                               seedRows[i].size)]]

\* GenerateP2PFile: a key, a colon and a value, which may hold colons itself;
\* hash and size of a chunk are parted by a bar.
Lines(pf) ==
    << <<"fileName">> \o pf.name, <<"fileHash", pf.hash>>, <<"fileSize", pf.size>>,
       <<"maxChunkSize", pf.maxChunkSize>>, <<"totalChunks", pf.totalChunks>> >>
    \o [i \in 1..Len(pf.chunks) |->
          <<pf.chunks[i].index, <<pf.chunks[i].hash, pf.chunks[i].size>> >>]

\* strings.Split(line, ":")[1] of a line by its number.
Value(lines, k) == IF k <= Len(lines) THEN lines[k][2] ELSE NoText

\* Mutant: one header line more is expected.
ParseP2PFileLate(lines) ==
    [name |-> <<Value(lines, 1)>>, hash |-> Value(lines, 2), size |-> Value(lines, 3),
     maxChunkSize |-> Value(lines, 4), totalChunks |-> Value(lines, 5),
     chunks |-> [i \in 1..Most(0, Most(Len(lines), 6) - 6) |->
                   ParserChunk(lines[i + 6][1], lines[i + 6][2][1], lines[i + 6][2][2])]]

ParseP2PFile(lines) ==
    [name |-> <<Value(lines, 1)>>, hash |-> Value(lines, 2), size |-> Value(lines, 3),
     maxChunkSize |-> Value(lines, 4), totalChunks |-> Value(lines, 5),
     chunks |-> [i \in 1..(Most(Len(lines), 5) - 5) |->
                   ParserChunk(lines[i + 5][1], lines[i + 5][2][1], lines[i + 5][2][2])]]

-----------------------------------------------------------------------------
(***************************************************************************)
(* handleRegisterSignal                                                    *)
(***************************************************************************)

\* file.Read fills the buffer or reads what is left.
RegisterChunk ==
    LET offset == Len(seedRows) * maxChunkSize
        size == Least(maxChunkSize, Len(data) - offset)
    IN /\ reading = "rows" /\ offset < Len(data)
       /\ seedRows' = Append(seedRows, [index |-> Len(seedRows), size |-> size])
       /\ UNCHANGED <<inputs, reading, seedFile, p2p, parserFile, rows, disk, requests, responses>>

\* Nothing is left: the file is copied and the .p2p file created.
CopyFile ==
    /\ reading = "rows" /\ Len(seedRows) * maxChunkSize >= Len(data)
    /\ reading' = "lines"
    /\ seedFile' = data
    /\ UNCHANGED <<inputs, seedRows, p2p, parserFile, rows, disk, requests, responses>>

GenerateLine ==
    /\ reading = "lines" /\ Len(p2p) < Len(Lines(Registered))
    /\ p2p' = Append(p2p, Lines(Registered)[Len(p2p) + 1])
    /\ UNCHANGED <<inputs, reading, seedRows, seedFile, parserFile, rows, disk, requests, responses>>

Generated == reading = "lines" /\ p2p = Lines(Registered)

-----------------------------------------------------------------------------
(***************************************************************************)
(* The download                                                            *)
(***************************************************************************)

\* handleDownloadSignal: rows for the chunk lines, and a file of an eighth of
\* the size.  Without the size or the number of chunks it returns.
DownloadSignal ==
    LET pf == ParseP2PFile(p2p) IN
    /\ reading = "lines" /\ parserFile = NoFile
    /\ pf.size # NoText /\ pf.totalChunks # NoText
    /\ parserFile' = pf
    /\ rows' = [i \in 1..Len(pf.chunks) |->
                  [index |-> pf.chunks[i].index, available |-> FALSE]]
    /\ disk' = CreatePreallocatedFile(pf.size \div 8)
    /\ UNCHANGED <<inputs, seedVars, requests, responses>>

\* Mutant: the position is counted from one.
FindMissingChunkIndexFromOne == SelectInSeq(rows, LAMBDA r : ~r.available)

\* The position of the first row that is not available, counted from zero.
FindMissingChunkIndex == SelectInSeq(rows, LAMBDA r : ~r.available) - 1

IsDownloadComplete == parserFile # NoFile /\ \A i \in DOMAIN rows : rows[i].available

\* A tick of the manager asks for the chunk of that number.
RequestOneMissingChunk ==
    /\ parserFile # NoFile /\ ~IsDownloadComplete
    /\ requests' = requests \cup {FindMissingChunkIndex}
    /\ requests' # requests
    /\ UNCHANGED <<inputs, seedVars, parserFile, rows, disk, responses>>

\* The other node reads the chunk of its row, or does not answer.
HandleChunkRequest(index) ==
    /\ index \in requests
    /\ requests' = requests \ {index}
    /\ LET i == SelectInSeq(seedRows, LAMBDA r : r.index = index)
           bytes == IF i = 0 THEN NoFile ELSE ReadChunkData(seedFile, index, seedRows[i].size)
       IN \/ bytes # NoFile /\ responses' = responses \cup {[index |-> index, bytes |-> bytes]}
          \/ bytes = NoFile /\ UNCHANGED responses
    /\ UNCHANGED <<inputs, seedVars, parserFile, rows, disk>>

\* The chunk is written and its row marked, again when the request was repeated.
HandleChunkResponse(r) ==
    /\ r \in responses
    /\ disk' = WriteChunkData(disk, r.index, r.bytes)
    /\ rows' = [i \in DOMAIN rows |-> IF rows[i].index = r.index
                                      THEN [rows[i] EXCEPT !.available = TRUE] ELSE rows[i]]
    /\ responses' = responses \ {r}
    /\ UNCHANGED <<inputs, seedVars, parserFile, requests>>

-----------------------------------------------------------------------------
Next ==
    \/ RegisterChunk \/ CopyFile \/ GenerateLine
    \/ DownloadSignal \/ RequestOneMissingChunk
    \/ \E index \in requests : HandleChunkRequest(index)
    \/ \E r \in responses : HandleChunkResponse(r)

Spec == Init /\ [][Next]_vars

\* The manager ticks, and connected nodes answer and are heard.
FairSpec ==
    /\ Spec
    /\ WF_vars(RequestOneMissingChunk)
    /\ WF_vars(\E index \in requests : HandleChunkRequest(index))
    /\ WF_vars(\E r \in responses : HandleChunkResponse(r))

-----------------------------------------------------------------------------
(***************************************************************************)
(* Properties                                                              *)
(***************************************************************************)

\* Every variable has its type.  The downloader asks by a position among its
\* rows and the other node looks an index up: every request names a chunk that
\* exists, also when only some chunk lines were read.
TypeOK ==
    /\ data \in Seq(Nat) /\ maxChunkSize \in ChunkSizes /\ fileName \in Names
    /\ reading \in {"rows", "lines"}
    /\ seedRows \in Seq([index : Nat, size : 1..maxChunkSize])
    /\ seedFile \in {NoFile, data}
    /\ parserFile \in ParserFiles \cup {NoFile}
    /\ rows \in Seq([index : Nat, available : BOOLEAN])
    /\ disk \in Seq(Nat) \cup {NoFile} /\ (disk = NoFile <=> parserFile = NoFile)
    /\ requests \subseteq {seedRows[i].index : i \in DOMAIN seedRows}
    /\ \A r \in responses : r.index \in Nat /\ Len(r.bytes) <= maxChunkSize

(***************************************************************************)
(* The number of chunks computed from the size is the number the reading   *)
(* loop finds, and the chunks together are the file: for an empty file,    *)
(* for a size that is a multiple of the chunk size, and around it.         *)
(***************************************************************************)
ChunksAgree ==
    reading = "lines" =>
       /\ Registered.totalChunks = Len(seedRows)
       /\ FlattenSeq([i \in DOMAIN seedRows |-> Registered.chunks[i].hash]) = data

(***************************************************************************)
(* Of a .p2p file that was written to its end, ParseP2PFile returns what   *)
(* GenerateP2PFile was given, name and chunks included (parser.go:15-27).  *)
(* A name with a colon is left out: it is cut at the colon.                *)
(***************************************************************************)
Inverts == Generated /\ Len(fileName) = 1 => parserFile' = Registered

ParseInverts == [][parserFile' # parserFile => Inverts]_vars

(***************************************************************************)
(* A row that is available has its bytes in their place, whatever order    *)
(* and number the responses come in.  When all rows of a .p2p file that    *)
(* was read to its end are available, the downloaded file is the           *)
(* registered file and not longer: the preallocation leaves nothing behind.*)
(***************************************************************************)
BytesInPlace ==
    /\ \A i \in DOMAIN rows :
          rows[i].available =>
             LET first == rows[i].index * maxChunkSize + 1
                 last == rows[i].index * maxChunkSize + parserFile.chunks[i].size
             IN last <= Len(disk) /\ SubSeq(disk, first, last) = SubSeq(data, first, last)
    /\ IsDownloadComplete /\ Len(rows) = parserFile.totalChunks => disk = data

(***************************************************************************)
(* From a .p2p file read to its end the file is downloaded in the end: no  *)
(* chunk, and not the short last one, is refused for ever.                 *)
(***************************************************************************)
TransferEnds ==
    (parserFile # NoFile /\ Len(rows) = parserFile.totalChunks) ~> (disk = data)
=============================================================================
