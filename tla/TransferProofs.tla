--------------------------- MODULE TransferProofs ---------------------------
(***************************************************************************)
(* Proofs about Transfer for files and chunks of any size.                 *)
(***************************************************************************)
EXTENDS Transfer, TLAPS, SequenceTheorems, WellFoundedInduction

-----------------------------------------------------------------------------
(***************************************************************************)
(* Arithmetic                                                              *)
(***************************************************************************)

LEMMA Monotone ==
  ASSUME NEW a \in Nat, NEW b \in Nat, NEW c \in Nat, a <= b
  PROVE  a * c <= b * c
  OBVIOUS

LEMMA QuotientIs ==
  ASSUME NEW a \in Nat, NEW b \in Nat \ {0}, NEW q \in Nat, q * b <= a, a < (q + 1) * b
  PROVE  a \div b = q
  OBVIOUS

LEMMA QuotientBounds ==
  ASSUME NEW a \in Nat, NEW b \in Nat \ {0}
  PROVE  a \div b \in Nat /\ (a \div b) * b <= a /\ a < (a \div b + 1) * b
  OBVIOUS

LEMMA NextMultiple ==
  ASSUME NEW a \in Nat, NEW c \in Nat
  PROVE  a * c \in Nat /\ (a + 1) * c = a * c + c
  OBVIOUS

\* A set of natural numbers that is not empty has a least member.
LEMMA LeastOf ==
  ASSUME NEW T, T \subseteq Nat, T # {}
  PROVE  \E x \in T : \A y \in T : x <= y
<1>1. PICK x \in T : \A y \in T : ~ (<<y, x>> \in OpToRel(<, Nat))
  BY NatLessThanWellFounded, WFMin
<1>2. \A y \in T : ~(y < x)
  BY <1>1 DEF OpToRel
<1> QED BY <1>2

\* What SelectInSeq returns for the numbers of the places in question.
LEMMA MinIs ==
  ASSUME NEW T, T \subseteq Nat, T # {}
  PROVE  Min(T) \in T /\ \A y \in T : Min(T) <= y
  BY LeastOf DEF Min

\* A part of a sequence by the place before it and its length.
LEMMA SliceIs ==
  ASSUME NEW s \in Seq(Nat), NEW from \in Nat, NEW size \in Nat, from + size <= Len(s)
  PROVE  /\ SubSeq(s, from + 1, from + size) \in Seq(Nat)
         /\ Len(SubSeq(s, from + 1, from + size)) = size
         /\ \A b \in 1..size : SubSeq(s, from + 1, from + size)[b] = s[from + b]
<1>1. \A b \in (from + 1)..(from + size) : b \in 1..Len(s) /\ s[b] \in Nat
  OBVIOUS
<1>2. PICK m \in Int, n \in Int : m = from + 1 /\ n = from + size
  OBVIOUS
<1>3. /\ SubSeq(s, m, n) \in Seq(Nat)
      /\ Len(SubSeq(s, m, n)) = IF m <= n THEN n - m + 1 ELSE 0
      /\ \A b \in 1..(n - m + 1) : SubSeq(s, m, n)[b] = s[m + b - 1]
  BY <1>1, <1>2, SubSeqProperties
<1>4. n - m + 1 = size /\ \A b \in 1..size : m + b - 1 = from + b
  BY <1>2
<1>5. Len(SubSeq(s, m, n)) = size
  BY <1>2, <1>3, <1>4
<1> QED BY <1>2, <1>3, <1>4, <1>5

-----------------------------------------------------------------------------
(***************************************************************************)
(* The inductive invariant                                                 *)
(***************************************************************************)

Inputs ==
    /\ data \in Seq(Nat)
    /\ maxChunkSize \in ChunkSizes /\ maxChunkSize \in Nat \ {0}
    /\ fileName \in Names

\* Where the chunk of row i begins and ends in the file.
Before(i) == (i - 1) * maxChunkSize
End(i) == Before(i) + seedRows[i].size

\* The rows cut the file into chunks that follow one another.
Cut ==
    /\ seedRows \in Seq([index : Nat, size : 1..maxChunkSize])
    /\ \A i \in 1..Len(seedRows) :
          /\ seedRows[i].index = i - 1
          /\ Before(i) < Len(data)
          /\ seedRows[i].size = Least(maxChunkSize, Len(data) - Before(i))

Read ==
    /\ reading \in {"rows", "lines"}
    /\ reading = "rows" => seedFile = NoFile /\ p2p = <<>> /\ parserFile = NoFile
    /\ reading = "lines" => seedFile = data /\ Len(seedRows) * maxChunkSize >= Len(data)

\* The chunk of row i, its lines and the lines before them.
ChunkOf(i) == ParserChunk(i - 1, SubSeq(data, Before(i) + 1, End(i)), seedRows[i].size)
ChunkLine(i) == <<i - 1, <<SubSeq(data, Before(i) + 1, End(i)), seedRows[i].size>> >>
Total == CalculateTotalChunks(Len(data), maxChunkSize)
Header == << <<"fileName">> \o fileName, <<"fileHash", data>>, <<"fileSize", Len(data)>>,
             <<"maxChunkSize", maxChunkSize>>, <<"totalChunks", Total>> >>

\* The .p2p file so far.
Written ==
    /\ Len(p2p) \in Nat /\ Len(p2p) <= 5 + Len(seedRows)
    /\ p2p = [i \in 1..Len(p2p) |-> IF i <= 5 THEN Header[i] ELSE ChunkLine(i - 5)]

\* What the downloader made of the first lines of it.
Parsed(m) ==
    [name |-> <<Head(fileName)>>, hash |-> data, size |-> Len(data), maxChunkSize |-> maxChunkSize,
     totalChunks |-> Total, chunks |-> [i \in 1..m |-> ChunkOf(i)]]

Loaded ==
    \/ parserFile = NoFile /\ disk = NoFile /\ rows = <<>> /\ requests = {} /\ responses = {}
    \/ /\ reading = "lines"
       /\ rows \in Seq([index : Nat, available : BOOLEAN]) /\ Len(rows) <= Len(seedRows)
       /\ parserFile = Parsed(Len(rows))
       /\ \A i \in 1..Len(rows) : rows[i].index = i - 1
       /\ disk \in Seq(Nat) /\ Len(disk) <= Len(data)
       /\ requests \subseteq {i - 1 : i \in 1..Len(seedRows)}
       /\ \A r \in responses :
             \E i \in 1..Len(seedRows) : r = [index |-> i - 1, bytes |-> SubSeq(data, Before(i) + 1, End(i))]

\* A row that is available has its bytes in their place.
Placed ==
    \A i \in 1..Len(rows) :
        rows[i].available => End(i) <= Len(disk) /\ \A b \in (Before(i) + 1)..End(i) : disk[b] = data[b]

IInv == Inputs /\ Cut /\ Read /\ Written /\ Loaded /\ Placed

-----------------------------------------------------------------------------
(***************************************************************************)
(* Chunks and lines                                                        *)
(***************************************************************************)

LEMMA SizesAre ==
  ASSUME Inputs
  PROVE  Len(data) \in Nat /\ maxChunkSize \in Nat \ {0}
  BY DEF Inputs

LEMMA RowsAre ==
  ASSUME Cut
  PROVE  Len(seedRows) \in Nat
<1>1. seedRows \in Seq([index : Nat, size : 1..maxChunkSize])
  BY DEF Cut
<1> QED BY <1>1, LenProperties

\* The place of a chunk in the file.
LEMMA PlaceOf ==
  ASSUME Inputs, Cut, NEW i \in 1..Len(seedRows)
  PROVE  /\ Len(seedRows) \in Nat /\ i \in Nat /\ i - 1 \in Nat
         /\ seedRows[i].index = i - 1 /\ seedRows[i].size \in 1..maxChunkSize
         /\ Before(i) \in Nat /\ End(i) \in Nat
         /\ Before(i) < End(i) /\ End(i) <= Len(data) /\ End(i) <= i * maxChunkSize
         /\ End(i) = i * maxChunkSize \/ End(i) = Len(data)
<1>1. /\ Len(seedRows) \in Nat /\ i \in Nat /\ i - 1 \in Nat
      /\ seedRows[i].index = i - 1 /\ seedRows[i].size \in 1..maxChunkSize
      /\ Before(i) < Len(data) /\ seedRows[i].size = Least(maxChunkSize, Len(data) - Before(i))
  <2>1. seedRows \in Seq([index : Nat, size : 1..maxChunkSize])
    BY DEF Cut
  <2>2. seedRows[i] \in [index : Nat, size : 1..maxChunkSize] /\ Len(seedRows) \in Nat
    BY <2>1, ElementOfSeq, LenProperties
  <2> QED BY <2>2 DEF Cut
<1>2. Before(i) \in Nat /\ i * maxChunkSize = Before(i) + maxChunkSize
  <2>1. PICK j \in Nat : j = i - 1 /\ i = j + 1
    BY <1>1
  <2>2. j * maxChunkSize \in Nat /\ (j + 1) * maxChunkSize = j * maxChunkSize + maxChunkSize
    BY NextMultiple, SizesAre
  <2> QED BY <2>1, <2>2 DEF Before
<1>3. End(i) = Before(i) + seedRows[i].size
  BY DEF End
<1>4. End(i) = Before(i) + maxChunkSize \/ End(i) = Len(data)
  BY <1>1, <1>2, <1>3, SizesAre DEF Least
<1>5. End(i) <= Len(data)
  BY <1>1, <1>2, <1>3, SizesAre DEF Least
<1> QED BY <1>1, <1>2, <1>3, <1>4, <1>5, SizesAre

LEMMA ChunkBytes ==
  ASSUME Inputs, Cut, NEW i \in 1..Len(seedRows)
  PROVE  /\ SubSeq(data, Before(i) + 1, End(i)) \in Seq(Nat)
         /\ Len(SubSeq(data, Before(i) + 1, End(i))) = seedRows[i].size
         /\ \A b \in 1..seedRows[i].size :
               SubSeq(data, Before(i) + 1, End(i))[b] = data[Before(i) + b]
<1>1. PICK from \in Nat, size \in Nat : /\ from = Before(i) /\ size = seedRows[i].size
                                        /\ End(i) = from + size /\ from + size <= Len(data)
  BY PlaceOf, SizesAre DEF End
<1>2. data \in Seq(Nat)
  BY DEF Inputs
<1>3. /\ SubSeq(data, from + 1, from + size) \in Seq(Nat)
      /\ Len(SubSeq(data, from + 1, from + size)) = size
      /\ \A b \in 1..size : SubSeq(data, from + 1, from + size)[b] = data[from + b]
  BY <1>1, <1>2, SliceIs
<1> QED BY <1>1, <1>3

LEMMA RegisteredIs ==
  ASSUME Inputs, Cut
  PROVE  Registered = [name |-> fileName, hash |-> data, size |-> Len(data), maxChunkSize |-> maxChunkSize,
                       totalChunks |-> Total, chunks |-> [i \in 1..Len(seedRows) |-> ChunkOf(i)]]
<1>1. \A i \in 1..Len(seedRows) : seedRows[i].index = i - 1
  BY DEF Cut
<1>2. [i \in 1..Len(seedRows) |->
         ParserChunk(seedRows[i].index,
                     SubSeq(data, (i - 1) * maxChunkSize + 1, (i - 1) * maxChunkSize + seedRows[i].size),
                     seedRows[i].size)] = [i \in 1..Len(seedRows) |-> ChunkOf(i)]
  BY <1>1 DEF ChunkOf, Before, End
<1> QED BY <1>2 DEF Registered, Total

LEMMA LinesAre ==
  ASSUME Inputs, Cut
  PROVE  /\ Len(Lines(Registered)) = 5 + Len(seedRows)
         /\ \A i \in 1..(5 + Len(seedRows)) :
               Lines(Registered)[i] = IF i <= 5 THEN Header[i] ELSE ChunkLine(i - 5)
<1> DEFINE chunkLines == [i \in 1..Len(seedRows) |-> ChunkLine(i)]
           Every == {Header[i] : i \in 1..5} \cup {ChunkLine(i) : i \in 1..Len(seedRows)}
<1>1. Len(seedRows) \in Nat
  BY DEF Cut
<1>2. Registered.chunks = [i \in 1..Len(seedRows) |-> ChunkOf(i)] /\ Len(Registered.chunks) = Len(seedRows)
  BY <1>1, RegisteredIs
<1>3. [i \in 1..Len(Registered.chunks) |->
         <<Registered.chunks[i].index, <<Registered.chunks[i].hash, Registered.chunks[i].size>> >>] = chunkLines
  <2>1. \A i \in 1..Len(seedRows) : /\ ChunkOf(i).index = i - 1 /\ ChunkOf(i).size = seedRows[i].size
                                    /\ ChunkOf(i).hash = SubSeq(data, Before(i) + 1, End(i))
    BY DEF ChunkOf, ParserChunk
  <2>2. \A i \in 1..Len(seedRows) :
           <<Registered.chunks[i].index, <<Registered.chunks[i].hash, Registered.chunks[i].size>> >> = ChunkLine(i)
    BY <1>2, <2>1 DEF ChunkLine
  <2> QED BY <1>2, <2>2
<1>4. Lines(Registered) = Header \o chunkLines
  <2>1. << <<"fileName">> \o Registered.name, <<"fileHash", Registered.hash>>, <<"fileSize", Registered.size>>,
           <<"maxChunkSize", Registered.maxChunkSize>>, <<"totalChunks", Registered.totalChunks>> >> = Header
    BY RegisteredIs DEF Header
  <2> QED BY <1>3, <2>1 DEF Lines
<1>5. chunkLines \in Seq(Every) /\ Len(chunkLines) = Len(seedRows)
  BY <1>1
<1>6. Header \in Seq(Every) /\ Len(Header) = 5
  <2>1. Len(Header) = 5 /\ Header = [i \in 1..5 |-> Header[i]]
    BY DEF Header
  <2> QED BY <2>1
<1>7. /\ Len(Header \o chunkLines) = 5 + Len(seedRows)
      /\ \A i \in 1..(5 + Len(seedRows)) :
            (Header \o chunkLines)[i] = IF i <= 5 THEN Header[i] ELSE chunkLines[i - 5]
  <2>1. PICK h, l : h = Header /\ l = chunkLines
    OBVIOUS
  <2>2. /\ Len(h \o l) = Len(h) + Len(l)
        /\ \A i \in 1..(Len(h) + Len(l)) : (h \o l)[i] = IF i <= Len(h) THEN h[i] ELSE l[i - Len(h)]
    BY <1>5, <1>6, <2>1, ConcatProperties
  <2> QED BY <1>5, <1>6, <2>1, <2>2
<1>8. \A i \in 1..(5 + Len(seedRows)) : i > 5 => chunkLines[i - 5] = ChunkLine(i - 5)
  BY <1>1
<1> QED BY <1>1, <1>4, <1>7, <1>8

-----------------------------------------------------------------------------
(***************************************************************************)
(* What a step leaves alone                                                *)
(***************************************************************************)

LEMMA CutStays ==
  ASSUME Inputs, Cut, UNCHANGED <<inputs, seedRows>>
  PROVE  Inputs' /\ Cut'
  BY DEF inputs, Inputs, Cut, Before

LEMMA ReadStays ==
  ASSUME Read, UNCHANGED <<inputs, seedVars>>, reading = "rows" => UNCHANGED parserFile
  PROVE  Read'
  BY DEF inputs, seedVars, Read

LEMMA WrittenStays ==
  ASSUME Written, UNCHANGED <<inputs, seedRows, p2p>>
  PROVE  Written'
<1>1. /\ UNCHANGED <<data, maxChunkSize, fileName, seedRows, p2p>>
      /\ Header' = Header /\ \A i : ChunkLine(i)' = ChunkLine(i)
  BY DEF inputs, Header, Total, CalculateTotalChunks, ChunkLine, Before, End
<1>2. /\ Len(p2p') \in Nat /\ Len(p2p') <= 5 + Len(seedRows')
      /\ p2p' = [i \in 1..Len(p2p') |-> IF i <= 5 THEN Header'[i] ELSE ChunkLine(i - 5)']
  BY <1>1 DEF Written
<1> QED BY <1>2 DEF Written

\* No line yet.
LEMMA NothingWritten ==
  ASSUME Len(seedRows) \in Nat, p2p = <<>>
  PROVE  Written
<1>1. Len(p2p) = 0 /\ p2p = [i \in 1..0 |-> IF i <= 5 THEN Header[i] ELSE ChunkLine(i - 5)]
  OBVIOUS
<1> QED BY <1>1 DEF Written

LEMMA PlacesStay ==
  ASSUME UNCHANGED <<inputs, seedRows>>
  PROVE  /\ \A i : Before(i)' = Before(i) /\ End(i)' = End(i) /\ ChunkOf(i)' = ChunkOf(i)
         /\ Total' = Total
         /\ \A m : Parsed(m)' = Parsed(m)
<1>1. UNCHANGED <<data, maxChunkSize, fileName, seedRows>>
  BY DEF inputs
<1>2. \A i : Before(i)' = Before(i) /\ End(i)' = End(i) /\ ChunkOf(i)' = ChunkOf(i)
  BY <1>1 DEF Before, End, ChunkOf
<1>3. Total' = Total
  BY <1>1 DEF Total, CalculateTotalChunks
<1> QED BY <1>1, <1>2, <1>3 DEF Parsed

LEMMA PlacedStays ==
  ASSUME Placed, UNCHANGED <<inputs, seedRows, rows, disk>>
  PROVE  Placed'
<1>1. data' = data
  BY DEF inputs
<1> QED BY <1>1, PlacesStay DEF Placed

-----------------------------------------------------------------------------
(***************************************************************************)
(* The steps                                                               *)
(***************************************************************************)

LEMMA InitHolds == Init => IInv
<1> SUFFICES ASSUME Init PROVE IInv
  OBVIOUS
<1>1. Inputs
  <2>1. PICK n \in Nat : data = [i \in 1..n |-> i]
    BY TransferAssumption DEF Init
  <2>2. data \in Seq(Nat)
    BY <2>1
  <2> QED BY <2>2, TransferAssumption DEF Init, Inputs
<1>2. Cut /\ Len(seedRows) = 0
  BY DEF Init, Cut
<1>3. Read
  BY DEF Init, Read
<1>4. Written
  BY <1>2, NothingWritten DEF Init
<1>5. Loaded /\ Placed
  BY DEF Init, Loaded, Placed
<1> QED BY <1>1, <1>2, <1>3, <1>4, <1>5 DEF IInv

LEMMA RegisterChunkKeeps ==
  ASSUME IInv, RegisterChunk
  PROVE  IInv'
<1>1. UNCHANGED <<inputs, reading, seedFile, p2p, parserFile, rows, disk, requests, responses>> /\ reading = "rows"
  BY DEF RegisterChunk
<1>2. PICK n \in Nat, c \in Nat \ {0}, len \in Nat :
         n = Len(seedRows) /\ c = maxChunkSize /\ len = Len(data)
  BY SizesAre DEF IInv, Cut
<1>3. PICK size : /\ size = Least(c, len - n * c) /\ n * c < len
                  /\ seedRows' = Append(seedRows, [index |-> n, size |-> size])
  BY <1>2 DEF RegisterChunk
<1>4. size \in 1..c
  <2>1. n * c \in Nat
    BY NextMultiple
  <2> QED BY <1>3, <2>1 DEF Least
<1>5. Inputs'
  BY <1>1 DEF IInv, Inputs, inputs
<1>6. /\ seedRows' \in Seq([index : Nat, size : 1..c]) /\ Len(seedRows') = n + 1
      /\ \A i \in 1..n : seedRows'[i] = seedRows[i]
      /\ seedRows'[n + 1] = [index |-> n, size |-> size]
  <2>1. PICK S : S = [index : Nat, size : 1..c]
    OBVIOUS
  <2>2. seedRows \in Seq(S) /\ [index |-> n, size |-> size] \in S
    BY <1>2, <1>4, <2>1 DEF IInv, Cut
  <2>3. /\ Append(seedRows, [index |-> n, size |-> size]) \in Seq(S)
        /\ Len(Append(seedRows, [index |-> n, size |-> size])) = n + 1
        /\ \A i \in 1..n : Append(seedRows, [index |-> n, size |-> size])[i] = seedRows[i]
        /\ Append(seedRows, [index |-> n, size |-> size])[n + 1] = [index |-> n, size |-> size]
    BY <1>2, <2>2, AppendProperties
  <2> QED BY <1>3, <2>1, <2>3
<1>7. ASSUME NEW i \in 1..(n + 1)
      PROVE  /\ seedRows'[i].index = i - 1
             /\ (i - 1) * c < len
             /\ seedRows'[i].size = Least(c, len - (i - 1) * c)
  <2>1. CASE i \in 1..n
    <3>1. /\ seedRows[i].index = i - 1 /\ (i - 1) * c < len
          /\ seedRows[i].size = Least(c, len - (i - 1) * c)
      BY <1>2, <2>1 DEF IInv, Cut, Before
    <3> QED BY <1>6, <2>1, <3>1
  <2>2. CASE i = n + 1
    <3>1. i - 1 = n /\ seedRows'[i] = [index |-> n, size |-> size]
      BY <1>6, <2>2
    <3>2. seedRows'[i].index = n /\ seedRows'[i].size = size
      BY <3>1
    <3>3. PICK x : x = n * c
      OBVIOUS
    <3>4. x = (i - 1) * c
      BY <3>1, <3>3
    <3>5. size = Least(c, len - x) /\ x < len
      BY <1>3, <3>3
    <3> QED BY <3>1, <3>2, <3>4, <3>5
  <2> QED BY <2>1, <2>2
<1>8. Cut'
  <2>1. maxChunkSize' = c /\ Len(data') = len
    BY <1>1, <1>2 DEF inputs
  <2> QED BY <1>6, <1>7, <2>1 DEF Cut, Before
<1>9. Read' /\ p2p' = <<>> /\ parserFile' = NoFile
  BY <1>1 DEF IInv, Read
<1>10. Written'
  <2>1. Len(seedRows') \in Nat
    BY <1>6
  <2> QED BY <1>9, <2>1 DEF Written
<1>11. Loaded' /\ Placed'
  BY <1>1 DEF IInv, Loaded, Placed
<1> QED BY <1>5, <1>8, <1>9, <1>10, <1>11 DEF IInv

LEMMA CopyFileKeeps ==
  ASSUME IInv, CopyFile
  PROVE  IInv'
<1>1. /\ UNCHANGED <<inputs, seedRows, p2p, parserFile, rows, disk, requests, responses>>
      /\ reading = "rows" /\ reading' = "lines" /\ seedFile' = data /\ Len(seedRows) * maxChunkSize >= Len(data)
  BY DEF CopyFile
<1>2. Read'
  BY <1>1 DEF Read, inputs
<1>3. Loaded'
  BY <1>1 DEF IInv, Loaded
<1> QED BY <1>1, <1>2, <1>3, CutStays, WrittenStays, PlacedStays DEF IInv

LEMMA GenerateLineKeeps ==
  ASSUME IInv, GenerateLine
  PROVE  IInv'
<1>1. /\ UNCHANGED <<inputs, reading, seedRows, seedFile, parserFile, rows, disk, requests, responses>>
      /\ reading = "lines"
  BY DEF GenerateLine
<1>2. PICK n \in Nat, k \in Nat : n = Len(seedRows) /\ k = Len(p2p)
  BY RowsAre DEF IInv, Written
<1>3. PICK line : /\ p2p' = Append(p2p, line) /\ k < 5 + n
                  /\ line = IF k + 1 <= 5 THEN Header[k + 1] ELSE ChunkLine((k + 1) - 5)
  BY <1>2, LinesAre DEF GenerateLine, IInv
<1>4. PICK S : line \in S /\ \A i \in 1..k : p2p[i] \in S
  <2>1. line \in {line} \cup {p2p[j] : j \in 1..k} /\ \A i \in 1..k : p2p[i] \in {line} \cup {p2p[j] : j \in 1..k}
    OBVIOUS
  <2> QED BY <2>1
<1>5. p2p = [i \in 1..k |-> IF i <= 5 THEN Header[i] ELSE ChunkLine(i - 5)]
  BY <1>2 DEF IInv, Written
<1>6. p2p \in Seq(S)
  BY <1>4, <1>5
<1>7. /\ Len(p2p') = k + 1 /\ p2p' \in Seq(S)
      /\ \A i \in 1..k : p2p'[i] = p2p[i]
      /\ p2p'[k + 1] = line
  BY <1>2, <1>3, <1>4, <1>6, AppendProperties
<1>8. p2p' = [i \in 1..(k + 1) |-> p2p'[i]]
  BY <1>7
<1>9. p2p' = [i \in 1..(k + 1) |-> IF i <= 5 THEN Header[i] ELSE ChunkLine(i - 5)]
  BY <1>3, <1>5, <1>7, <1>8
<1>10. Header' = Header /\ \A i : ChunkLine(i)' = ChunkLine(i)
  BY <1>1 DEF inputs, Header, Total, CalculateTotalChunks, ChunkLine, Before, End
<1>11. Written'
  BY <1>1, <1>2, <1>3, <1>7, <1>9, <1>10 DEF Written
<1>12. Read' /\ Loaded'
  <2>1. Read'
    BY <1>1 DEF IInv, Read, inputs
  <2>2. Loaded'
    <3>1. UNCHANGED <<reading, data, seedRows, parserFile, rows, disk, requests, responses>>
      BY <1>1 DEF inputs
    <3>2. /\ \A i : Before(i)' = Before(i) /\ End(i)' = End(i)
          /\ \A m : Parsed(m)' = Parsed(m)
      BY <1>1, PlacesStay
    <3>3. Loaded
      BY DEF IInv
    <3> QED BY <3>1, <3>2, <3>3 DEF Loaded
  <2> QED BY <2>1, <2>2
<1> QED BY <1>1, <1>11, <1>12, CutStays, PlacedStays DEF IInv

\* What is parsed of the lines that were written.
LEMMA ParseIs ==
  ASSUME Inputs, Cut, Written, ParseP2PFile(p2p).totalChunks # NoText
  PROVE  /\ Len(p2p) \in Nat /\ Len(p2p) - 5 \in 0..Len(seedRows)
         /\ ParseP2PFile(p2p) = Parsed(Len(p2p) - 5)
<1>1. PICK k \in Nat : k = Len(p2p) /\ k <= 5 + Len(seedRows)
  BY DEF Written
<1>2. ParseP2PFile(p2p).totalChunks = Value(p2p, 5)
  BY DEF ParseP2PFile
<1>3. k >= 5
  BY <1>1, <1>2 DEF Value
<1>4. \A j \in 1..k : p2p[j] = IF j <= 5 THEN Header[j] ELSE ChunkLine(j - 5)
  BY <1>1 DEF Written
<1>5. \A j \in 1..5 : Value(p2p, j) = Header[j][2]
  <2>1. \A j \in 1..5 : j \in 1..k /\ j <= Len(p2p)
    BY <1>1, <1>3
  <2> QED BY <1>4, <2>1 DEF Value
<1>6. /\ Value(p2p, 2) = data /\ Value(p2p, 3) = Len(data)
      /\ Value(p2p, 4) = maxChunkSize /\ Value(p2p, 5) = Total
  BY <1>5 DEF Header
<1>7. Value(p2p, 1) = Head(fileName)
  <2>1. fileName \in Seq(STRING) /\ fileName # <<>>
    BY TransferAssumption DEF Inputs
  <2>2. PICK S : fileName \in Seq(S) /\ "fileName" \in S
    <3>1. fileName \in Seq(STRING \cup {"fileName"})
      BY <2>1
    <3> QED BY <3>1
  <2>3. PICK name : name = fileName
    OBVIOUS
  <2>4. Len(name) \in Nat /\ Len(name) >= 1 /\ Head(name) = name[1]
    BY <2>1, <2>3
  <2>5. (<<"fileName">> \o name)[2] = IF 2 <= 1 THEN <<"fileName">>[2] ELSE name[2 - 1]
    <3>1. PICK s \in Seq(S) : s = <<"fileName">> /\ Len(s) = 1
      <4>1. PICK key \in S : key = "fileName"
        BY <2>2
      <4>2. <<key>> \in Seq(S) /\ Len(<<key>>) = 1
        OBVIOUS
      <4> QED BY <4>1, <4>2
    <3>2. \A j \in 1..(Len(s) + Len(name)) : (s \o name)[j] = IF j <= Len(s) THEN s[j] ELSE name[j - Len(s)]
      BY <2>2, <2>3, ConcatProperties
    <3>3. 2 \in 1..(Len(s) + Len(name))
      BY <2>4, <3>1
    <3> QED BY <3>1, <3>2, <3>3
  <2>6. Header[1] = <<"fileName">> \o name
    BY <2>3 DEF Header
  <2>7. 2 - 1 = 1 /\ ~(2 <= 1)
    OBVIOUS
  <2> QED BY <1>5, <2>3, <2>4, <2>5, <2>6, <2>7
<1>8. Most(Len(p2p), 5) - 5 = k - 5 /\ k - 5 \in Nat
  BY <1>1, <1>3 DEF Most
<1>9. ASSUME NEW i \in 1..(k - 5)
      PROVE  ParserChunk(p2p[i + 5][1], p2p[i + 5][2][1], p2p[i + 5][2][2]) = ChunkOf(i)
  <2>1. i + 5 \in 1..k /\ ~(i + 5 <= 5) /\ (i + 5) - 5 = i
    BY <1>3
  <2>2. p2p[i + 5] = ChunkLine(i)
    BY <1>4, <2>1
  <2>3. /\ ChunkLine(i)[1] = i - 1 /\ ChunkLine(i)[2][2] = seedRows[i].size
        /\ ChunkLine(i)[2][1] = SubSeq(data, Before(i) + 1, End(i))
    BY DEF ChunkLine
  <2> QED BY <2>2, <2>3 DEF ChunkOf
<1>10. ParseP2PFile(p2p) = Parsed(k - 5)
  BY <1>6, <1>7, <1>8, <1>9 DEF ParseP2PFile, Parsed
<1>11. k - 5 \in 0..Len(seedRows)
  BY <1>1, <1>8, RowsAre
<1> QED BY <1>1, <1>10, <1>11

LEMMA DownloadSignalKeeps ==
  ASSUME IInv, DownloadSignal
  PROVE  IInv'
<1>1. UNCHANGED <<inputs, seedVars, requests, responses>> /\ reading = "lines"
  BY DEF DownloadSignal
<1>2. UNCHANGED <<reading, seedRows, seedFile, p2p, data, maxChunkSize>>
  BY <1>1 DEF seedVars, inputs
<1>3. PICK m \in Nat : /\ m = Len(p2p) - 5 /\ m <= Len(seedRows)
                       /\ ParseP2PFile(p2p) = Parsed(m)
  BY ParseIs, RowsAre DEF DownloadSignal, IInv
<1>4. /\ parserFile' = Parsed(m)
      /\ rows' = [i \in 1..Len(Parsed(m).chunks) |-> [index |-> Parsed(m).chunks[i].index, available |-> FALSE]]
      /\ disk' = CreatePreallocatedFile(Parsed(m).size \div 8)
  BY <1>3 DEF DownloadSignal
<1>5. /\ Parsed(m).chunks = [i \in 1..m |-> ChunkOf(i)] /\ Len(Parsed(m).chunks) = m
      /\ Parsed(m).size = Len(data)
  BY DEF Parsed
<1>6. rows' = [i \in 1..m |-> [index |-> i - 1, available |-> FALSE]]
  <2>1. \A i \in 1..m : Parsed(m).chunks[i].index = i - 1
    BY <1>5 DEF ChunkOf, ParserChunk
  <2> QED BY <1>4, <1>5, <2>1
<1>7. /\ Len(rows') = m /\ rows' \in Seq([index : Nat, available : BOOLEAN])
      /\ \A i \in 1..m : rows'[i].index = i - 1 /\ rows'[i].available = FALSE
  <2>1. \A i \in 1..m : [index |-> i - 1, available |-> FALSE] \in [index : Nat, available : BOOLEAN]
    OBVIOUS
  <2>2. rows' \in Seq([index : Nat, available : BOOLEAN])
    BY <1>6, <2>1
  <2> QED BY <1>6, <2>2
<1>8. disk' \in Seq(Nat) /\ Len(disk') <= Len(data)
  <2>1. PICK s \in Nat : s = Len(data) \div 8 /\ s <= Len(data)
    BY QuotientBounds, SizesAre DEF IInv
  <2>2. disk' = [i \in 1..s |-> 0]
    BY <1>4, <1>5, <2>1 DEF CreatePreallocatedFile, Zero
  <2> QED BY <2>1, <2>2
<1>9. Loaded'
  <2>1. requests \subseteq {i - 1 : i \in 1..Len(seedRows)}
    BY DEF IInv, Loaded
  <2>2. \A r \in responses :
           \E i \in 1..Len(seedRows) : r = [index |-> i - 1, bytes |-> SubSeq(data, Before(i) + 1, End(i))]
    BY DEF IInv, Loaded
  <2>3. /\ \A i : Before(i)' = Before(i) /\ End(i)' = End(i)
        /\ Parsed(m)' = Parsed(m)
    BY <1>1, <1>2, PlacesStay
  <2> QED BY <1>1, <1>2, <1>3, <1>4, <1>7, <1>8, <2>1, <2>2, <2>3 DEF Loaded
<1>10. Placed'
  BY <1>7 DEF Placed
<1>11. Read'
  BY <1>1, <1>2, ReadStays DEF IInv
<1> QED BY <1>1, <1>2, <1>9, <1>10, <1>11, CutStays, WrittenStays DEF IInv

\* Of a row that is in question, the first such row.
LEMMA FirstMissing ==
  ASSUME NEW n \in Nat, n = Len(rows), NEW i \in 1..n, ~rows[i].available
  PROVE  \E j \in 1..n : FindMissingChunkIndex = j - 1
<1>1. PICK T : T = {j \in 1..Len(rows) : ~rows[j].available}
  OBVIOUS
<1>2. T \subseteq Nat /\ T \subseteq 1..n /\ T # {}
  BY <1>1
<1>3. Min(T) \in 1..n
  BY <1>2, MinIs
<1>4. FindMissingChunkIndex = Min(T) - 1
  BY <1>1, <1>2 DEF FindMissingChunkIndex, SelectInSeq
<1> QED BY <1>3, <1>4

LEMMA RequestOneMissingChunkKeeps ==
  ASSUME IInv, RequestOneMissingChunk
  PROVE  IInv'
<1>1. /\ UNCHANGED <<inputs, seedVars, parserFile, rows, disk, responses>>
      /\ parserFile # NoFile /\ ~IsDownloadComplete
      /\ requests' = requests \cup {FindMissingChunkIndex}
  BY DEF RequestOneMissingChunk
<1>2. UNCHANGED <<reading, seedRows, p2p, data>>
  BY <1>1 DEF seedVars, inputs
<1>3. PICK n \in Nat, m \in Nat : n = Len(rows) /\ m = Len(seedRows) /\ n <= m /\ DOMAIN rows = 1..n
  <2>1. rows \in Seq([index : Nat, available : BOOLEAN]) /\ Len(rows) <= Len(seedRows)
    BY <1>1 DEF IInv, Loaded
  <2>2. Len(rows) \in Nat /\ DOMAIN rows = 1..Len(rows)
    BY <2>1, LenProperties
  <2> QED BY <2>1, <2>2, RowsAre DEF IInv
<1>4. PICK i \in 1..n : ~rows[i].available
  BY <1>1, <1>3 DEF IsDownloadComplete
<1>5. PICK j \in 1..m : FindMissingChunkIndex = j - 1
  <2>1. PICK h \in 1..n : FindMissingChunkIndex = h - 1
    BY <1>3, <1>4, FirstMissing
  <2> QED BY <1>3, <2>1
<1>6. requests' \subseteq {h - 1 : h \in 1..m}
  BY <1>1, <1>3, <1>5 DEF IInv, Loaded
<1>7. Loaded'
  <2>1. /\ \A h : Before(h)' = Before(h) /\ End(h)' = End(h)
        /\ Parsed(n)' = Parsed(n)
    BY <1>1, <1>2, PlacesStay
  <2> QED BY <1>1, <1>2, <1>3, <1>6, <2>1 DEF IInv, Loaded
<1>8. Read'
  BY <1>1, ReadStays DEF IInv
<1> QED BY <1>1, <1>2, <1>7, <1>8, CutStays, WrittenStays, PlacedStays DEF IInv

LEMMA HandleChunkRequestKeeps ==
  ASSUME IInv, NEW index \in requests, HandleChunkRequest(index)
  PROVE  IInv'
<1>1. UNCHANGED <<inputs, seedVars, parserFile, rows, disk>> /\ requests' \subseteq requests
  BY DEF HandleChunkRequest
<1>2. UNCHANGED <<reading, seedRows, p2p, data>>
  BY <1>1 DEF seedVars, inputs
<1>3. PICK n \in Nat, m \in Nat : n = Len(rows) /\ m = Len(seedRows)
  <2>1. rows \in Seq([index : Nat, available : BOOLEAN])
    BY DEF IInv, Loaded
  <2> QED BY <2>1, LenProperties, RowsAre DEF IInv
<1>4. /\ reading = "lines" /\ seedFile = data
      /\ \A r \in responses :
            \E i \in 1..m : r = [index |-> i - 1, bytes |-> SubSeq(data, Before(i) + 1, End(i))]
  BY <1>3 DEF IInv, Loaded, Read
<1>5. PICK T : T = {i \in 1..m : seedRows[i].index = index}
  OBVIOUS
<1>6. PICK i : /\ i = IF T # {} THEN Min(T) ELSE 0
               /\ i = SelectInSeq(seedRows, LAMBDA r : r.index = index)
  BY <1>3, <1>5 DEF SelectInSeq
<1>7. i # 0 => i \in 1..m /\ index = i - 1
  <2>1. ASSUME i # 0 PROVE i \in T
    BY <1>5, <1>6, <2>1, MinIs
  <2>2. \A j \in 1..m : seedRows[j].index = j - 1
    BY <1>3 DEF IInv, Cut
  <2> QED BY <1>5, <2>1, <2>2
<1>8. ASSUME NEW r \in responses', r \notin responses
      PROVE  \E j \in 1..m : r = [index |-> j - 1, bytes |-> SubSeq(data, Before(j) + 1, End(j))]
  <2>1. PICK bytes : /\ bytes = IF i = 0 THEN NoFile ELSE ReadChunkData(seedFile, index, seedRows[i].size)
                     /\ bytes # NoFile /\ r = [index |-> index, bytes |-> bytes]
    BY <1>6, <1>8 DEF HandleChunkRequest
  <2>2. i \in 1..m /\ index = i - 1
    BY <1>7, <2>1
  <2>3. bytes = ReadChunkData(data, i - 1, seedRows[i].size) /\ bytes # NoFile
    BY <1>4, <2>1, <2>2
  <2>4. bytes = SubSeq(data, (i - 1) * maxChunkSize + 1, (i - 1) * maxChunkSize + seedRows[i].size)
    BY <2>3 DEF ReadChunkData
  <2>5. bytes = SubSeq(data, Before(i) + 1, End(i))
    BY <2>4 DEF Before, End
  <2> QED BY <2>1, <2>2, <2>5
<1>9. Loaded'
  <2>1. /\ \A h : Before(h)' = Before(h) /\ End(h)' = End(h)
        /\ Parsed(n)' = Parsed(n)
    BY <1>1, <1>2, PlacesStay
  <2>2. \A r \in responses' :
            \E j \in 1..m : r = [index |-> j - 1, bytes |-> SubSeq(data, Before(j) + 1, End(j))]
    BY <1>4, <1>8
  <2> QED BY <1>1, <1>2, <1>3, <1>4, <2>1, <2>2 DEF IInv, Loaded
<1>10. Read'
  BY <1>1, ReadStays DEF IInv
<1> QED BY <1>1, <1>2, <1>9, <1>10, CutStays, WrittenStays, PlacedStays DEF IInv

\* What WriteAt makes of a file.
LEMMA WriteAtIs ==
  ASSUME NEW file \in Seq(Nat), NEW bytes \in Seq(Nat), NEW offset \in Nat
  PROVE  /\ WriteAt(file, bytes, offset) \in Seq(Nat)
         /\ Len(WriteAt(file, bytes, offset)) = Most(Len(file), offset + Len(bytes))
         /\ \A b \in 1..Most(Len(file), offset + Len(bytes)) :
               WriteAt(file, bytes, offset)[b] =
                  IF b \in (offset + 1)..(offset + Len(bytes)) THEN bytes[b - offset]
                  ELSE IF b <= Len(file) THEN file[b] ELSE 0
<1> DEFINE byte(b) == IF b \in (offset + 1)..(offset + Len(bytes)) THEN bytes[b - offset]
                      ELSE IF b <= Len(file) THEN file[b] ELSE 0
<1>1. PICK n \in Nat : n = Most(Len(file), offset + Len(bytes))
  BY DEF Most
<1>2. WriteAt(file, bytes, offset) = [b \in 1..n |-> byte(b)]
  BY <1>1 DEF WriteAt, Zero
<1>3. \A b \in 1..n : byte(b) \in Nat
  <2> SUFFICES ASSUME NEW b \in 1..n PROVE byte(b) \in Nat
    OBVIOUS
  <2>1. CASE b \in (offset + 1)..(offset + Len(bytes))
    BY <2>1
  <2>2. CASE b \notin (offset + 1)..(offset + Len(bytes)) /\ b <= Len(file)
    BY <2>2
  <2> QED BY <2>1, <2>2
<1>4. [b \in 1..n |-> byte(b)] \in Seq(Nat) /\ Len([b \in 1..n |-> byte(b)]) = n
  <2> HIDE DEF byte
  <2> QED BY <1>3
<1> QED BY <1>1, <1>2, <1>4

LEMMA HandleChunkResponseKeeps ==
  ASSUME IInv, NEW r \in responses, HandleChunkResponse(r)
  PROVE  IInv'
<1>1. UNCHANGED <<inputs, seedVars, parserFile, requests>> /\ responses' \subseteq responses
  BY DEF HandleChunkResponse
<1>2. UNCHANGED <<reading, seedRows, p2p, data>>
  BY <1>1 DEF seedVars, inputs
<1>3. /\ rows \in Seq([index : Nat, available : BOOLEAN]) /\ Len(rows) <= Len(seedRows)
      /\ parserFile = Parsed(Len(rows)) /\ reading = "lines"
      /\ \A j \in 1..Len(rows) : rows[j].index = j - 1
      /\ disk \in Seq(Nat) /\ Len(disk) <= Len(data)
  BY DEF IInv, Loaded
<1>4. PICK n \in Nat : n = Len(rows) /\ DOMAIN rows = 1..n
  BY <1>3, LenProperties
<1>5. PICK i \in 1..Len(seedRows), bytes \in Seq(Nat) :
         bytes = SubSeq(data, Before(i) + 1, End(i)) /\ r = [index |-> i - 1, bytes |-> bytes]
  <2>1. PICK i \in 1..Len(seedRows) : r = [index |-> i - 1, bytes |-> SubSeq(data, Before(i) + 1, End(i))]
    BY DEF IInv, Loaded
  <2> QED BY <2>1, ChunkBytes DEF IInv
<1>6. PICK from \in Nat, size \in Nat, c \in Nat, len \in Nat :
         /\ from = Before(i) /\ size = seedRows[i].size /\ c = maxChunkSize /\ len = Len(data)
         /\ End(i) = from + size /\ from + size <= len
  <2>1. Before(i) \in Nat /\ seedRows[i].size \in Nat /\ End(i) <= Len(data)
    <3>1. Inputs /\ Cut
      BY DEF IInv
    <3>2. Before(i) \in Nat /\ seedRows[i].size \in 1..maxChunkSize /\ End(i) <= Len(data)
      BY <1>5, <3>1, PlaceOf
    <3> QED BY <3>2
  <2>2. Len(data) \in Nat /\ maxChunkSize \in Nat
    BY SizesAre DEF IInv
  <2> QED BY <2>1, <2>2 DEF End
<1>7. Len(bytes) = size /\ \A b \in 1..size : bytes[b] = data[from + b]
  BY <1>5, <1>6, ChunkBytes DEF IInv
<1>8. PICK d \in Nat, e \in Nat : d = Len(disk) /\ e = Most(d, from + size)
  <2>1. Len(disk) \in Nat
    BY <1>3, LenProperties
  <2>2. Most(Len(disk), from + size) \in Nat
    BY <2>1 DEF Most
  <2> QED BY <2>1, <2>2
<1>9. /\ disk' \in Seq(Nat) /\ Len(disk') = e
      /\ \A b \in 1..e : disk'[b] = IF b \in (from + 1)..(from + size) THEN bytes[b - from]
                                    ELSE IF b <= d THEN disk[b] ELSE 0
  <2>1. disk' = WriteAt(disk, bytes, from)
    <3>1. r.index = i - 1 /\ r.bytes = bytes
      BY <1>5
    <3>2. (i - 1) * maxChunkSize = from
      BY <1>6 DEF Before
    <3> QED BY <3>1, <3>2 DEF HandleChunkResponse, WriteChunkData
  <2>2. PICK file \in Seq(Nat) : file = disk
    BY <1>3
  <2>3. /\ WriteAt(file, bytes, from) \in Seq(Nat)
        /\ Len(WriteAt(file, bytes, from)) = Most(Len(file), from + Len(bytes))
        /\ \A b \in 1..Most(Len(file), from + Len(bytes)) :
              WriteAt(file, bytes, from)[b] =
                 IF b \in (from + 1)..(from + Len(bytes)) THEN bytes[b - from]
                 ELSE IF b <= Len(file) THEN file[b] ELSE 0
    BY WriteAtIs
  <2>4. disk' = WriteAt(file, bytes, from) /\ Len(file) = d /\ Len(bytes) = size
    BY <1>7, <1>8, <2>1, <2>2
  <2>5. Most(Len(file), from + Len(bytes)) = e
    BY <1>8, <2>4
  <2> QED BY <2>2, <2>3, <2>4, <2>5
<1>10. d <= e /\ from + size <= e /\ e <= len
  <2>1. d <= len /\ from + size <= len
    BY <1>3, <1>6, <1>8
  <2>2. e = IF d > from + size THEN d ELSE from + size
    BY <1>8 DEF Most
  <2> QED BY <2>1, <2>2
<1>11. \A b \in (from + 1)..(from + size) : disk'[b] = data[b]
  <2> SUFFICES ASSUME NEW b \in (from + 1)..(from + size) PROVE disk'[b] = data[b]
    OBVIOUS
  <2>1. PICK a \in 1..size : a = b - from /\ from + a = b
    OBVIOUS
  <2>2. b \in 1..e
    BY <1>10
  <2> QED BY <1>7, <1>9, <2>1, <2>2
<1>12. \A b \in 1..d : disk'[b] = disk[b] \/ disk'[b] = data[b]
  <2> SUFFICES ASSUME NEW b \in 1..d PROVE disk'[b] = disk[b] \/ disk'[b] = data[b]
    OBVIOUS
  <2>1. b \in 1..e /\ b <= d
    BY <1>10
  <2> QED BY <1>9, <1>11, <2>1
<1>13. /\ rows' \in Seq([index : Nat, available : BOOLEAN]) /\ Len(rows') = n
       /\ \A j \in 1..n : /\ rows'[j].index = rows[j].index
                          /\ rows'[j].available => rows[j].available \/ j = i
  <2>1. rows' = [j \in 1..n |-> IF rows[j].index = i - 1 THEN [rows[j] EXCEPT !.available = TRUE] ELSE rows[j]]
    BY <1>4, <1>5 DEF HandleChunkResponse
  <2>2. \A j \in 1..n : rows[j] \in [index : Nat, available : BOOLEAN] /\ rows[j].index = j - 1
    BY <1>3, <1>4, ElementOfSeq
  <2>3. ASSUME NEW j \in 1..n
        PROVE  /\ rows'[j] \in [index : Nat, available : BOOLEAN]
               /\ rows'[j].index = rows[j].index
               /\ rows'[j].available => rows[j].available \/ j = i
    <3>1. PICK row \in [index : Nat, available : BOOLEAN] : row = rows[j] /\ row.index = j - 1
      BY <2>2
    <3>2. PICK marked : marked = [row EXCEPT !.available = TRUE]
      OBVIOUS
    <3>3. marked \in [index : Nat, available : BOOLEAN] /\ marked.index = row.index
      BY <3>2
    <3>4. rows'[j] = IF row.index = i - 1 THEN marked ELSE row
      BY <2>1, <3>1, <3>2
    <3>5. row.index = i - 1 => j = i
      BY <1>5, <3>1
    <3> QED BY <3>1, <3>3, <3>4, <3>5
  <2>4. PICK f, S : f = rows' /\ S = [index : Nat, available : BOOLEAN]
    OBVIOUS
  <2>5. f = [j \in 1..n |-> f[j]]
    BY <2>1, <2>4
  <2>6. \A j \in 1..n : f[j] \in S
    BY <2>3, <2>4
  <2>7. f \in Seq(S) /\ Len(f) = n
    <3>1. f \in [1..n -> S]
      BY <2>5, <2>6
    <3>2. f \in Seq(S)
      BY <3>1, SeqDef
    <3> QED BY <3>1, <3>2, LenProperties
  <2> QED BY <2>3, <2>4, <2>7
<1>14. /\ \A h : Before(h)' = Before(h) /\ End(h)' = End(h)
       /\ Parsed(n)' = Parsed(n)
  BY <1>1, <1>2, PlacesStay
<1>15. Loaded'
  <2>1. requests \subseteq {h - 1 : h \in 1..Len(seedRows)}
    BY DEF IInv, Loaded
  <2>2. \A q \in responses' :
           \E h \in 1..Len(seedRows) : q = [index |-> h - 1, bytes |-> SubSeq(data, Before(h) + 1, End(h))]
    BY <1>1 DEF IInv, Loaded
  <2>3. \A j \in 1..Len(rows') : rows'[j].index = j - 1
    BY <1>3, <1>4, <1>13
  <2>4. Len(rows') <= Len(seedRows) /\ parserFile = Parsed(Len(rows')) /\ Len(disk') <= Len(data)
    BY <1>3, <1>4, <1>6, <1>9, <1>10, <1>13
  <2> QED BY <1>1, <1>2, <1>3, <1>9, <1>13, <1>14, <2>1, <2>2, <2>3, <2>4 DEF Loaded
<1>16. Placed'
  <2>1. ASSUME NEW j \in 1..n, rows'[j].available
        PROVE  End(j) <= e /\ \A b \in (Before(j) + 1)..End(j) : disk'[b] = data[b]
    <3>1. CASE j = i
      BY <1>6, <1>10, <1>11, <3>1
    <3>2. CASE rows[j].available
      <4>1. /\ Before(j) \in Nat /\ End(j) \in Nat
            /\ End(j) <= d /\ \A b \in (Before(j) + 1)..End(j) : disk[b] = data[b]
        <5>1. j \in 1..Len(seedRows) /\ j \in 1..Len(rows)
          BY <1>3, <1>4, RowsAre DEF IInv
        <5>2. Before(j) \in Nat /\ End(j) \in Nat
          BY <5>1, PlaceOf DEF IInv
        <5>3. Placed
          BY DEF IInv
        <5> QED BY <1>8, <3>2, <5>1, <5>2, <5>3 DEF Placed
      <4>2. \A b \in (Before(j) + 1)..End(j) : b \in 1..d
        BY <4>1
      <4> QED BY <1>10, <1>12, <4>1, <4>2
    <3> QED BY <1>13, <2>1, <3>1, <3>2
  <2> QED BY <1>2, <1>9, <1>13, <1>14, <2>1 DEF Placed
<1>17. Read'
  BY <1>1, <1>2, <1>3, ReadStays DEF IInv
<1> QED BY <1>1, <1>2, <1>15, <1>16, <1>17, CutStays, WrittenStays DEF IInv

LEMMA StepKeeps == IInv /\ [Next]_vars => IInv'
<1> SUFFICES ASSUME IInv, [Next]_vars PROVE IInv'
  OBVIOUS
<1>1. CASE UNCHANGED vars
  <2>1. UNCHANGED <<inputs, seedVars, parserFile, rows, disk, requests, responses>>
    BY <1>1 DEF vars
  <2>2. UNCHANGED <<reading, seedRows, p2p, data>>
    BY <2>1 DEF seedVars, inputs
  <2>3. \A m : Parsed(m)' = Parsed(m)
    BY <2>1, <2>2, PlacesStay
  <2>4. \A h : Before(h)' = Before(h) /\ End(h)' = End(h)
    BY <2>1, <2>2, PlacesStay
  <2>5. Loaded'
    BY <2>1, <2>2, <2>3, <2>4 DEF IInv, Loaded
  <2> QED BY <2>1, <2>2, <2>5, CutStays, ReadStays, WrittenStays, PlacedStays DEF IInv
<1> QED BY <1>1, RegisterChunkKeeps, CopyFileKeeps, GenerateLineKeeps, DownloadSignalKeeps,
           RequestOneMissingChunkKeeps, HandleChunkRequestKeeps, HandleChunkResponseKeeps DEF Next

LEMMA Always == Spec => []IInv
  BY InitHolds, StepKeeps, PTL DEF Spec

-----------------------------------------------------------------------------
(***************************************************************************)
(* Types                                                                   *)
(***************************************************************************)

LEMMA TotalIsNatural ==
  ASSUME Inputs
  PROVE  Total \in Nat
<1>1. PICK a \in Nat : a = Len(data) + maxChunkSize - 1
  BY SizesAre
<1> QED BY <1>1, QuotientBounds, SizesAre DEF Total, CalculateTotalChunks

LEMMA ChunkIs ==
  ASSUME Inputs, Cut, NEW i \in 1..Len(seedRows)
  PROVE  ChunkOf(i) \in ParserChunks
<1>1. i - 1 \in Nat /\ seedRows[i].size \in Nat
  BY PlaceOf, SizesAre
<1>2. SubSeq(data, Before(i) + 1, End(i)) \in Seq(Nat)
  BY ChunkBytes
<1> QED BY <1>1, <1>2 DEF ChunkOf, ParserChunk, ParserChunks

LEMMA ParsedIs ==
  ASSUME Inputs, Cut, NEW m \in Nat, m <= Len(seedRows)
  PROVE  Parsed(m) \in ParserFiles
<1>1. <<Head(fileName)>> \in Seq(STRING)
  <2>1. fileName \in Seq(STRING) /\ fileName # <<>>
    BY TransferAssumption DEF Inputs
  <2> QED BY <2>1
<1>2. [i \in 1..m |-> ChunkOf(i)] \in Seq(ParserChunks)
  <2>1. \A i \in 1..m : ChunkOf(i) \in ParserChunks
    BY ChunkIs, RowsAre
  <2>2. [i \in 1..m |-> ChunkOf(i)] \in [1..m -> ParserChunks]
    BY <2>1
  <2> QED BY <2>2, SeqDef
<1>3. data \in Seq(Nat) /\ Len(data) \in Nat /\ maxChunkSize \in Nat /\ Total \in Nat
  BY SizesAre, TotalIsNatural DEF Inputs
<1> QED BY <1>1, <1>2, <1>3 DEF Parsed, ParserFiles

LEMMA Types ==
  ASSUME IInv
  PROVE  TypeOK
<1>1. /\ Inputs /\ Cut /\ Read
      /\ data \in Seq(Nat) /\ maxChunkSize \in ChunkSizes /\ fileName \in Names
      /\ reading \in {"rows", "lines"} /\ seedFile \in {NoFile, data}
      /\ seedRows \in Seq([index : Nat, size : 1..maxChunkSize])
  BY DEF IInv, Inputs, Cut, Read
<1>2. PICK n \in Nat : n = Len(seedRows) /\ DOMAIN seedRows = 1..n
  BY <1>1, LenProperties
<1>3. \A i \in 1..n : seedRows[i].index = i - 1
  BY <1>1, <1>2 DEF Cut
<1>4. CASE parserFile = NoFile /\ disk = NoFile /\ rows = <<>> /\ requests = {} /\ responses = {}
  BY <1>1, <1>4 DEF TypeOK
<1>5. CASE /\ rows \in Seq([index : Nat, available : BOOLEAN]) /\ Len(rows) <= Len(seedRows)
           /\ parserFile = Parsed(Len(rows))
           /\ disk \in Seq(Nat)
           /\ requests \subseteq {i - 1 : i \in 1..Len(seedRows)}
           /\ \A r \in responses :
                 \E i \in 1..Len(seedRows) :
                    r = [index |-> i - 1, bytes |-> SubSeq(data, Before(i) + 1, End(i))]
  <2>1. Len(rows) \in Nat
    BY <1>5, LenProperties
  <2>2. parserFile \in ParserFiles
    BY <1>1, <1>5, <2>1, ParsedIs
  <2>3. parserFile # NoFile /\ disk # NoFile
    BY <1>5, <2>2, TransferAssumption
  <2>4. requests \subseteq {seedRows[i].index : i \in DOMAIN seedRows}
    BY <1>2, <1>3, <1>5
  <2>5. ASSUME NEW r \in responses PROVE r.index \in Nat /\ Len(r.bytes) <= maxChunkSize
    <3>1. PICK i \in 1..Len(seedRows) :
             r = [index |-> i - 1, bytes |-> SubSeq(data, Before(i) + 1, End(i))]
      BY <1>5
    <3>2. r.index = i - 1 /\ Len(r.bytes) = seedRows[i].size
      BY <1>1, <3>1, ChunkBytes
    <3>3. i - 1 \in Nat /\ seedRows[i].size \in 1..maxChunkSize
      BY <1>1, PlaceOf
    <3> QED BY <3>2, <3>3
  <2> QED BY <1>1, <1>5, <2>2, <2>3, <2>4, <2>5 DEF TypeOK
<1> QED BY <1>4, <1>5 DEF IInv, Loaded

(***************************************************************************)
(* Every variable keeps its type, for a file of any size, a chunk size of  *)
(* any size and a name with any number of colons.  In particular           *)
(* FindMissingChunkIndex always answers with a row that exists, and        *)
(* handleChunkRequestMsg never sends more than maxChunkSize bytes.         *)
(***************************************************************************)
THEOREM TypeCorrect == Spec => []TypeOK
<1>1. IInv => TypeOK
  BY Types
<1> QED BY <1>1, Always, PTL

-----------------------------------------------------------------------------
(***************************************************************************)
(* The .p2p file                                                           *)
(***************************************************************************)

LEMMA ParsesWhole ==
  ASSUME IInv, DownloadSignal
  PROVE  Inverts
<1> SUFFICES ASSUME p2p = Lines(Registered), Len(fileName) = 1
             PROVE  parserFile' = Registered
  BY DEF Inverts, Generated
<1>1. Inputs /\ Cut /\ Written /\ parserFile' = ParseP2PFile(p2p)
  BY DEF IInv, DownloadSignal
<1>2. PICK n \in Nat : n = Len(seedRows) /\ Len(p2p) = 5 + n
  BY <1>1, LinesAre, RowsAre
<1>3. parserFile' = Parsed(n)
  BY <1>1, <1>2, ParseIs DEF DownloadSignal
<1>4. <<Head(fileName)>> = fileName
  <2>1. fileName \in Seq(STRING)
    BY <1>1, TransferAssumption DEF Inputs
  <2> QED BY <2>1
<1> QED BY <1>1, <1>2, <1>3, <1>4, RegisteredIs DEF Parsed

(***************************************************************************)
(* ParseP2PFile of a whole .p2p file is what GenerateP2PFile was given,    *)
(* for any size, chunk size and name without a colon (parser.go:44-73,     *)
(* 75-130).                                                                *)
(***************************************************************************)
THEOREM ParseInvertsHolds == Spec => ParseInverts
<1>1. IInv /\ [Next]_vars => [parserFile' # parserFile => Inverts]_vars
  <2> SUFFICES ASSUME IInv, Next, parserFile' # parserFile PROVE Inverts
    OBVIOUS
  <2>1. RegisterChunk \/ CopyFile \/ GenerateLine \/ RequestOneMissingChunk
        \/ (\E index \in requests : HandleChunkRequest(index))
        \/ (\E r \in responses : HandleChunkResponse(r))
           => parserFile' = parserFile
    BY DEF RegisterChunk, CopyFile, GenerateLine, RequestOneMissingChunk,
       HandleChunkRequest, HandleChunkResponse
  <2>2. DownloadSignal
    BY <2>1 DEF Next
  <2> QED BY <2>2, ParsesWhole
<1> QED BY <1>1, Always, PTL DEF Spec, ParseInverts

-----------------------------------------------------------------------------
(***************************************************************************)
(* The bytes                                                               *)
(***************************************************************************)

\* Every row is read when the rows reach the end of the file.
LEMMA TotalIs ==
  ASSUME Inputs, Cut, Len(seedRows) * maxChunkSize >= Len(data)
  PROVE  Total = Len(seedRows)
<1>1. PICK n \in Nat, c \in Nat \ {0}, len \in Nat :
         n = Len(seedRows) /\ c = maxChunkSize /\ len = Len(data)
  BY SizesAre, RowsAre
<1>2. n * c \in Nat /\ (n + 1) * c = n * c + c /\ n * c >= len
  BY <1>1, NextMultiple
<1>3. n # 0 => n * c < len + c
  <2> SUFFICES ASSUME n # 0 PROVE n * c < len + c
    OBVIOUS
  <2>1. PICK k \in Nat : n = k + 1 /\ k = n - 1
    OBVIOUS
  <2>2. k * c < len
    <3>1. n \in 1..Len(seedRows)
      BY <1>1
    <3>2. Before(n) < Len(data) /\ Before(n) = (n - 1) * maxChunkSize
      BY <3>1 DEF Cut, Before
    <3> QED BY <1>1, <2>1, <3>2
  <2>3. k * c \in Nat /\ (k + 1) * c = k * c + c
    BY NextMultiple
  <2> QED BY <2>1, <2>2, <2>3
<1>4. n = 0 => n * c = 0
  OBVIOUS
<1>5. PICK a \in Nat, x \in Nat : a = len + c - 1 /\ x = n * c
  BY <1>2
<1>6. x <= a /\ a < x + c
  BY <1>2, <1>3, <1>4, <1>5
<1>7. a \div c = n
  BY <1>2, <1>5, <1>6, QuotientIs
<1> QED BY <1>1, <1>5, <1>7 DEF Total, CalculateTotalChunks

\* Every byte is in a chunk.
LEMMA Covered ==
  ASSUME Inputs, Cut, Len(seedRows) * maxChunkSize >= Len(data), NEW b \in 1..Len(data)
  PROVE  \E j \in 1..Len(seedRows) : b \in (Before(j) + 1)..End(j)
<1>1. PICK n \in Nat, c \in Nat \ {0}, len \in Nat :
         n = Len(seedRows) /\ c = maxChunkSize /\ len = Len(data)
  BY SizesAre, RowsAre
<1>2. PICK a \in Nat : a = b - 1 /\ b = a + 1 /\ a < len
  BY <1>1
<1>3. PICK q \in Nat : q * c <= a /\ a < (q + 1) * c
  BY QuotientBounds
<1>4. q < n
  <2> SUFFICES ASSUME n <= q PROVE FALSE
    OBVIOUS
  <2>1. n * c <= q * c /\ n * c \in Nat /\ q * c \in Nat
    BY Monotone, NextMultiple
  <2> QED BY <1>1, <1>2, <1>3, <2>1
<1>5. PICK j \in 1..n : j = q + 1 /\ j - 1 = q
  BY <1>4
<1>6. PICK x \in Nat, y \in Nat : x = q * c /\ y = (q + 1) * c
  BY NextMultiple
<1>7. Before(j) = x /\ j * c = y
  BY <1>1, <1>5, <1>6 DEF Before
<1>8. End(j) \in Nat /\ (End(j) = y \/ End(j) = len)
  BY <1>1, <1>7, PlaceOf
<1>9. b \in (Before(j) + 1)..End(j)
  BY <1>1, <1>2, <1>3, <1>6, <1>7, <1>8
<1> QED BY <1>1, <1>9

LEMMA Bytes ==
  ASSUME IInv
  PROVE  BytesInPlace
<1>1. Inputs /\ Cut /\ Read /\ Placed
  BY DEF IInv
<1>2. CASE parserFile = NoFile /\ rows = <<>>
  BY <1>2 DEF BytesInPlace, IsDownloadComplete
<1>3. CASE /\ reading = "lines"
           /\ rows \in Seq([index : Nat, available : BOOLEAN]) /\ Len(rows) <= Len(seedRows)
           /\ parserFile = Parsed(Len(rows))
           /\ \A i \in 1..Len(rows) : rows[i].index = i - 1
           /\ disk \in Seq(Nat) /\ Len(disk) <= Len(data)
  <2>1. PICK m \in Nat, n \in Nat : /\ m = Len(rows) /\ n = Len(seedRows) /\ m <= n
                                    /\ DOMAIN rows = 1..m
    BY <1>1, <1>3, LenProperties, RowsAre
  <2>2. /\ parserFile.chunks = [i \in 1..m |-> ChunkOf(i)]
        /\ parserFile.totalChunks = Total
    BY <1>3, <2>1 DEF Parsed
  <2>3. PICK source \in Seq(Nat), target \in Seq(Nat) : source = data /\ target = disk
    BY <1>1, <1>3 DEF Inputs
  <2>4. ASSUME NEW i \in DOMAIN rows, rows[i].available
        PROVE  LET first == rows[i].index * maxChunkSize + 1
                   last == rows[i].index * maxChunkSize + parserFile.chunks[i].size
               IN last <= Len(disk) /\ SubSeq(disk, first, last) = SubSeq(data, first, last)
    <3>1. i \in 1..Len(seedRows) /\ i \in 1..Len(rows)
      BY <2>1
    <3>2. PICK from \in Nat, size \in Nat : /\ from = Before(i) /\ size = seedRows[i].size
                                            /\ End(i) = from + size /\ from + size <= Len(data)
      <4>1. Before(i) \in Nat /\ seedRows[i].size \in 1..maxChunkSize /\ End(i) <= Len(data)
        BY <1>1, <3>1, PlaceOf
      <4>2. seedRows[i].size \in Nat
        BY <4>1
      <4> QED BY <4>1, <4>2 DEF End
    <3>3. rows[i].index * maxChunkSize = from
      BY <1>3, <3>1, <3>2 DEF Before
    <3>4. parserFile.chunks[i].size = size
      BY <2>1, <2>2, <3>2 DEF ChunkOf, ParserChunk
    <3>5. from + size <= Len(disk) /\ \A b \in (from + 1)..(from + size) : disk[b] = data[b]
      BY <1>1, <2>4, <3>1, <3>2 DEF Placed
    <3>6. /\ SubSeq(source, from + 1, from + size) \in Seq(Nat)
          /\ Len(SubSeq(source, from + 1, from + size)) = size
          /\ \A b \in 1..size : SubSeq(source, from + 1, from + size)[b] = source[from + b]
      <4>1. from + size <= Len(source)
        BY <2>3, <3>2
      <4> QED BY <4>1, SliceIs
    <3>7. /\ SubSeq(target, from + 1, from + size) \in Seq(Nat)
          /\ Len(SubSeq(target, from + 1, from + size)) = size
          /\ \A b \in 1..size : SubSeq(target, from + 1, from + size)[b] = target[from + b]
      <4>1. from + size <= Len(target)
        BY <2>3, <3>5
      <4> QED BY <4>1, SliceIs
    <3>8. \A b \in 1..size : source[from + b] = target[from + b]
      <4>1. \A b \in 1..size : from + b \in (from + 1)..(from + size)
        OBVIOUS
      <4> QED BY <2>3, <3>5, <4>1
    <3>9. SubSeq(target, from + 1, from + size) = SubSeq(source, from + 1, from + size)
      BY <3>6, <3>7, <3>8, SeqEqual
    <3> QED BY <2>3, <3>3, <3>4, <3>5, <3>9
  <2>5. ASSUME IsDownloadComplete, Len(rows) = parserFile.totalChunks
        PROVE  disk = data
    <3>1. Len(seedRows) * maxChunkSize >= Len(data)
      BY <1>1, <1>3 DEF Read
    <3>2. m = n
      BY <1>1, <2>1, <2>2, <2>5, <3>1, TotalIs
    <3>3. ASSUME NEW b \in 1..Len(data) PROVE b <= Len(disk) /\ disk[b] = data[b]
      <4>1. PICK j \in 1..n : b \in (Before(j) + 1)..End(j)
        BY <1>1, <2>1, <3>1, Covered
      <4>2. rows[j].available
        BY <2>1, <2>5, <3>2 DEF IsDownloadComplete
      <4>3. End(j) <= Len(disk) /\ disk[b] = data[b]
        BY <1>1, <2>1, <3>2, <4>1, <4>2 DEF Placed
      <4>4. End(j) \in Nat /\ Before(j) \in Nat
        BY <1>1, <2>1, PlaceOf
      <4>5. b <= End(j) /\ Len(disk) \in Nat
        BY <1>3, <4>1, <4>4, LenProperties
      <4> QED BY <4>3, <4>4, <4>5
    <3>4. Len(target) = Len(source)
      <4>1. Len(target) \in Nat /\ Len(source) \in Nat /\ Len(target) <= Len(source)
        BY <1>3, <2>3
      <4>2. Len(source) # 0 => Len(source) <= Len(target)
        BY <2>3, <3>3, <4>1
      <4> QED BY <4>1, <4>2
    <3>5. \A b \in 1..Len(target) : target[b] = source[b]
      BY <2>3, <3>3, <3>4
    <3> QED BY <2>3, <3>4, <3>5, SeqEqual
  <2> QED BY <2>4, <2>5 DEF BytesInPlace
<1> QED BY <1>2, <1>3 DEF IInv, Loaded

(***************************************************************************)
(* Whatever the order and number of the responses, a row that is available *)
(* has its bytes where the registered file has them; and when all rows of  *)
(* a .p2p file that was read to its end are available, the downloaded file *)
(* is the registered one, for every size and chunk size: the file that     *)
(* CreatePreallocatedFile left is not longer and no hole stays zero.       *)
(***************************************************************************)
THEOREM BytesInPlaceHolds == Spec => []BytesInPlace
<1>1. IInv => BytesInPlace
  BY Bytes
<1> QED BY <1>1, Always, PTL

-----------------------------------------------------------------------------
(***************************************************************************)
(* The chunks                                                              *)
(***************************************************************************)

\* What FlattenSeq returns is the last of the sequences that begin with the
\* first part and continue with one part each.
LEMMA FlattenIs ==
  ASSUME NEW n \in Nat \ {0}, NEW seqs, Len(seqs) = n, NEW g,
         \A i \in 1..n : g[i] = IF i = 1 THEN seqs[i] ELSE g[i - 1] \o seqs[i]
  PROVE  FlattenSeq(seqs) = g[n]
<1> DEFINE f == CHOOSE h : h = [i \in 1..n |-> IF i = 1 THEN seqs[i] ELSE h[i - 1] \o seqs[i]]
<1>1. FlattenSeq(seqs) = f[n]
  BY DEF FlattenSeq
<1>2. f = [i \in 1..n |-> IF i = 1 THEN seqs[i] ELSE f[i - 1] \o seqs[i]]
  <2>1. PICK h : h = [i \in 1..n |-> g[i]]
    OBVIOUS
  <2>2. ASSUME NEW i \in 1..n PROVE h[i] = IF i = 1 THEN seqs[i] ELSE h[i - 1] \o seqs[i]
    <3>1. i # 1 => i - 1 \in 1..n
      OBVIOUS
    <3>2. h[i] = g[i] /\ (i # 1 => h[i - 1] = g[i - 1])
      BY <2>1, <3>1
    <3> QED BY <3>2
  <2>3. h = [i \in 1..n |-> IF i = 1 THEN seqs[i] ELSE h[i - 1] \o seqs[i]]
    BY <2>1, <2>2
  <2> QED BY <2>3, Zenon
<1> HIDE DEF f
<1>3. \A i \in 1..n : f[i] = g[i]
  <2> DEFINE T == {i \in 1..n : f[i] # g[i]}
  <2> SUFFICES ASSUME T # {} PROVE FALSE
    OBVIOUS
  <2>1. PICK i \in T : \A j \in T : i <= j
    <3>1. T \subseteq Nat
      OBVIOUS
    <3> HIDE DEF T
    <3> QED BY <3>1, LeastOf
  <2>2. i \in 1..n /\ f[i] # g[i]
    BY <2>1
  <2>3. i # 1
    BY <1>2, <2>2
  <2>4. i - 1 \in 1..n /\ i - 1 \notin T
    BY <2>1, <2>2, <2>3
  <2>5. f[i - 1] = g[i - 1]
    BY <2>4
  <2>6. f[i] = f[i - 1] \o seqs[i] /\ g[i] = g[i - 1] \o seqs[i]
    BY <1>2, <2>2, <2>3
  <2> QED BY <2>2, <2>5, <2>6
<1> QED BY <1>1, <1>3

\* Two parts of a sequence that follow each other.
LEMMA SlicesJoin ==
  ASSUME NEW s \in Seq(Nat), NEW from \in Nat, NEW size \in Nat, from + size <= Len(s)
  PROVE  SubSeq(s, 1, from) \o SubSeq(s, from + 1, from + size) = SubSeq(s, 1, from + size)
<1>1. ASSUME NEW m \in Nat, m <= Len(s)
      PROVE  /\ SubSeq(s, 1, m) \in Seq(Nat) /\ Len(SubSeq(s, 1, m)) = m
             /\ \A b \in 1..m : SubSeq(s, 1, m)[b] = s[b]
  <2>1. PICK zero \in Nat : zero = 0 /\ zero + 1 = 1 /\ zero + m = m
    OBVIOUS
  <2>2. /\ SubSeq(s, zero + 1, zero + m) \in Seq(Nat) /\ Len(SubSeq(s, zero + 1, zero + m)) = m
        /\ \A b \in 1..m : SubSeq(s, zero + 1, zero + m)[b] = s[zero + b]
    <3>1. zero + m <= Len(s)
      BY <1>1, <2>1
    <3> QED BY <3>1, SliceIs
  <2>3. \A b \in 1..m : zero + b = b
    BY <2>1
  <2> QED BY <2>1, <2>2, <2>3
<1>2. PICK left \in Seq(Nat) : /\ left = SubSeq(s, 1, from) /\ Len(left) = from
                               /\ \A b \in 1..from : left[b] = s[b]
  <2>1. from <= Len(s)
    OBVIOUS
  <2> QED BY <1>1, <2>1
<1>3. PICK right \in Seq(Nat) : /\ right = SubSeq(s, from + 1, from + size) /\ Len(right) = size
                                /\ \A b \in 1..size : right[b] = s[from + b]
  BY SliceIs
<1>4. PICK whole \in Seq(Nat) : /\ whole = SubSeq(s, 1, from + size) /\ Len(whole) = from + size
                                /\ \A b \in 1..(from + size) : whole[b] = s[b]
  <2>1. PICK m \in Nat : m = from + size /\ m <= Len(s)
    OBVIOUS
  <2> QED BY <1>1, <2>1
<1>5. /\ left \o right \in Seq(Nat) /\ Len(left \o right) = from + size
      /\ \A b \in 1..(from + size) :
            (left \o right)[b] = IF b <= from THEN left[b] ELSE right[b - from]
  <2>1. /\ left \o right \in Seq(Nat) /\ Len(left \o right) = Len(left) + Len(right)
        /\ \A b \in 1..(Len(left) + Len(right)) :
              (left \o right)[b] = IF b <= Len(left) THEN left[b] ELSE right[b - Len(left)]
    BY ConcatProperties
  <2> QED BY <1>2, <1>3, <2>1
<1>6. ASSUME NEW b \in 1..(from + size) PROVE (left \o right)[b] = whole[b]
  <2>1. CASE b <= from
    BY <1>2, <1>4, <1>5, <2>1
  <2>2. CASE b > from
    <3>1. PICK a \in 1..size : a = b - from /\ from + a = b
      BY <2>2
    <3>2. (left \o right)[b] = right[a]
      BY <1>5, <2>2, <3>1
    <3>3. right[a] = s[b] /\ whole[b] = s[b]
      BY <1>3, <1>4, <3>1
    <3> QED BY <3>2, <3>3
  <2>3. b <= from \/ b > from
    OBVIOUS
  <2> QED BY <2>1, <2>2, <2>3
<1>7. left \o right = whole
  BY <1>4, <1>5, <1>6, SeqEqual
<1> QED BY <1>2, <1>3, <1>4, <1>7

LEMMA Agree ==
  ASSUME IInv
  PROVE  ChunksAgree
<1> SUFFICES ASSUME reading = "lines"
             PROVE  /\ Registered.totalChunks = Len(seedRows)
                    /\ FlattenSeq([i \in DOMAIN seedRows |-> Registered.chunks[i].hash]) = data
  BY DEF ChunksAgree
<1>1. Inputs /\ Cut /\ Len(seedRows) * maxChunkSize >= Len(data)
  BY DEF IInv, Read
<1>2. PICK n \in Nat, c \in Nat \ {0}, len \in Nat : /\ n = Len(seedRows) /\ c = maxChunkSize /\ len = Len(data)
                                                     /\ DOMAIN seedRows = 1..n /\ n * c >= len
  <2>1. DOMAIN seedRows = 1..Len(seedRows)
    BY <1>1, LenProperties DEF Cut
  <2> QED BY <1>1, <2>1, SizesAre, RowsAre
<1>3. Registered.totalChunks = n
  BY <1>1, <1>2, RegisteredIs, TotalIs
<1>4. PICK seqs : /\ seqs = [i \in DOMAIN seedRows |-> Registered.chunks[i].hash]
                  /\ seqs = [i \in 1..n |-> SubSeq(data, Before(i) + 1, End(i))]
  <2>1. Registered.chunks = [i \in 1..n |-> ChunkOf(i)]
    BY <1>1, <1>2, RegisteredIs
  <2>2. \A i \in 1..n : Registered.chunks[i].hash = SubSeq(data, Before(i) + 1, End(i))
    BY <2>1 DEF ChunkOf, ParserChunk
  <2> QED BY <1>2, <2>2
<1>5. Len(seqs) = n
  BY <1>4
<1>6. PICK bytes \in Seq(Nat) : bytes = data /\ Len(bytes) = len
  BY <1>1, <1>2 DEF Inputs
<1>7. FlattenSeq(seqs) = data
  <2>1. CASE n = 0
    <3>1. seqs = <<>> /\ FlattenSeq(seqs) = seqs
      BY <1>4, <1>5, <2>1 DEF FlattenSeq
    <3>2. len = 0
      BY <1>2, <2>1
    <3> QED BY <1>6, <3>1, <3>2
  <2>2. CASE n # 0
    <3> DEFINE g == [i \in 1..n |-> SubSeq(bytes, 1, End(i))]
    <3>1. ASSUME NEW i \in 1..n
          PROVE  g[i] = IF i = 1 THEN seqs[i] ELSE g[i - 1] \o seqs[i]
      <4>1. PICK from \in Nat, size \in Nat : from = Before(i) /\ End(i) = from + size /\ from + size <= len
        <5>1. Before(i) \in Nat /\ seedRows[i].size \in Nat /\ End(i) <= Len(data)
          BY <1>1, <1>2, PlaceOf, SizesAre
        <5> QED BY <1>2, <5>1 DEF End
      <4>2. seqs[i] = SubSeq(bytes, from + 1, from + size) /\ g[i] = SubSeq(bytes, 1, from + size)
        BY <1>4, <1>6, <4>1
      <4>3. CASE i = 1
        <5>1. from = 0
          BY <1>2, <4>1, <4>3 DEF Before
        <5>2. seqs[i] = SubSeq(bytes, 1, from + size)
          BY <4>2, <5>1
        <5> QED BY <4>2, <4>3, <5>2
      <4>4. CASE i # 1
        <5>1. PICK j \in 1..n : j = i - 1
          BY <4>4
        <5>2. End(j) = j * c \/ End(j) = len
          BY <1>1, <1>2, PlaceOf
        <5>3. End(j) \in Nat /\ End(j) <= j * c
          BY <1>1, <1>2, PlaceOf
        <5>4. j * c = from /\ from < len
          <6>1. Before(i) < Len(data)
            BY <1>1, <1>2 DEF Cut
          <6> QED BY <1>2, <4>1, <5>1, <6>1 DEF Before
        <5>5. End(j) = from
          BY <5>2, <5>3, <5>4
        <5>6. g[j] = SubSeq(bytes, 1, from)
          BY <5>5
        <5>7. SubSeq(bytes, 1, from) \o SubSeq(bytes, from + 1, from + size) = SubSeq(bytes, 1, from + size)
          BY <1>6, <4>1, SlicesJoin
        <5> QED BY <4>2, <4>4, <5>1, <5>6, <5>7
      <4> QED BY <4>3, <4>4
    <3>2. g[n] = SubSeq(bytes, 1, End(n))
      <4>1. n \in 1..n
        BY <2>2
      <4> QED BY <4>1
    <3>3. FlattenSeq(seqs) = SubSeq(bytes, 1, End(n))
      <4>1. n \in Nat \ {0}
        BY <2>2
      <4>2. \A i \in 1..n : g[i] = IF i = 1 THEN seqs[i] ELSE g[i - 1] \o seqs[i]
        BY <3>1
      <4> HIDE DEF g
      <4>3. FlattenSeq(seqs) = g[n]
        BY <1>5, <4>1, <4>2, FlattenIs
      <4> QED BY <3>2, <4>3
    <3>4. End(n) = len
      <4>1. /\ End(n) \in Nat /\ End(n) <= len
            /\ End(n) = n * c \/ End(n) = len
        BY <1>1, <1>2, <2>2, PlaceOf
      <4> QED BY <1>2, <4>1
    <3>5. SubSeq(bytes, 1, len) = bytes
      BY <1>6
    <3> QED BY <1>6, <3>3, <3>4, <3>5
  <2> QED BY <2>1, <2>2
<1> QED BY <1>3, <1>4, <1>7

(***************************************************************************)
(* For every size and chunk size, CalculateTotalChunks is the number of    *)
(* chunks that the reading loop of handleRegisterSignal finds, and these   *)
(* are the file when they are put together.                                *)
(***************************************************************************)
THEOREM ChunksAgreeHolds == Spec => []ChunksAgree
<1>1. IInv => ChunksAgree
  BY Agree
<1> QED BY <1>1, Always, PTL
=============================================================================
