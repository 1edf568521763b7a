-------------------------- MODULE TransportProofs --------------------------
(***************************************************************************)
(* Proofs about Transport for any connections, peers, callers, capacities  *)
(* and numbers of messages.                                                *)
(***************************************************************************)
EXTENDS Transport, TLAPS

-----------------------------------------------------------------------------
(***************************************************************************)
(* The order of messages                                                   *)
(***************************************************************************)

StreamTypes ==
    /\ sent \in [Conns -> Nat]
    /\ recv \in [Conns -> Seq(Nat)]
    /\ got \in [Conns -> Seq(Nat)]

\* Of one connection: what was received comes before what is buffered, which
\* is in order, and none of it was sent later than now.
InOrder(s, r, g) ==
    /\ \A i \in 1..Len(r) : 1 <= r[i] /\ r[i] <= s
    /\ \A k \in 1..Len(g) : g[k] <= s
    /\ \A i, j \in 1..Len(r) : i < j => r[i] < r[j]
    /\ \A k \in 1..Len(g), i \in 1..Len(r) : g[k] < r[i]

StreamInv == StreamTypes /\ \A c \in Conns : InOrder(sent[c], recv[c], got[c])

\* A message that is sent and buffered keeps the order ...
LEMMA BufferKeepsOrder ==
    ASSUME NEW s \in Nat, NEW r \in Seq(Nat), NEW g \in Seq(Nat), InOrder(s, r, g)
    PROVE  InOrder(s + 1, Append(r, s + 1), g)
<1> DEFINE b == Append(r, s + 1)
           n == Len(r)
<1>1. /\ n \in Nat /\ Len(b) = n + 1 /\ b[n + 1] = s + 1
      /\ \A i \in 1..n : b[i] = r[i] /\ r[i] \in Nat
  OBVIOUS
<1>2. \A k \in 1..Len(g) : g[k] \in Nat /\ g[k] <= s
  BY DEF InOrder
<1>3. \A i \in 1..n : b[i] \in Nat /\ 1 <= b[i] /\ b[i] <= s
  BY <1>1 DEF InOrder
<1>4. \A i, j \in 1..n : i < j => b[i] < b[j]
  BY <1>1 DEF InOrder
<1>5. \A k \in 1..Len(g), i \in 1..n : g[k] < b[i]
  BY <1>1 DEF InOrder
<1> HIDE DEF b, n
<1>6. \A i \in 1..Len(b) : i \in 1..n \/ (i = n + 1 /\ b[i] = s + 1)
  BY <1>1
<1>7. \A i \in 1..Len(b) : 1 <= b[i] /\ b[i] <= s + 1
  BY <1>1, <1>3, <1>6
<1>8. \A k \in 1..Len(g) : g[k] <= s + 1
  BY <1>2
<1>9. ASSUME NEW i \in 1..Len(b), NEW j \in 1..Len(b), i < j
      PROVE  b[i] < b[j]
  <2>1. i \in 1..n
    BY <1>1, <1>9
  <2>2. CASE j \in 1..n
    BY <2>1, <2>2, <1>4, <1>9
  <2>3. CASE b[j] = s + 1
    BY <2>1, <2>3, <1>3
  <2>4. QED
    BY <2>2, <2>3, <1>6
<1>10. ASSUME NEW k \in 1..Len(g), NEW i \in 1..Len(b)
       PROVE  g[k] < b[i]
  BY <1>10, <1>2, <1>5, <1>6
<1>11. QED
  BY <1>7, <1>8, <1>9, <1>10 DEF InOrder, b

\* ... and so does one that is sent and dropped ...
LEMMA DropKeepsOrder ==
    ASSUME NEW s \in Nat, NEW r \in Seq(Nat), NEW g \in Seq(Nat), InOrder(s, r, g)
    PROVE  InOrder(s + 1, r, g)
BY DEF InOrder

\* ... and one that is received, which comes after all received before.
LEMMA RecvKeepsOrder ==
    ASSUME NEW s \in Nat, NEW r \in Seq(Nat), NEW g \in Seq(Nat), InOrder(s, r, g), r # <<>>
    PROVE  /\ InOrder(s, Tail(r), Append(g, Head(r)))
           /\ Head(r) \in 1..s
           /\ \A k \in 1..Len(g) : g[k] < Head(r)
<1> DEFINE t == Tail(r)
           a == Append(g, Head(r))
           n == Len(g)
<1>1. Head(r) = r[1] /\ 1 \in 1..Len(r)
  OBVIOUS
<1>2. Len(t) = Len(r) - 1 /\ \A i \in 1..Len(t) : t[i] = r[i + 1] /\ i + 1 \in 1..Len(r)
  OBVIOUS
<1>3. n \in Nat /\ Len(a) = n + 1 /\ a[n + 1] = r[1] /\ \A k \in 1..n : a[k] = g[k]
  BY <1>1
<1>4. \A i \in 1..Len(r) : 1 <= r[i] /\ r[i] <= s
  BY DEF InOrder
<1>5. \A k \in 1..n : g[k] <= s
  BY DEF InOrder
<1>6. \A i, j \in 1..Len(r) : i < j => r[i] < r[j]
  BY DEF InOrder
<1>7. \A k \in 1..n, i \in 1..Len(r) : g[k] < r[i]
  BY DEF InOrder
<1> HIDE DEF t, a, n
<1>8. \A k \in 1..Len(a) : k \in 1..n \/ a[k] = r[1]
  BY <1>3
<1>9. \A i \in 1..Len(t) : 1 <= t[i] /\ t[i] <= s
  BY <1>2, <1>4
<1>10. \A k \in 1..Len(a) : a[k] <= s
  BY <1>1, <1>3, <1>4, <1>5, <1>8
<1>11. ASSUME NEW i \in 1..Len(t), NEW j \in 1..Len(t), i < j
       PROVE  t[i] < t[j]
  <2>1. i + 1 \in 1..Len(r) /\ j + 1 \in 1..Len(r) /\ i + 1 < j + 1
    BY <1>2, <1>11
  <2>2. r[i + 1] < r[j + 1]
    BY <2>1, <1>6
  <2>3. QED
    BY <2>2, <1>2
<1>12. ASSUME NEW k \in 1..Len(a), NEW i \in 1..Len(t)
       PROVE  a[k] < t[i]
  <2>1. 1 < i + 1 /\ i + 1 \in 1..Len(r) /\ t[i] = r[i + 1]
    BY <1>2
  <2>2. CASE k \in 1..n
    BY <2>1, <2>2, <1>3, <1>7
  <2>3. CASE a[k] = r[1]
    BY <2>1, <2>3, <1>1, <1>6
  <2>4. QED
    BY <2>2, <2>3, <1>8
<1>13. InOrder(s, t, a)
  BY <1>9, <1>10, <1>11, <1>12 DEF InOrder
<1>14. Head(r) \in 1..s
  BY <1>1, <1>4
<1>15. QED
  BY <1>13, <1>14, <1>1, <1>7 DEF t, a, n

LEMMA StreamInitial ==
    Init => StreamInv /\ S!Init
<1> SUFFICES ASSUME Init PROVE StreamInv /\ S!Init
  OBVIOUS
<1>1. \A c \in Conns : sent[c] = 0 /\ recv[c] = <<>> /\ got[c] = <<>>
  BY DEF Init
<1>2. StreamTypes
  BY DEF Init, StreamTypes
<1>3. \A c \in Conns : InOrder(sent[c], recv[c], got[c])
  BY <1>1 DEF InOrder
<1>4. QED
  BY <1>2, <1>3 DEF StreamInv, Init, S!Init

\* What one connection does leaves the others as they are.
LEMMA OnMessageSends ==
    ASSUME StreamInv, NEW c \in Conns, OnMessage(c)
    PROVE  StreamInv' /\ S!Send(c)
<1>1. sent' = [sent EXCEPT ![c] = @ + 1] /\ got' = got
  BY DEF OnMessage
<1>2. recv' = recv \/ recv' = [recv EXCEPT ![c] = Append(@, sent[c] + 1)]
  BY DEF OnMessage
<1>3. sent[c] \in Nat /\ recv[c] \in Seq(Nat) /\ got[c] \in Seq(Nat)
  BY DEF StreamInv, StreamTypes
<1>4. recv' \in [Conns -> Seq(Nat)]
  <2>1. Append(recv[c], sent[c] + 1) \in Seq(Nat)
    BY <1>3
  <2>2. QED
    BY <1>2, <2>1 DEF StreamInv, StreamTypes
<1>5. StreamTypes'
  <2>1. sent[c] + 1 \in Nat
    BY <1>3
  <2>2. sent' \in [Conns -> Nat]
    BY <2>1, <1>1 DEF StreamInv, StreamTypes
  <2>3. QED
    BY <2>2, <1>1, <1>4 DEF StreamInv, StreamTypes
<1>6. ASSUME NEW d \in Conns
      PROVE  InOrder(sent'[d], recv'[d], got'[d])
  <2>1. InOrder(sent[d], recv[d], got[d])
    BY DEF StreamInv
  <2>2. CASE d # c
    <3>1. sent'[d] = sent[d] /\ recv'[d] = recv[d] /\ got'[d] = got[d]
      BY <2>2, <1>1, <1>2 DEF StreamInv, StreamTypes
    <3>2. QED
      BY <2>1, <3>1
  <2>3. CASE d = c
    <3>1. sent'[c] = sent[c] + 1 /\ got'[c] = got[c]
      BY <1>1 DEF StreamInv, StreamTypes
    <3>2. recv'[c] = recv[c] \/ recv'[c] = Append(recv[c], sent[c] + 1)
      BY <1>2 DEF StreamInv, StreamTypes
    <3>3. QED
      BY <2>1, <2>3, <3>1, <3>2, <1>3, BufferKeepsOrder, DropKeepsOrder
  <2>4. QED
    BY <2>2, <2>3
<1>7. QED
  BY <1>1, <1>5, <1>6 DEF StreamInv, S!Send

LEMMA RecvDelivers ==
    ASSUME StreamInv, NEW c \in Conns, Recv(c)
    PROVE  StreamInv' /\ S!Deliver(c)
<1>1. /\ recv[c] # <<>> /\ sent' = sent
      /\ got' = [got EXCEPT ![c] = Append(@, Head(recv[c]))]
      /\ recv' = [recv EXCEPT ![c] = Tail(@)]
  BY DEF Recv
<1>2. sent[c] \in Nat /\ recv[c] \in Seq(Nat) /\ got[c] \in Seq(Nat)
  BY DEF StreamInv, StreamTypes
<1>3. /\ InOrder(sent[c], Tail(recv[c]), Append(got[c], Head(recv[c])))
      /\ Head(recv[c]) \in 1..sent[c]
      /\ \A k \in 1..Len(got[c]) : got[c][k] < Head(recv[c])
  BY <1>1, <1>2, RecvKeepsOrder DEF StreamInv
<1>4. StreamTypes'
  <2>1. Tail(recv[c]) \in Seq(Nat) /\ Append(got[c], Head(recv[c])) \in Seq(Nat)
    BY <1>1, <1>2
  <2>2. QED
    BY <2>1, <1>1 DEF StreamInv, StreamTypes
<1>5. ASSUME NEW d \in Conns
      PROVE  InOrder(sent'[d], recv'[d], got'[d])
  <2>1. CASE d # c
    BY <2>1, <1>1 DEF StreamInv, StreamTypes
  <2>2. CASE d = c
    <3>1. recv'[c] = Tail(recv[c]) /\ got'[c] = Append(got[c], Head(recv[c])) /\ sent'[c] = sent[c]
      BY <1>1 DEF StreamInv, StreamTypes
    <3>2. QED
      BY <2>2, <3>1, <1>3
  <2>3. QED
    BY <2>1, <2>2
<1>6. QED
  BY <1>1, <1>3, <1>4, <1>5 DEF StreamInv, S!Deliver

LEMMA StreamStep ==
    StreamInv /\ [Next]_vars => StreamInv' /\ [S!Next]_(S!vars)
<1> SUFFICES ASSUME StreamInv, [Next]_vars PROVE StreamInv' /\ [S!Next]_(S!vars)
  OBVIOUS
<1>1. ASSUME NEW c \in Conns, OnMessage(c) PROVE StreamInv' /\ [S!Next]_(S!vars)
  BY <1>1, OnMessageSends DEF S!Next
<1>2. ASSUME NEW c \in Conns, Recv(c) PROVE StreamInv' /\ [S!Next]_(S!vars)
  BY <1>2, RecvDelivers DEF S!Next
<1>3. ASSUME UNCHANGED <<sent, recv, got>> PROVE StreamInv' /\ [S!Next]_(S!vars)
  BY <1>3 DEF StreamInv, StreamTypes, S!vars
<1>4. ASSUME NEW c \in Conns,
             \/ OnDataChannel(c) \/ OnOpen(c) \/ SendIncoming(c) \/ Fails(c)
             \/ OnClose(c) \/ OnConnectionStateChange(c) \/ Close(c)
      PROVE  UNCHANGED <<sent, recv, got>>
  BY <1>4 DEF OnDataChannel, OnOpen, SendIncoming, Fails, OnClose,
     OnConnectionStateChange, Close, streamVars
<1>5. ASSUME NEW c \in Conns, NEW p \in Peers, Connect(c, p)
      PROVE  UNCHANGED <<sent, recv, got>>
  BY <1>5 DEF Connect, streamVars
<1>6. ASSUME NEW g \in Callers,
             \/ HandleSignal(g) \/ (\E p \in Peers : LookupConnection(g, p))
             \/ (\E c \in Conns : CreateConnection(g, c))
      PROVE  UNCHANGED <<sent, recv, got>>
  BY <1>6 DEF HandleSignal, LookupConnection, CreateConnection, streamVars
<1>7. ASSUME Accept \/ CloseTransport \/ UNCHANGED vars
      PROVE  UNCHANGED <<sent, recv, got>>
  BY <1>7 DEF Accept, CloseTransport, vars, streamVars
<1>8. QED
  BY <1>1, <1>2, <1>3, <1>4, <1>5, <1>6, <1>7 DEF Next

(***************************************************************************)
(* Recv keeps its promise for every capacity and any number of messages:   *)
(* transport and connection implement Stream, whatever the callbacks that  *)
(* drop messages and close channels do (connection.go:70-80).              *)
(***************************************************************************)
THEOREM OrderedHolds == Spec => Ordered
<1>1. Init => StreamInv /\ S!Init
  BY StreamInitial
<1>2. StreamInv /\ [Next]_vars => StreamInv' /\ [S!Next]_(S!vars)
  BY StreamStep
<1>3. QED
  BY <1>1, <1>2, PTL DEF Spec, Ordered, S!Spec

-----------------------------------------------------------------------------
(***************************************************************************)
(* Types, and who is accepted                                              *)
(***************************************************************************)

\* What is described, stored in the table or handled by a caller was made, and
\* nothing happens to the data channel of a connection that was not.
Made ==
    /\ \A c \in described : peerOf[c] # NoPeer
    /\ \A c \in Conns : peerOf[c] = NoPeer => stage[c] = "none"
    /\ \A p \in Peers : table[p] # NoConn => peerOf[table[p]] # NoPeer
    /\ \A g \in Callers :
          /\ caller[g].st # "idle" => caller[g].peer \in Peers
          /\ caller[g].st = "signal" => caller[g].conn \in Conns /\ peerOf[caller[g].conn] # NoPeer

\* TypeOK by groups of variables.
ConnTypes ==
    /\ peerOf \in [Conns -> Peers \cup {NoPeer}]
    /\ initiator \subseteq Conns
    /\ described \subseteq Conns
    /\ answers \in [Conns -> Nat]
    /\ table \in [Peers -> Conns \cup {NoConn}]
    /\ caller \in [Callers -> [st : {"idle", "create", "signal"}, peer : Peers \cup {NoPeer},
                               conn : Conns \cup {NoConn}]]

EndTypes ==
    /\ stage \in [Conns -> Stages]
    /\ reading \subseteq Conns
    /\ states \in [Conns -> Nat]
    /\ closed \subseteq Conns
    /\ shut \in BOOLEAN
    /\ panicked \in BOOLEAN

BufferTypes ==
    /\ recv \in [Conns -> Seq(Nat)]
    /\ \A c \in Conns : Len(recv[c]) <= RecvCap
    /\ sent \in [Conns -> Nat]
    /\ got \in [Conns -> Seq(Nat)]

AcceptTypes ==
    /\ incoming \in Seq(Conns) /\ Len(incoming) <= InCap
    /\ offering \subseteq Conns
    /\ accepted \in Seq(Conns)


LEMMA TypeParts ==
    TypeOK <=> ConnTypes /\ EndTypes /\ BufferTypes /\ AcceptTypes
BY DEF TypeOK, ConnTypes, EndTypes, BufferTypes, AcceptTypes

LEMMA ConnTypesStep ==
    ASSUME ConnTypes, Made, [Next]_vars
    PROVE  ConnTypes'
<1>1. ASSUME NEW c \in Conns, OnDataChannel(c) PROVE ConnTypes'
  BY <1>1 DEF ConnTypes, Made, At, Idle,
     OnDataChannel, connVars, endVars, streamVars, acceptVars
<1>2. ASSUME NEW c \in Conns, OnOpen(c) PROVE ConnTypes'
  BY <1>2 DEF ConnTypes, Made, At, Idle,
     OnOpen, connVars, endVars, streamVars, acceptVars
<1>3. ASSUME NEW c \in Conns, SendIncoming(c) PROVE ConnTypes'
  BY <1>3 DEF ConnTypes, Made, At, Idle,
     SendIncoming, connVars, endVars, streamVars, acceptVars
<1>4. ASSUME NEW c \in Conns, OnMessage(c) PROVE ConnTypes'
  BY <1>4 DEF ConnTypes, Made, At, Idle,
     OnMessage, connVars, endVars, streamVars, acceptVars
<1>5. ASSUME NEW c \in Conns, Fails(c) PROVE ConnTypes'
  BY <1>5 DEF ConnTypes, Made, At, Idle,
     Fails, connVars, endVars, streamVars, acceptVars
<1>6. ASSUME NEW c \in Conns, OnClose(c) PROVE ConnTypes'
  BY <1>6 DEF ConnTypes, Made, At, Idle,
     OnClose, CloseRecvChan, connVars, endVars, streamVars, acceptVars
<1>7. ASSUME NEW c \in Conns, OnConnectionStateChange(c) PROVE ConnTypes'
  BY <1>7 DEF ConnTypes, Made, At, Idle,
     OnConnectionStateChange, CloseRecvChan, connVars, endVars, streamVars, acceptVars
<1>8. ASSUME NEW c \in Conns, Recv(c) PROVE ConnTypes'
  BY <1>8 DEF ConnTypes, Made, At, Idle,
     Recv, connVars, endVars, streamVars, acceptVars
<1>9. ASSUME NEW c \in Conns, Close(c) PROVE ConnTypes'
  BY <1>9 DEF ConnTypes, Made, At, Idle,
     Close, ClosesAll, connVars, endVars, streamVars, acceptVars
<1>10. ASSUME NEW c \in Conns, NEW p \in Peers, Connect(c, p) PROVE ConnTypes'
  BY <1>10 DEF ConnTypes, Made, At, Idle,
     Connect, NewConnection, connVars, endVars, streamVars, acceptVars
<1>11. ASSUME NEW g \in Callers, NEW c \in Conns, CreateConnection(g, c) PROVE ConnTypes'
  BY <1>11 DEF ConnTypes, Made, At, Idle,
     CreateConnection, NewConnection, connVars, endVars, streamVars, acceptVars
<1>12. ASSUME NEW g \in Callers, HandleSignal(g) PROVE ConnTypes'
  BY <1>12 DEF ConnTypes, Made, At, Idle,
     HandleSignal, connVars, endVars, streamVars, acceptVars
<1>13. ASSUME NEW g \in Callers, NEW p \in Peers, LookupConnection(g, p) PROVE ConnTypes'
  BY <1>13 DEF ConnTypes, Made, At, Idle,
     LookupConnection, connVars, endVars, streamVars, acceptVars
<1>14. ASSUME Accept PROVE ConnTypes'
  BY <1>14 DEF ConnTypes, Made, At, Idle,
     Accept, connVars, endVars, streamVars, acceptVars
<1>15. ASSUME CloseTransport PROVE ConnTypes'
  BY <1>15 DEF ConnTypes, Made, At, Idle,
     CloseTransport, ClosesAll, connVars, endVars, streamVars, acceptVars
<1>16. ASSUME UNCHANGED vars PROVE ConnTypes'
  BY <1>16 DEF ConnTypes, Made, At, Idle, vars, connVars, endVars, streamVars, acceptVars
<1>17. QED
  BY <1>1, <1>2, <1>3, <1>4, <1>5, <1>6, <1>7, <1>8, <1>9, <1>10, <1>11, <1>12, <1>13, <1>14, <1>15, <1>16 DEF Next

LEMMA EndTypesStep ==
    ASSUME EndTypes, [Next]_vars
    PROVE  EndTypes'
<1>1. ASSUME NEW c \in Conns, OnDataChannel(c) PROVE EndTypes'
  BY <1>1 DEF EndTypes, Stages,
     OnDataChannel, connVars, endVars, streamVars, acceptVars
<1>2. ASSUME NEW c \in Conns, OnOpen(c) PROVE EndTypes'
  BY <1>2 DEF EndTypes, Stages,
     OnOpen, connVars, endVars, streamVars, acceptVars
<1>3. ASSUME NEW c \in Conns, SendIncoming(c) PROVE EndTypes'
  BY <1>3 DEF EndTypes, Stages,
     SendIncoming, connVars, endVars, streamVars, acceptVars
<1>4. ASSUME NEW c \in Conns, OnMessage(c) PROVE EndTypes'
  BY <1>4 DEF EndTypes, Stages,
     OnMessage, connVars, endVars, streamVars, acceptVars
<1>5. ASSUME NEW c \in Conns, Fails(c) PROVE EndTypes'
  BY <1>5 DEF EndTypes, Stages,
     Fails, connVars, endVars, streamVars, acceptVars
<1>6. ASSUME NEW c \in Conns, OnClose(c) PROVE EndTypes'
  BY <1>6 DEF EndTypes, Stages,
     OnClose, CloseRecvChan, connVars, endVars, streamVars, acceptVars
<1>7. ASSUME NEW c \in Conns, OnConnectionStateChange(c) PROVE EndTypes'
  BY <1>7 DEF EndTypes, Stages,
     OnConnectionStateChange, CloseRecvChan, connVars, endVars, streamVars, acceptVars
<1>8. ASSUME NEW c \in Conns, Recv(c) PROVE EndTypes'
  BY <1>8 DEF EndTypes, Stages,
     Recv, connVars, endVars, streamVars, acceptVars
<1>9. ASSUME NEW c \in Conns, Close(c) PROVE EndTypes'
  BY <1>9 DEF EndTypes, Stages,
     Close, ClosesAll, connVars, endVars, streamVars, acceptVars
<1>10. ASSUME NEW c \in Conns, NEW p \in Peers, Connect(c, p) PROVE EndTypes'
  BY <1>10 DEF EndTypes, Stages,
     Connect, NewConnection, connVars, endVars, streamVars, acceptVars
<1>11. ASSUME NEW g \in Callers, NEW c \in Conns, CreateConnection(g, c) PROVE EndTypes'
  BY <1>11 DEF EndTypes, Stages,
     CreateConnection, NewConnection, connVars, endVars, streamVars, acceptVars
<1>12. ASSUME NEW g \in Callers, HandleSignal(g) PROVE EndTypes'
  BY <1>12 DEF EndTypes, Stages,
     HandleSignal, connVars, endVars, streamVars, acceptVars
<1>13. ASSUME NEW g \in Callers, NEW p \in Peers, LookupConnection(g, p) PROVE EndTypes'
  BY <1>13 DEF EndTypes, Stages,
     LookupConnection, connVars, endVars, streamVars, acceptVars
<1>14. ASSUME Accept PROVE EndTypes'
  BY <1>14 DEF EndTypes, Stages,
     Accept, connVars, endVars, streamVars, acceptVars
<1>15. ASSUME CloseTransport PROVE EndTypes'
  BY <1>15 DEF EndTypes, Stages,
     CloseTransport, ClosesAll, connVars, endVars, streamVars, acceptVars
<1>16. ASSUME UNCHANGED vars PROVE EndTypes'
  BY <1>16 DEF EndTypes, Stages, vars, connVars, endVars, streamVars, acceptVars
<1>17. QED
  BY <1>1, <1>2, <1>3, <1>4, <1>5, <1>6, <1>7, <1>8, <1>9, <1>10, <1>11, <1>12, <1>13, <1>14, <1>15, <1>16 DEF Next

LEMMA BufferTypesStep ==
    ASSUME BufferTypes, [Next]_vars
    PROVE  BufferTypes'
<1>1. ASSUME NEW c \in Conns, OnDataChannel(c) PROVE BufferTypes'
  BY <1>1 DEF BufferTypes,
     OnDataChannel, connVars, endVars, streamVars, acceptVars
<1>2. ASSUME NEW c \in Conns, OnOpen(c) PROVE BufferTypes'
  BY <1>2 DEF BufferTypes,
     OnOpen, connVars, endVars, streamVars, acceptVars
<1>3. ASSUME NEW c \in Conns, SendIncoming(c) PROVE BufferTypes'
  BY <1>3 DEF BufferTypes,
     SendIncoming, connVars, endVars, streamVars, acceptVars
<1>4. ASSUME NEW c \in Conns, OnMessage(c) PROVE BufferTypes'
  <2>1. sent[c] \in Nat /\ recv[c] \in Seq(Nat)
    BY <1>4 DEF BufferTypes
  <2>2. sent' = [sent EXCEPT ![c] = sent[c] + 1] /\ got' = got
    BY <1>4 DEF OnMessage
  <2>3. \/ recv' = recv
        \/ /\ Len(recv[c]) < RecvCap
           /\ recv' = [recv EXCEPT ![c] = Append(recv[c], sent[c] + 1)]
    BY <1>4 DEF OnMessage
  <2>3a. RecvCap \in Nat
    BY TransportAssumption
  <2>4. /\ Append(recv[c], sent[c] + 1) \in Seq(Nat)
        /\ Len(Append(recv[c], sent[c] + 1)) = Len(recv[c]) + 1
        /\ Len(recv[c]) \in Nat
    BY <2>1
  <2>5. recv' \in [Conns -> Seq(Nat)] /\ \A d \in Conns : Len(recv'[d]) <= RecvCap
    <3> DEFINE b == Append(recv[c], sent[c] + 1)
    <3> HIDE DEF b
    <3>1. CASE recv' = recv
      BY <3>1 DEF BufferTypes
    <3>2. CASE Len(recv[c]) < RecvCap /\ recv' = [recv EXCEPT ![c] = b]
      <4>1. b \in Seq(Nat) /\ Len(b) = Len(recv[c]) + 1
        BY <2>4 DEF b
      <4>2. Len(b) <= RecvCap
        BY <4>1, <2>4, <2>3a, <3>2
      <4>3. QED
        BY <3>2, <4>1, <4>2 DEF BufferTypes
    <3>3. QED
      BY <2>3, <3>1, <3>2 DEF b
  <2>6. sent' \in [Conns -> Nat]
    BY <2>1, <2>2 DEF BufferTypes
  <2>7. QED
    BY <2>2, <2>5, <2>6 DEF BufferTypes
<1>5. ASSUME NEW c \in Conns, Fails(c) PROVE BufferTypes'
  BY <1>5 DEF BufferTypes,
     Fails, connVars, endVars, streamVars, acceptVars
<1>6. ASSUME NEW c \in Conns, OnClose(c) PROVE BufferTypes'
  BY <1>6 DEF BufferTypes,
     OnClose, CloseRecvChan, connVars, endVars, streamVars, acceptVars
<1>7. ASSUME NEW c \in Conns, OnConnectionStateChange(c) PROVE BufferTypes'
  BY <1>7 DEF BufferTypes,
     OnConnectionStateChange, CloseRecvChan, connVars, endVars, streamVars, acceptVars
<1>8. ASSUME NEW c \in Conns, Recv(c) PROVE BufferTypes'
  <2>1. recv[c] \in Seq(Nat) /\ got[c] \in Seq(Nat) /\ recv[c] # <<>>
    BY <1>8 DEF BufferTypes, Recv
  <2>2. /\ recv' = [recv EXCEPT ![c] = Tail(recv[c])] /\ sent' = sent
        /\ got' = [got EXCEPT ![c] = Append(got[c], Head(recv[c]))]
    BY <1>8 DEF Recv
  <2>3. /\ Tail(recv[c]) \in Seq(Nat) /\ Len(Tail(recv[c])) = Len(recv[c]) - 1
        /\ Len(recv[c]) \in Nat /\ Append(got[c], Head(recv[c])) \in Seq(Nat)
    BY <2>1
  <2>4. recv' \in [Conns -> Seq(Nat)] /\ \A d \in Conns : Len(recv'[d]) <= RecvCap
    BY <2>2, <2>3, TransportAssumption DEF BufferTypes
  <2>5. QED
    BY <2>2, <2>3, <2>4 DEF BufferTypes
<1>9. ASSUME NEW c \in Conns, Close(c) PROVE BufferTypes'
  BY <1>9 DEF BufferTypes,
     Close, ClosesAll, connVars, endVars, streamVars, acceptVars
<1>10. ASSUME NEW c \in Conns, NEW p \in Peers, Connect(c, p) PROVE BufferTypes'
  BY <1>10 DEF BufferTypes,
     Connect, NewConnection, connVars, endVars, streamVars, acceptVars
<1>11. ASSUME NEW g \in Callers, NEW c \in Conns, CreateConnection(g, c) PROVE BufferTypes'
  BY <1>11 DEF BufferTypes,
     CreateConnection, NewConnection, connVars, endVars, streamVars, acceptVars
<1>12. ASSUME NEW g \in Callers, HandleSignal(g) PROVE BufferTypes'
  BY <1>12 DEF BufferTypes,
     HandleSignal, connVars, endVars, streamVars, acceptVars
<1>13. ASSUME NEW g \in Callers, NEW p \in Peers, LookupConnection(g, p) PROVE BufferTypes'
  BY <1>13 DEF BufferTypes,
     LookupConnection, connVars, endVars, streamVars, acceptVars
<1>14. ASSUME Accept PROVE BufferTypes'
  BY <1>14 DEF BufferTypes,
     Accept, connVars, endVars, streamVars, acceptVars
<1>15. ASSUME CloseTransport PROVE BufferTypes'
  BY <1>15 DEF BufferTypes,
     CloseTransport, ClosesAll, connVars, endVars, streamVars, acceptVars
<1>16. ASSUME UNCHANGED vars PROVE BufferTypes'
  BY <1>16 DEF BufferTypes, vars, connVars, endVars, streamVars, acceptVars
<1>17. QED
  BY <1>1, <1>2, <1>3, <1>4, <1>5, <1>6, <1>7, <1>8, <1>9, <1>10, <1>11, <1>12, <1>13, <1>14, <1>15, <1>16 DEF Next

LEMMA AcceptTypesStep ==
    ASSUME AcceptTypes, [Next]_vars
    PROVE  AcceptTypes'
<1>1. ASSUME NEW c \in Conns, OnDataChannel(c) PROVE AcceptTypes'
  BY <1>1 DEF AcceptTypes,
     OnDataChannel, connVars, endVars, streamVars, acceptVars
<1>2. ASSUME NEW c \in Conns, OnOpen(c) PROVE AcceptTypes'
  BY <1>2 DEF AcceptTypes,
     OnOpen, connVars, endVars, streamVars, acceptVars
<1>3. ASSUME NEW c \in Conns, SendIncoming(c) PROVE AcceptTypes'
  <2>1. /\ offering' = offering \ {c} /\ accepted' = accepted
        /\ \/ incoming' = incoming
           \/ Len(incoming) < InCap /\ incoming' = Append(incoming, c)
    BY <1>3 DEF SendIncoming
  <2>2. /\ Append(incoming, c) \in Seq(Conns) /\ Len(incoming) \in Nat
        /\ Len(Append(incoming, c)) = Len(incoming) + 1
    BY DEF AcceptTypes
  <2>2a. InCap \in Nat
    BY TransportAssumption
  <2>2b. Len(incoming) < InCap => Len(Append(incoming, c)) <= InCap
    BY <2>2, <2>2a
  <2>3. incoming' \in Seq(Conns) /\ Len(incoming') <= InCap
    BY <2>1, <2>2, <2>2b DEF AcceptTypes
  <2>4. QED
    BY <2>1, <2>3 DEF AcceptTypes
<1>4. ASSUME NEW c \in Conns, OnMessage(c) PROVE AcceptTypes'
  BY <1>4 DEF AcceptTypes,
     OnMessage, connVars, endVars, streamVars, acceptVars
<1>5. ASSUME NEW c \in Conns, Fails(c) PROVE AcceptTypes'
  BY <1>5 DEF AcceptTypes,
     Fails, connVars, endVars, streamVars, acceptVars
<1>6. ASSUME NEW c \in Conns, OnClose(c) PROVE AcceptTypes'
  BY <1>6 DEF AcceptTypes,
     OnClose, CloseRecvChan, connVars, endVars, streamVars, acceptVars
<1>7. ASSUME NEW c \in Conns, OnConnectionStateChange(c) PROVE AcceptTypes'
  BY <1>7 DEF AcceptTypes,
     OnConnectionStateChange, CloseRecvChan, connVars, endVars, streamVars, acceptVars
<1>8. ASSUME NEW c \in Conns, Recv(c) PROVE AcceptTypes'
  BY <1>8 DEF AcceptTypes,
     Recv, connVars, endVars, streamVars, acceptVars
<1>9. ASSUME NEW c \in Conns, Close(c) PROVE AcceptTypes'
  BY <1>9 DEF AcceptTypes,
     Close, ClosesAll, connVars, endVars, streamVars, acceptVars
<1>10. ASSUME NEW c \in Conns, NEW p \in Peers, Connect(c, p) PROVE AcceptTypes'
  BY <1>10 DEF AcceptTypes,
     Connect, NewConnection, connVars, endVars, streamVars, acceptVars
<1>11. ASSUME NEW g \in Callers, NEW c \in Conns, CreateConnection(g, c) PROVE AcceptTypes'
  BY <1>11 DEF AcceptTypes,
     CreateConnection, NewConnection, connVars, endVars, streamVars, acceptVars
<1>12. ASSUME NEW g \in Callers, HandleSignal(g) PROVE AcceptTypes'
  BY <1>12 DEF AcceptTypes,
     HandleSignal, connVars, endVars, streamVars, acceptVars
<1>13. ASSUME NEW g \in Callers, NEW p \in Peers, LookupConnection(g, p) PROVE AcceptTypes'
  BY <1>13 DEF AcceptTypes,
     LookupConnection, connVars, endVars, streamVars, acceptVars
<1>14. ASSUME Accept PROVE AcceptTypes'
  <2>1. /\ incoming # <<>> /\ offering' = offering /\ incoming' = Tail(incoming)
        /\ accepted' = Append(accepted, Head(incoming))
    BY <1>14 DEF Accept
  <2>2. /\ Tail(incoming) \in Seq(Conns) /\ Len(incoming) \in Nat
        /\ Len(Tail(incoming)) = Len(incoming) - 1 /\ Head(incoming) \in Conns
    BY <2>1 DEF AcceptTypes
  <2>3. Len(incoming') <= InCap
    BY <2>1, <2>2, TransportAssumption DEF AcceptTypes
  <2>4. QED
    BY <2>1, <2>2, <2>3 DEF AcceptTypes
<1>15. ASSUME CloseTransport PROVE AcceptTypes'
  BY <1>15 DEF AcceptTypes,
     CloseTransport, ClosesAll, connVars, endVars, streamVars, acceptVars
<1>16. ASSUME UNCHANGED vars PROVE AcceptTypes'
  BY <1>16 DEF AcceptTypes, vars, connVars, endVars, streamVars, acceptVars
<1>17. QED
  BY <1>1, <1>2, <1>3, <1>4, <1>5, <1>6, <1>7, <1>8, <1>9, <1>10, <1>11, <1>12, <1>13, <1>14, <1>15, <1>16 DEF Next

LEMMA MadeStep ==
    ASSUME ConnTypes, EndTypes, Made, [Next]_vars
    PROVE  Made'
<1> USE TransportAssumption
<1>1. ASSUME NEW c \in Conns, OnDataChannel(c) PROVE Made'
  BY <1>1 DEF ConnTypes, EndTypes, Made, At, Idle,
     OnDataChannel, connVars, endVars, streamVars, acceptVars
<1>2. ASSUME NEW c \in Conns, OnOpen(c) PROVE Made'
  BY <1>2 DEF ConnTypes, EndTypes, Made, At, Idle,
     OnOpen, connVars, endVars, streamVars, acceptVars
<1>3. ASSUME NEW c \in Conns, SendIncoming(c) PROVE Made'
  BY <1>3 DEF ConnTypes, EndTypes, Made, At, Idle,
     SendIncoming, connVars, endVars, streamVars, acceptVars
<1>4. ASSUME NEW c \in Conns, OnMessage(c) PROVE Made'
  BY <1>4 DEF ConnTypes, EndTypes, Made, At, Idle,
     OnMessage, connVars, endVars, streamVars, acceptVars
<1>5. ASSUME NEW c \in Conns, Fails(c) PROVE Made'
  BY <1>5 DEF ConnTypes, EndTypes, Made, At, Idle,
     Fails, connVars, endVars, streamVars, acceptVars
<1>6. ASSUME NEW c \in Conns, OnClose(c) PROVE Made'
  BY <1>6 DEF ConnTypes, EndTypes, Made, At, Idle,
     OnClose, CloseRecvChan, connVars, endVars, streamVars, acceptVars
<1>7. ASSUME NEW c \in Conns, OnConnectionStateChange(c) PROVE Made'
  BY <1>7 DEF ConnTypes, EndTypes, Made, At, Idle,
     OnConnectionStateChange, CloseRecvChan, connVars, endVars, streamVars, acceptVars
<1>8. ASSUME NEW c \in Conns, Recv(c) PROVE Made'
  BY <1>8 DEF ConnTypes, EndTypes, Made, At, Idle,
     Recv, connVars, endVars, streamVars, acceptVars
<1>9. ASSUME NEW c \in Conns, Close(c) PROVE Made'
  BY <1>9 DEF ConnTypes, EndTypes, Made, At, Idle,
     Close, ClosesAll, connVars, endVars, streamVars, acceptVars
<1>10. ASSUME NEW c \in Conns, NEW p \in Peers, Connect(c, p) PROVE Made'
  BY <1>10 DEF ConnTypes, EndTypes, Made, At, Idle,
     Connect, NewConnection, connVars, endVars, streamVars, acceptVars
<1>11. ASSUME NEW g \in Callers, NEW c \in Conns, CreateConnection(g, c) PROVE Made'
  BY <1>11 DEF ConnTypes, EndTypes, Made, At, Idle,
     CreateConnection, NewConnection, connVars, endVars, streamVars, acceptVars
<1>12. ASSUME NEW g \in Callers, HandleSignal(g) PROVE Made'
  BY <1>12 DEF ConnTypes, EndTypes, Made, At, Idle,
     HandleSignal, connVars, endVars, streamVars, acceptVars
<1>13. ASSUME NEW g \in Callers, NEW p \in Peers, LookupConnection(g, p) PROVE Made'
  BY <1>13 DEF ConnTypes, EndTypes, Made, At, Idle,
     LookupConnection, connVars, endVars, streamVars, acceptVars
<1>14. ASSUME Accept PROVE Made'
  BY <1>14 DEF ConnTypes, EndTypes, Made, At, Idle,
     Accept, connVars, endVars, streamVars, acceptVars
<1>15. ASSUME CloseTransport PROVE Made'
  BY <1>15 DEF ConnTypes, EndTypes, Made, At, Idle,
     CloseTransport, ClosesAll, connVars, endVars, streamVars, acceptVars
<1>16. ASSUME UNCHANGED vars PROVE Made'
  BY <1>16 DEF ConnTypes, EndTypes, Made, At, Idle, vars, connVars, endVars, streamVars, acceptVars
<1>17. QED
  BY <1>1, <1>2, <1>3, <1>4, <1>5, <1>6, <1>7, <1>8, <1>9, <1>10, <1>11, <1>12, <1>13, <1>14, <1>15, <1>16 DEF Next

-----------------------------------------------------------------------------
(***************************************************************************)
(* What Accept hands over                                                  *)
(***************************************************************************)

All == accepted \o incoming

\* A connection that the peer started, that was answered and whose channel has
\* been opened, or failed before that.
Given(c) ==
    /\ c \in described \ initiator /\ answers[c] = 1
    /\ stage[c] \notin {"none", "stored"}

\* No connection is answered twice or before its description is set, and the
\* channel of the peer comes only after the answer.
Answered ==
    \A c \in Conns :
       /\ answers[c] \in {0, 1}
       /\ answers[c] = 1 => c \in described
       /\ c \notin initiator /\ stage[c] \in {"stored", "open"} => answers[c] = 1

\* OnOpen offers a connection once: what is offered is not in the queue yet.
Queued ==
    /\ \A c \in offering : Given(c)
    /\ \A k \in 1..Len(All) : Given(All[k]) /\ All[k] \notin offering
    /\ IsInjective(All)

LEMMA GivenStep ==
    ASSUME ConnTypes, EndTypes, Made, NEW d \in Conns, Given(d), [Next]_vars
    PROVE  Given(d)'
<1>1. ASSUME NEW c \in Conns, OnDataChannel(c) PROVE Given(d)'
  BY <1>1 DEF ConnTypes, EndTypes, Made, Given, Ended,
     OnDataChannel, connVars, endVars, streamVars, acceptVars
<1>2. ASSUME NEW c \in Conns, OnOpen(c) PROVE Given(d)'
  BY <1>2 DEF ConnTypes, EndTypes, Made, Given, Ended,
     OnOpen, connVars, endVars, streamVars, acceptVars
<1>3. ASSUME NEW c \in Conns, SendIncoming(c) PROVE Given(d)'
  BY <1>3 DEF ConnTypes, EndTypes, Made, Given, Ended,
     SendIncoming, connVars, endVars, streamVars, acceptVars
<1>4. ASSUME NEW c \in Conns, OnMessage(c) PROVE Given(d)'
  BY <1>4 DEF ConnTypes, EndTypes, Made, Given, Ended,
     OnMessage, connVars, endVars, streamVars, acceptVars
<1>5. ASSUME NEW c \in Conns, Fails(c) PROVE Given(d)'
  BY <1>5 DEF ConnTypes, EndTypes, Made, Given, Ended,
     Fails, connVars, endVars, streamVars, acceptVars
<1>6. ASSUME NEW c \in Conns, OnClose(c) PROVE Given(d)'
  BY <1>6 DEF ConnTypes, EndTypes, Made, Given, Ended,
     OnClose, CloseRecvChan, connVars, endVars, streamVars, acceptVars
<1>7. ASSUME NEW c \in Conns, OnConnectionStateChange(c) PROVE Given(d)'
  BY <1>7 DEF ConnTypes, EndTypes, Made, Given, Ended,
     OnConnectionStateChange, CloseRecvChan, connVars, endVars, streamVars, acceptVars
<1>8. ASSUME NEW c \in Conns, Recv(c) PROVE Given(d)'
  BY <1>8 DEF ConnTypes, EndTypes, Made, Given, Ended,
     Recv, connVars, endVars, streamVars, acceptVars
<1>9. ASSUME NEW c \in Conns, Close(c) PROVE Given(d)'
  BY <1>9 DEF ConnTypes, EndTypes, Made, Given, Ended,
     Close, ClosesAll, connVars, endVars, streamVars, acceptVars
<1>10. ASSUME NEW c \in Conns, NEW p \in Peers, Connect(c, p) PROVE Given(d)'
  BY <1>10 DEF ConnTypes, EndTypes, Made, Given, Ended,
     Connect, NewConnection, connVars, endVars, streamVars, acceptVars
<1>11. ASSUME NEW g \in Callers, NEW c \in Conns, CreateConnection(g, c) PROVE Given(d)'
  BY <1>11 DEF ConnTypes, EndTypes, Made, Given, Ended,
     CreateConnection, NewConnection, connVars, endVars, streamVars, acceptVars
<1>12. ASSUME NEW g \in Callers, HandleSignal(g) PROVE Given(d)'
  BY <1>12 DEF ConnTypes, EndTypes, Made, Given, Ended,
     HandleSignal, connVars, endVars, streamVars, acceptVars
<1>13. ASSUME NEW g \in Callers, NEW p \in Peers, LookupConnection(g, p) PROVE Given(d)'
  BY <1>13 DEF ConnTypes, EndTypes, Made, Given, Ended,
     LookupConnection, connVars, endVars, streamVars, acceptVars
<1>14. ASSUME Accept PROVE Given(d)'
  BY <1>14 DEF ConnTypes, EndTypes, Made, Given, Ended,
     Accept, connVars, endVars, streamVars, acceptVars
<1>15. ASSUME CloseTransport PROVE Given(d)'
  BY <1>15 DEF ConnTypes, EndTypes, Made, Given, Ended,
     CloseTransport, ClosesAll, connVars, endVars, streamVars, acceptVars
<1>16. ASSUME UNCHANGED vars PROVE Given(d)'
  BY <1>16 DEF ConnTypes, EndTypes, Made, Given, Ended, vars, connVars, endVars, streamVars, acceptVars
<1>17. QED
  BY <1>1, <1>2, <1>3, <1>4, <1>5, <1>6, <1>7, <1>8, <1>9, <1>10, <1>11, <1>12, <1>13, <1>14, <1>15, <1>16 DEF Next

LEMMA AnsweredStep ==
    ASSUME ConnTypes, EndTypes, Made, Answered, [Next]_vars
    PROVE  Answered'
<1>1. ASSUME NEW c \in Conns, OnDataChannel(c) PROVE Answered'
  <2>1. /\ answers[c] > 0 /\ stage' = [stage EXCEPT ![c] = "stored"]
        /\ answers' = answers /\ described' = described /\ initiator' = initiator
    BY <1>1 DEF OnDataChannel, connVars
  <2>2. QED
    BY <2>1 DEF Answered, EndTypes
<1>2. ASSUME NEW c \in Conns, OnOpen(c) PROVE Answered'
  <2>1. /\ stage[c] = "stored" /\ stage' = [stage EXCEPT ![c] = "open"]
        /\ answers' = answers /\ described' = described /\ initiator' = initiator
    BY <1>2 DEF OnOpen, connVars
  <2>2. QED
    BY <2>1 DEF Answered, EndTypes
<1>3. ASSUME NEW c \in Conns, NEW p \in Peers, Connect(c, p) PROVE Answered'
  <2>1. /\ stage' = [stage EXCEPT ![c] = "stored"] /\ initiator' = initiator \cup {c}
        /\ answers' = answers /\ described' = described
    BY <1>3 DEF Connect
  <2>2. QED
    BY <2>1 DEF Answered, EndTypes
<1>4. ASSUME NEW g \in Callers, HandleSignal(g) PROVE Answered'
  <2> DEFINE c == caller[g].conn
  <2>1. stage' = stage /\ initiator' = initiator
    BY <1>4 DEF HandleSignal, endVars
  <2>2. CASE described' = described /\ answers' = answers
    BY <2>1, <2>2 DEF Answered
  <2>3. CASE /\ c \notin described /\ described' = described \cup {c}
             /\ answers' = answers \/ answers' = [answers EXCEPT ![c] = @ + 1]
    <3>1. c \in Conns /\ answers[c] = 0
      BY <1>4, <2>3 DEF HandleSignal, Made, Answered
    <3> HIDE DEF c
    <3>2. \A d \in Conns : answers'[d] = answers[d] \/ (d = c /\ answers'[d] = 1)
      BY <2>3, <3>1 DEF ConnTypes
    <3>3. QED
      BY <2>1, <2>3, <3>2 DEF Answered
  <2>4. QED
    BY <1>4, <2>2, <2>3 DEF HandleSignal
<1>5. ASSUME UNCHANGED <<answers, described, initiator>>,
             \A c \in Conns : stage'[c] = stage[c] \/ stage'[c] \in Ended
      PROVE  Answered'
  BY <1>5 DEF Answered, Ended
<1>6. ASSUME NEW c \in Conns, SendIncoming(c) \/ OnMessage(c) \/ OnClose(c)
             \/ OnConnectionStateChange(c) \/ Recv(c)
             \/ \E g \in Callers : CreateConnection(g, c)
      PROVE  Answered'
  <2>1. UNCHANGED <<answers, described, initiator, stage>>
    BY <1>6 DEF SendIncoming, OnMessage, OnClose, OnConnectionStateChange, Recv,
       CreateConnection, connVars, endVars
  <2>2. QED
    BY <2>1, <1>5
<1>7. ASSUME NEW c \in Conns, Fails(c) \/ Close(c) PROVE Answered'
  <2>1. /\ UNCHANGED <<answers, described, initiator>>
        /\ \A d \in Conns : stage'[d] = stage[d] \/ stage'[d] \in Ended
    BY <1>7 DEF Fails, Close, ClosesAll, Ended, EndTypes, connVars
  <2>2. QED
    BY <2>1, <1>5
<1>8. ASSUME CloseTransport PROVE Answered'
  <2>1. /\ UNCHANGED <<answers, described, initiator>>
        /\ \A d \in Conns : stage'[d] = stage[d] \/ stage'[d] \in Ended
    BY <1>8 DEF CloseTransport, ClosesAll, Ended, connVars
  <2>2. QED
    BY <2>1, <1>5
<1>9. ASSUME \/ \E g \in Callers, p \in Peers : LookupConnection(g, p)
             \/ Accept \/ UNCHANGED vars
      PROVE  Answered'
  <2>1. UNCHANGED <<answers, described, initiator, stage>>
    BY <1>9 DEF LookupConnection, Accept, vars, connVars, endVars
  <2>2. QED
    BY <2>1, <1>5
<1>10. QED
  BY <1>1, <1>2, <1>3, <1>4, <1>6, <1>7, <1>8, <1>9 DEF Next

LEMMA QueueStep ==
    ASSUME TypeOK, Made, Answered, Queued, [Next]_vars
    PROVE  Queued'
<1>0. ConnTypes /\ EndTypes /\ AcceptTypes
  BY TypeParts
<1>1. \A d \in Conns : Given(d) => Given(d)'
  BY <1>0, GivenStep
<1>2. All \in Seq(Conns) /\ \A k \in 1..Len(All) : All[k] \in Conns
  BY <1>0 DEF All, AcceptTypes
<1>3. ASSUME offering' = offering, All' = All PROVE Queued'
  BY <1>0, <1>1, <1>2, <1>3 DEF Queued, AcceptTypes
<1>4. ASSUME NEW c \in Conns, OnOpen(c) PROVE Queued'
  <2>1. /\ stage[c] = "stored" /\ c \in described /\ stage' = [stage EXCEPT ![c] = "open"]
        /\ offering' = offering \cup ({c} \ initiator) /\ All' = All
        /\ described' = described /\ initiator' = initiator /\ answers' = answers
    BY <1>4 DEF OnOpen, All, connVars
  <2>2. c \notin initiator => Given(c)'
    BY <2>1, <1>0 DEF Given, EndTypes, Answered
  <2>3. \A k \in 1..Len(All) : All[k] # c
    BY <2>1 DEF Queued, Given
  <2>4. \A d \in offering' : Given(d)'
    BY <2>1, <2>2, <1>0, <1>1 DEF Queued, AcceptTypes
  <2>5. \A k \in 1..Len(All) : Given(All[k])' /\ All[k] \notin offering'
    BY <2>1, <2>3, <1>1, <1>2 DEF Queued
  <2>6. QED
    BY <2>1, <2>4, <2>5 DEF Queued
<1>5. ASSUME NEW c \in Conns, SendIncoming(c) PROVE Queued'
  <2>1. /\ c \in offering /\ offering' = offering \ {c} /\ accepted' = accepted
        /\ incoming' = incoming \/ incoming' = Append(incoming, c)
    BY <1>5 DEF SendIncoming
  <2>2. CASE incoming' = incoming
    BY <2>1, <2>2, <1>0, <1>1, <1>2 DEF Queued, All, AcceptTypes
  <2>3. CASE incoming' = Append(incoming, c)
    <3> DEFINE n == Len(All)
    <3>1. All' = Append(All, c)
      BY <2>1, <2>3, <1>0 DEF All, AcceptTypes
    <3>2. /\ n \in Nat /\ Len(All') = n + 1 /\ All'[n + 1] = c /\ DOMAIN All = 1..n
          /\ DOMAIN All' = 1..(n + 1) /\ \A k \in 1..n : All'[k] = All[k]
      BY <3>1, <1>2
    <3> HIDE DEF n
    <3>3. \A k \in 1..(n + 1) : k \in 1..n \/ k = n + 1
      BY <3>2
    <3>4. Given(c) /\ \A k \in 1..n : All[k] # c /\ Given(All[k]) /\ All[k] \notin offering
      BY <2>1 DEF Queued, n
    <3>5. ASSUME NEW k \in 1..Len(All')
          PROVE  (Given(All[k]) /\ All[k] \notin offering)'
      <4>1. \A d \in Conns : Given(d) => /\ d \in described' \ initiator'
                                       /\ stage'[d] \notin {"none", "stored"}
                                       /\ answers'[d] = 1
        BY <1>1 DEF Given
      <4>2. Given(All'[k]) /\ All'[k] \in Conns /\ All'[k] \notin offering'
        BY <2>1, <3>2, <3>3, <3>4, <1>2
      <4>3. QED
        BY <4>1, <4>2 DEF Given
    <3>6. \A d \in offering' : Given(d)'
      BY <2>1, <1>0, <1>1 DEF Queued, AcceptTypes
    <3>7. \A i, j \in 1..n : All[i] = All[j] => i = j
      BY <3>2 DEF Queued, IsInjective
    <3>8. IsInjective(All')
      BY <3>2, <3>3, <3>4, <3>7 DEF IsInjective
    <3>9. QED
      BY <3>5, <3>6, <3>8 DEF Queued
  <2>4. QED
    BY <2>1, <2>2, <2>3
<1>6. ASSUME Accept PROVE Queued'
  <2>1. /\ incoming # <<>> /\ offering' = offering
        /\ accepted' = Append(accepted, Head(incoming)) /\ incoming' = Tail(incoming)
    BY <1>6 DEF Accept
  <2>2. All' = All
    BY <2>1, <1>0 DEF All, AcceptTypes
  <2>3. QED
    BY <2>1, <2>2, <1>3
<1>7. ASSUME NEW c \in Conns,
             \/ OnDataChannel(c) \/ OnMessage(c) \/ Fails(c) \/ OnClose(c)
             \/ OnConnectionStateChange(c) \/ Recv(c) \/ Close(c)
             \/ \E p \in Peers : Connect(c, p)
             \/ \E g \in Callers : CreateConnection(g, c)
      PROVE  Queued'
  <2>1. offering' = offering /\ All' = All
    BY <1>7 DEF OnDataChannel, OnMessage, Fails, OnClose, OnConnectionStateChange, Recv,
       Close, Connect, CreateConnection, acceptVars, All
  <2>2. QED
    BY <2>1, <1>3
<1>8. ASSUME \/ \E g \in Callers : HandleSignal(g) \/ \E p \in Peers : LookupConnection(g, p)
             \/ CloseTransport \/ UNCHANGED vars
      PROVE  Queued'
  <2>1. offering' = offering /\ All' = All
    BY <1>8 DEF HandleSignal, LookupConnection, CloseTransport, acceptVars, vars, All
  <2>2. QED
    BY <2>1, <1>3
<1>9. QED
  BY <1>4, <1>5, <1>6, <1>7, <1>8 DEF Next

-----------------------------------------------------------------------------
SafeInv == TypeOK /\ Made /\ Answered /\ Queued

LEMMA SafeInitial == Init => SafeInv
<1> SUFFICES ASSUME Init PROVE SafeInv
  OBVIOUS
<1> USE TransportAssumption
<1>1. TypeOK
  <2>1. ConnTypes /\ EndTypes
    BY DEF Init, ConnTypes, EndTypes, Stages, Idle, At
  <2>2. /\ BufferTypes /\ AcceptTypes
    <3>1. Len(<<>>) = 0 /\ <<>> \in Seq(Nat) /\ <<>> \in Seq(Conns)
      OBVIOUS
    <3>2. 0 <= RecvCap /\ 0 <= InCap
      OBVIOUS
    <3>3. QED
      BY <3>1, <3>2 DEF Init, BufferTypes, AcceptTypes
  <2>3. QED
    BY <2>1, <2>2, TypeParts
<1>2. Made /\ Answered
  BY DEF Init, Made, Answered, Idle, At
<1>3. All = <<>> /\ offering = {}
  BY DEF Init, All
<1>4. Queued
  BY <1>3 DEF Queued, IsInjective
<1>5. QED
  BY <1>1, <1>2, <1>4 DEF SafeInv

LEMMA SafeStep == SafeInv /\ [Next]_vars => SafeInv'
<1> SUFFICES ASSUME SafeInv, [Next]_vars PROVE SafeInv'
  OBVIOUS
<1>1. ConnTypes /\ EndTypes /\ BufferTypes /\ AcceptTypes
  BY TypeParts DEF SafeInv
<1>2. ConnTypes' /\ EndTypes' /\ BufferTypes' /\ AcceptTypes'
  BY <1>1, ConnTypesStep, EndTypesStep, BufferTypesStep, AcceptTypesStep DEF SafeInv
<1>3. TypeOK'
  BY <1>2 DEF TypeOK, ConnTypes, EndTypes, BufferTypes, AcceptTypes
<1>4. Made'
  BY <1>1, MadeStep DEF SafeInv
<1>5. Answered' /\ Queued'
  BY <1>1, AnsweredStep, QueueStep DEF SafeInv
<1>6. QED
  BY <1>3, <1>4, <1>5 DEF SafeInv

LEMMA SafeAlways == Spec => []SafeInv
<1>1. Init => SafeInv
  BY SafeInitial
<1>2. SafeInv /\ [Next]_vars => SafeInv'
  BY SafeStep
<1>3. QED
  BY <1>1, <1>2, PTL DEF Spec

\* The variables keep their types and both channels their capacity (256
\* messages and 16 connections in transport.go and connection.go).
THEOREM TypeCorrect == Spec => []TypeOK
<1>1. SafeInv => TypeOK
  BY DEF SafeInv
<1>2. QED
  BY <1>1, SafeAlways, PTL

(***************************************************************************)
(* Accept hands a connection over once and only after its answer, whatever *)
(* callers of HandleSignal race in transport.go:74-91.                     *)
(***************************************************************************)
THEOREM AcceptedOnceHolds == Spec => []AcceptedOnce
<1>1. SafeInv => AcceptedOnce
  <2> SUFFICES ASSUME SafeInv PROVE AcceptedOnce
    OBVIOUS
  <2>1. All \in Seq(Conns)
    BY DEF SafeInv, TypeOK, All
  <2>2. \A k \in 1..Len(All) : All[k] \notin initiator /\ answers[All[k]] = 1
    BY <2>1 DEF SafeInv, Queued, Given, Answered
  <2>3. QED
    BY <2>2 DEF AcceptedOnce, SafeInv, Queued, All
<1>2. QED
  BY <1>1, SafeAlways, PTL
=============================================================================
