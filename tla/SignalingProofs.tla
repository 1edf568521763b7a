--------------------------- MODULE SignalingProofs ---------------------------
(***************************************************************************)
(* Proofs about Signaling for any nodes, attempts, candidates and losses.  *)
(***************************************************************************)
EXTENDS Signaling, TLAPS

\* The two ends of a connection, and the same seen from the other end.
Of(c) == <<conns[c].owner, conns[c].peer>>
Rev(q) == <<q[2], q[1]>>

\* c is a connection of q[1] to q[2].
IsOf(c, q) == c \in Made /\ Of(c) = q

Conns ==
    /\ conns \in Seq(Connections)
    /\ \A c \in Made :
          /\ Of(c) \in Pairs
          /\ conns[c].remote # 0 => IsOf(conns[c].remote, Rev(Of(c)))

Entries ==
    /\ entry \in [Pairs -> Nat]
    /\ \A q \in Pairs : entry[q] # 0 => IsOf(entry[q], q)

\* A signaling message comes from a connection of its sender to its receiver.
Nets ==
    /\ net \in [Pairs -> Seq(Messages)]
    /\ \A q \in Pairs : \A i \in 1..Len(net[q]) : IsOf(net[q][i].from, q)

Offering(n, r) ==
    /\ r.st # "idle" => <<n, r.peer>> \in Pairs
    /\ r.st \in {"idle", "create", "offer", "send"}
    /\ r.st = "send" => IsOf(r.conn, <<n, r.peer>>)

Answering(n, r) ==
    /\ r.st # "idle" => <<n, r.peer>> \in Pairs
    /\ r.st \in {"idle", "create", "apply", "answer"}
    /\ r.st \in {"create", "apply"} => IsOf(r.conn, <<r.peer, n>>)
    /\ r.st = "create" => r.pc = 0
    /\ r.st = "apply" /\ r.pc # 0 => IsOf(r.pc, <<n, r.peer>>)
    /\ r.st = "answer" => IsOf(r.conn, <<n, r.peer>>)

Goers ==
    /\ job \in [Nodes -> Goroutines]
    /\ \A n \in Nodes : Offering(n, job[n])
    /\ loop \in [Nodes -> Goroutines]
    /\ \A n \in Nodes : Answering(n, loop[n])

Counts ==
    /\ panicked \subseteq Nodes
    /\ forgot \in BOOLEAN
    /\ offers \in 0..MaxOffers
    /\ breaks \in 0..MaxBreaks

TypeInv == Conns /\ Entries /\ Nets /\ Goers /\ Counts

\* An open connection has the one at the other end, which has it.
Linked ==
    \A c \in Made : conns[c].st = "open" =>
        /\ conns[c].remote # 0
        /\ conns[conns[c].remote].remote = c
        /\ conns[conns[c].remote].st = "open"

Creates(g, q) == g[q[1]].st = "create" /\ g[q[1]].peer = q[2]

\* q[1] has two connections to q[2], or is going to.
Twice(q) ==
    \/ \E c, d \in Made : c # d /\ Of(c) = q /\ Of(d) = q
    \/ (Creates(job, q) \/ Creates(loop, q)) /\ \E c \in Made : Of(c) = q
    \/ Creates(job, q) /\ Creates(loop, q)

Listed == \A c \in Made : entry[Of(c)] # 0

Rereads ==
    \A n \in Nodes : /\ job[n].st = "offer" => entry[<<n, job[n].peer>>] # 0
                     /\ loop[n].st = "apply" => entry[<<n, loop[n].peer>>] # 0

\* Only one end makes two: the one that offered while an offer was on its way.
Single == \A q \in Pairs : Twice(q) => entry[Rev(q)] # 0 /\ ~Twice(Rev(q))

LinkInv == ~forgot => panicked = {} /\ Listed /\ Rereads /\ Single

-----------------------------------------------------------------------------
(***************************************************************************)
(* Connections are only added, and keep their ends                         *)
(***************************************************************************)

Grows ==
    /\ conns' \in Seq(Connections)
    /\ Made \subseteq Made'
    /\ \A c \in Made : conns'[c].owner = conns[c].owner /\ conns'[c].peer = conns[c].peer

LEMMA Replaced ==
  ASSUME NEW s \in Seq(Connections), NEW c \in 1..Len(s), NEW r \in Connections,
         NEW t, t = [s EXCEPT ![c] = r]
  PROVE  /\ t \in Seq(Connections) /\ Len(t) = Len(s) /\ t[c] = r
         /\ \A e \in 1..Len(s) : e # c => t[e] = s[e]
  OBVIOUS

LEMMA Stays ==
  ASSUME Conns, UNCHANGED conns
  PROVE  Grows
  BY DEF Conns, Grows, Made

\* One connection changes: its ends stay, and its remote is at the other end.
LEMMA Sets ==
  ASSUME Conns, NEW c \in Made, NEW r \in Connections,
         conns' = [conns EXCEPT ![c] = r],
         r.owner = conns[c].owner, r.peer = conns[c].peer,
         r.remote # 0 => IsOf(r.remote, Rev(Of(c)))
  PROVE  /\ Grows /\ Conns' /\ Made' = Made
         /\ conns'[c] = r /\ \A e \in Made : e # c => conns'[e] = conns[e]
<1>1. conns \in Seq(Connections)
  BY DEF Conns
<1>2. /\ conns' \in Seq(Connections) /\ Len(conns') = Len(conns) /\ conns'[c] = r
      /\ \A e \in 1..Len(conns) : e # c => conns'[e] = conns[e]
  BY <1>1, Replaced DEF Made
<1>3. Made' = Made
  BY <1>2 DEF Made
<1>4. \A e \in Made : conns'[e].owner = conns[e].owner /\ conns'[e].peer = conns[e].peer
  BY <1>2 DEF Made
<1>5. Grows
  BY <1>2, <1>3, <1>4 DEF Grows
<1>6. ASSUME NEW e \in Made'
      PROVE  /\ <<conns'[e].owner, conns'[e].peer>> \in Pairs
             /\ conns'[e].remote # 0 =>
                  /\ conns'[e].remote \in Made'
                  /\ conns'[conns'[e].remote].owner = conns'[e].peer
                  /\ conns'[conns'[e].remote].peer = conns'[e].owner
  <2>1. /\ Of(e) \in Pairs
        /\ conns[e].remote # 0 => IsOf(conns[e].remote, Rev(Of(e)))
    BY <1>3, <1>6 DEF Conns
  <2>2. conns'[e].remote # 0 => IsOf(conns'[e].remote, Rev(Of(e)))
    BY <1>2, <1>3, <1>6, <2>1 DEF Made
  <2> QED BY <1>3, <1>4, <1>6, <2>1, <2>2 DEF Of, Rev, IsOf
<1>7. Conns'
  BY <1>2, <1>6 DEF Conns, Of, Rev, IsOf
<1> QED BY <1>2, <1>3, <1>5, <1>7 DEF Made

\* Connections change, and a new remote is at the other end.
LEMMA Tuned ==
  ASSUME Conns, conns' \in Seq(Connections), Made' = Made,
         \A e \in Made : /\ conns'[e].owner = conns[e].owner /\ conns'[e].peer = conns[e].peer
                         /\ \/ conns'[e].remote = conns[e].remote
                            \/ IsOf(conns'[e].remote, Rev(Of(e)))
  PROVE  Grows /\ Conns'
<1>1. Grows
  BY DEF Grows
<1>2. \A e \in Made : <<conns'[e].owner, conns'[e].peer>> \in Pairs
  BY DEF Conns, Of
<1>3. \A e \in Made : conns'[e].remote # 0 =>
        /\ conns'[e].remote \in Made
        /\ conns'[conns'[e].remote].owner = conns'[e].peer
        /\ conns'[conns'[e].remote].peer = conns'[e].owner
  <2> SUFFICES ASSUME NEW e \in Made, conns'[e].remote # 0
               PROVE  /\ conns'[e].remote \in Made
                      /\ conns'[conns'[e].remote].owner = conns'[e].peer
                      /\ conns'[conns'[e].remote].peer = conns'[e].owner
    OBVIOUS
  <2>1. PICK d : d = conns'[e].remote /\ d # 0 /\ (d = conns[e].remote \/ IsOf(d, Rev(Of(e))))
    OBVIOUS
  <2>2. IsOf(d, Rev(Of(e)))
    BY <2>1 DEF Conns
  <2>3. d \in Made /\ conns[d].owner = conns[e].peer /\ conns[d].peer = conns[e].owner
    BY <2>2 DEF IsOf, Rev, Of
  <2>4. conns'[d].owner = conns[d].owner /\ conns'[d].peer = conns[d].peer
    BY <2>3
  <2> QED BY <2>1, <2>3, <2>4
<1>4. Conns'
  <2>1. ASSUME NEW e \in Made', conns'[e].remote # 0 PROVE IsOf(conns[e].remote, Rev(Of(e)))'
    BY <1>3, <2>1 DEF IsOf, Rev, Of
  <2>2. \A e \in Made' : Of(e)' \in Pairs
    BY <1>2 DEF Of
  <2> QED BY <2>1, <2>2 DEF Conns
<1> QED BY <1>1, <1>4

\* Two connections change.
LEMMA EndsSet ==
  ASSUME Conns, NEW c \in Made, NEW d \in Made, c # d,
         NEW r \in Connections, NEW s \in Connections,
         r.owner = conns[c].owner, r.peer = conns[c].peer,
         r.remote # conns[c].remote => IsOf(r.remote, Rev(Of(c))),
         s.owner = conns[d].owner, s.peer = conns[d].peer, s.remote = conns[d].remote,
         conns' = [conns EXCEPT ![c] = r, ![d] = s]
  PROVE  /\ Grows /\ Conns' /\ Made' = Made /\ conns'[c] = r /\ conns'[d] = s
         /\ \A e \in Made \ {c, d} : conns'[e] = conns[e]
<1>1. conns \in Seq(Connections)
  BY DEF Conns
<1>2. PICK t : t = [conns EXCEPT ![c] = r]
  OBVIOUS
<1>3. /\ t \in Seq(Connections) /\ Len(t) = Len(conns) /\ t[c] = r
      /\ \A e \in 1..Len(conns) : e # c => t[e] = conns[e]
  BY <1>1, <1>2, Replaced DEF Made
<1>4. conns' = [t EXCEPT ![d] = s]
  BY <1>2
<1>5. /\ conns' \in Seq(Connections) /\ Len(conns') = Len(conns) /\ conns'[d] = s
      /\ \A e \in 1..Len(conns) : e # d => conns'[e] = t[e]
  <2>1. d \in 1..Len(t) /\ t \in Seq(Connections)
    BY <1>3 DEF Made
  <2>2. /\ conns' \in Seq(Connections) /\ Len(conns') = Len(t) /\ conns'[d] = s
        /\ \A e \in 1..Len(t) : e # d => conns'[e] = t[e]
    <3>1. PICK u : u = conns'
      OBVIOUS
    <3>2. u = [t EXCEPT ![d] = s]
      BY <1>4, <3>1
    <3>3. u \in Seq(Connections) /\ Len(u) = Len(t) /\ u[d] = s
          /\ \A e \in 1..Len(t) : e # d => u[e] = t[e]
      BY <2>1, <3>2, Replaced
    <3> QED BY <3>1, <3>3
  <2> QED BY <1>3, <2>2
<1>6. /\ conns'[c] = r /\ conns'[d] = s /\ Made' = Made
      /\ \A e \in Made \ {c, d} : conns'[e] = conns[e]
  BY <1>3, <1>5 DEF Made
<1>7. \A e \in Made : /\ conns'[e].owner = conns[e].owner /\ conns'[e].peer = conns[e].peer
                      /\ \/ conns'[e].remote = conns[e].remote
                         \/ IsOf(conns'[e].remote, Rev(Of(e)))
  BY <1>6
<1>8. Grows /\ Conns'
  BY <1>5, <1>6, <1>7, Tuned
<1> QED BY <1>6, <1>8

LEMMA NewTyped ==
  ASSUME NEW n \in Nodes, NEW p \in Nodes
  PROVE  /\ New(n, p) \in Connections /\ New(n, p).owner = n /\ New(n, p).peer = p
         /\ New(n, p).remote = 0 /\ New(n, p).st = "new" /\ New(n, p).told = FALSE
  BY SignalingAssumption DEF New, Connections

LEMMA Adds ==
  ASSUME Conns, NEW n, NEW p, <<n, p>> \in Pairs, conns' = Append(conns, New(n, p))
  PROVE  /\ Grows /\ Conns' /\ Made' = Made \cup {Len(conns) + 1}
         /\ Len(conns') = Len(conns) + 1 /\ IsOf(Len(conns), <<n, p>>)'
         /\ Len(conns) + 1 \notin Made
         /\ conns'[Len(conns) + 1] = New(n, p)
         /\ \A e \in Made : conns'[e] = conns[e]
<1>1. n \in Nodes /\ p \in Nodes
  BY DEF Pairs
<1>2. conns \in Seq(Connections)
  BY DEF Conns
<1>3. /\ New(n, p) \in Connections /\ New(n, p).owner = n /\ New(n, p).peer = p
      /\ New(n, p).remote = 0
  BY <1>1, NewTyped
<1>4. /\ conns' \in Seq(Connections) /\ Len(conns') = Len(conns) + 1
      /\ conns'[Len(conns) + 1] = New(n, p)
      /\ \A e \in 1..Len(conns) : conns'[e] = conns[e]
  BY <1>2, <1>3
<1>5. Made' = Made \cup {Len(conns) + 1} /\ Len(conns) + 1 \notin Made
  BY <1>2, <1>4 DEF Made
<1>6. Grows
  BY <1>4, <1>5 DEF Grows, Made
<1>7. ASSUME NEW e \in Made'
      PROVE  /\ <<conns'[e].owner, conns'[e].peer>> \in Pairs
             /\ conns'[e].remote # 0 =>
                  /\ conns'[e].remote \in Made'
                  /\ conns'[conns'[e].remote].owner = conns'[e].peer
                  /\ conns'[conns'[e].remote].peer = conns'[e].owner
  <2>1. CASE e \in Made
    <3>1. /\ Of(e) \in Pairs
          /\ conns[e].remote # 0 => IsOf(conns[e].remote, Rev(Of(e)))
      BY <2>1 DEF Conns
    <3> QED BY <1>4, <1>5, <2>1, <3>1 DEF Of, Rev, IsOf, Made
  <2>2. CASE e = Len(conns) + 1
    BY <1>3, <1>4, <2>2
  <2> QED BY <1>5, <1>7, <2>1, <2>2
<1>8. Conns'
  BY <1>4, <1>7 DEF Conns, Of, Rev, IsOf
<1>9. IsOf(Len(conns), <<n, p>>)'
  BY <1>3, <1>4, <1>5 DEF IsOf, Of
<1> QED BY <1>4, <1>5, <1>6, <1>8, <1>9 DEF Made

LEMMA Carries ==
  ASSUME Grows, NEW c, NEW q, IsOf(c, q)
  PROVE  IsOf(c, q)'
  BY DEF Grows, IsOf, Of

LEMMA AnsweringKept ==
  ASSUME Grows, NEW n, NEW r, Answering(n, r)
  PROVE  Answering(n, r)'
<1>1. r.st \in {"create", "apply"} => IsOf(r.conn, <<r.peer, n>>)'
  BY Carries DEF Answering
<1>2. r.st = "apply" /\ r.pc # 0 => IsOf(r.pc, <<n, r.peer>>)'
  BY Carries DEF Answering
<1>3. r.st = "answer" => IsOf(r.conn, <<n, r.peer>>)'
  BY Carries DEF Answering
<1> QED BY <1>1, <1>2, <1>3 DEF Answering

LEMMA AnsweringStays ==
  ASSUME Grows, NEW n, loop'[n] = loop[n], Answering(n, loop[n])
  PROVE  Answering(n, loop[n])'
<1> DEFINE r == loop[n]
<1>1. Answering(n, r) /\ r = loop'[n]
  OBVIOUS
<1> HIDE DEF r
<1>2. r' = r
  BY <1>1 DEF r
<1>3. Answering(n, r)'
  BY <1>1, <1>2, AnsweringKept DEF Answering, IsOf, Of
<1> QED BY <1>3 DEF r

-----------------------------------------------------------------------------
(***************************************************************************)
(* What refers to connections, as they grow                                *)
(***************************************************************************)

LEMMA KeepsEntries ==
  ASSUME Grows, Entries, UNCHANGED entry
  PROVE  Entries'
<1>1. \A q \in Pairs : entry[q] # 0 => IsOf(entry[q], q)'
  BY Carries DEF Entries
<1> QED BY <1>1 DEF Entries, IsOf, Of

LEMMA KeepsNets ==
  ASSUME Grows, Nets, UNCHANGED net
  PROVE  Nets'
<1>1. \A q \in Pairs : \A i \in 1..Len(net[q]) :
         LET c == net[q][i].from IN
           c \in Made' /\ <<conns'[c].owner, conns'[c].peer>> = q
  BY DEF Nets, Grows, IsOf, Of
<1> QED BY <1>1 DEF Nets, IsOf, Of

\* A goroutine that moves, and those that do not.
LEMMA JobMoves ==
  ASSUME Grows, Goers, UNCHANGED loop, NEW n \in Nodes, NEW r \in Goroutines,
         job' = [job EXCEPT ![n] = r], Offering(n, r)'
  PROVE  Goers'
<1>1. job' \in [Nodes -> Goroutines]
  BY DEF Goers
<1>2. \A m \in Nodes : Offering(m, job[m])'
  <2> TAKE m \in Nodes
  <2>1. CASE m = n
    <3>1. job'[m] = r
      BY <2>1 DEF Goers
    <3> QED BY <2>1, <3>1 DEF Offering, IsOf, Of
  <2>2. CASE m # n
    <3>1. job'[m] = job[m] /\ Offering(m, job[m])
      BY <2>2 DEF Goers
    <3> QED BY <3>1, Carries DEF Offering, IsOf, Of
  <2> QED BY <2>1, <2>2
<1>3. \A m \in Nodes : Answering(m, loop[m])'
  BY AnsweringStays DEF Goers
<1> QED BY <1>1, <1>2, <1>3 DEF Goers

LEMMA LoopMoves ==
  ASSUME Grows, Goers, UNCHANGED job, NEW n \in Nodes, NEW r \in Goroutines,
         loop' = [loop EXCEPT ![n] = r], Answering(n, r)'
  PROVE  Goers'
<1>1. loop' \in [Nodes -> Goroutines]
  BY DEF Goers
<1>2. \A m \in Nodes : Answering(m, loop[m])'
  <2> TAKE m \in Nodes
  <2>1. CASE m = n
    <3>1. loop'[m] = r
      BY <2>1 DEF Goers
    <3> QED BY <2>1, <3>1 DEF Answering, IsOf, Of
  <2>2. CASE m # n
    <3>1. loop'[m] = loop[m] /\ Answering(m, loop[m])
      BY <2>2 DEF Goers
    <3> QED BY <3>1, AnsweringStays
  <2> QED BY <2>1, <2>2
<1>3. \A m \in Nodes : Offering(m, job[m])'
  BY Carries DEF Goers, Offering, IsOf, Of
<1> QED BY <1>1, <1>2, <1>3 DEF Goers

LEMMA GoersStay ==
  ASSUME Grows, Goers, UNCHANGED <<job, loop>>
  PROVE  Goers'
<1>1. \A m \in Nodes : Offering(m, job[m])'
  BY Carries DEF Goers, Offering, IsOf, Of
<1>2. \A m \in Nodes : Answering(m, loop[m])'
  BY AnsweringStays DEF Goers
<1> QED BY <1>1, <1>2 DEF Goers

\* A message from a connection of the sender to the receiver goes out.
LEMMA Sends ==
  ASSUME Grows, Nets, NEW n, NEW p, <<n, p>> \in Pairs, NEW m \in Messages,
         IsOf(m.from, <<n, p>>)', SendTo(p, n, m)
  PROVE  Nets'
<1>1. net' = [net EXCEPT ![<<n, p>>] = Append(net[<<n, p>>], m)]
  BY DEF SendTo, Nets
<1>2. net' \in [Pairs -> Seq(Messages)]
  BY <1>1 DEF Nets
<1>3. ASSUME NEW q \in Pairs, NEW i \in 1..Len(net'[q])
      PROVE  net'[q][i].from \in Made' /\ <<conns'[net'[q][i].from].owner, conns'[net'[q][i].from].peer>> = q
  <2>1. CASE q = <<n, p>> /\ i = Len(net[q]) + 1
    <3>1. net'[q][i] = m
      BY <1>1, <2>1 DEF Nets
    <3> QED BY <2>1, <3>1 DEF IsOf, Of
  <2>2. CASE ~(q = <<n, p>> /\ i = Len(net[q]) + 1)
    <3>1. i \in 1..Len(net[q]) /\ net'[q][i] = net[q][i]
      <4>1. CASE q = <<n, p>>
        <5>1. net'[q] = Append(net[q], m) /\ net[q] \in Seq(Messages) /\ i # Len(net[q]) + 1
          BY <1>1, <2>2, <4>1 DEF Nets
        <5> QED BY <1>3, <5>1
      <4>2. CASE q # <<n, p>>
        BY <1>1, <1>3, <4>2 DEF Nets
      <4> QED BY <4>1, <4>2
    <3>2. IsOf(net[q][i].from, q)
      BY <3>1 DEF Nets
    <3> QED BY <3>1, <3>2 DEF Grows, IsOf, Of
  <2> QED BY <2>1, <2>2
<1> QED BY <1>2, <1>3 DEF Nets, IsOf, Of

LEMMA ReceivedFrom ==
  ASSUME Nets, NEW n, NEW p, <<n, p>> \in Pairs, NEW type, Receives(n, p, type)
  PROVE  IsOf(From(n, p), <<p, n>>) /\ From(n, p) \in Nat
<1>1. <<p, n>> \in Pairs /\ net[<<p, n>>] # <<>>
  BY DEF Pairs, Receives
<1>2. /\ net[<<p, n>>] \in Seq(Messages) /\ 1 \in 1..Len(net[<<p, n>>])
      /\ Head(net[<<p, n>>]) = net[<<p, n>>][1]
  BY <1>1 DEF Nets
<1>3. net[<<p, n>>][1] \in Messages /\ IsOf(net[<<p, n>>][1].from, <<p, n>>)
  BY <1>1, <1>2 DEF Nets
<1> QED BY <1>2, <1>3 DEF From, Messages

LEMMA Receiving ==
  ASSUME Grows, Nets, NEW n, NEW p, <<n, p>> \in Pairs, NEW type, Receives(n, p, type), Consume(n, p)
  PROVE  Nets'
<1>1. <<p, n>> \in Pairs
  BY DEF Pairs
<1>2. /\ net[<<p, n>>] \in Seq(Messages) /\ net[<<p, n>>] # <<>>
      /\ net' = [net EXCEPT ![<<p, n>>] = Tail(net[<<p, n>>])]
  BY <1>1 DEF Nets, Receives, Consume
<1>3. net' \in [Pairs -> Seq(Messages)]
  BY <1>1, <1>2 DEF Nets
<1>4. ASSUME NEW q \in Pairs, NEW i \in 1..Len(net'[q])
      PROVE  net'[q][i].from \in Made' /\ <<conns'[net'[q][i].from].owner, conns'[net'[q][i].from].peer>> = q
  <2>1. PICK j \in 1..Len(net[q]) : net'[q][i] = net[q][j]
    <3>1. CASE q = <<p, n>>
      <4>1. net'[q] = Tail(net[q]) /\ net[q] \in Seq(Messages) /\ net[q] # <<>>
        BY <1>1, <1>2, <3>1 DEF Nets
      <4>2. i + 1 \in 1..Len(net[q]) /\ net'[q][i] = net[q][i + 1]
        BY <1>4, <4>1
      <4> QED BY <4>2
    <3>2. CASE q # <<p, n>>
      BY <1>2, <1>4, <3>2 DEF Nets
    <3> QED BY <3>1, <3>2
  <2>2. IsOf(net[q][j].from, q)
    BY DEF Nets
  <2> QED BY <2>1, <2>2 DEF Grows, IsOf, Of
<1> QED BY <1>3, <1>4 DEF Nets, IsOf, Of

-----------------------------------------------------------------------------
(***************************************************************************)
(* The steps of the goroutines and of the stack on connections that are    *)
(* there: one changes, in its descriptions and candidates                  *)
(***************************************************************************)

Touches ==
    \E c \in Made, r \in Connections :
        /\ conns' = [conns EXCEPT ![c] = r]
        /\ r.owner = conns[c].owner /\ r.peer = conns[c].peer
        /\ r.remote = conns[c].remote /\ r.st = conns[c].st

Describes(c, d) == conns' = WithRemote(c, d)

SetsRemote ==
    \E c \in Made, d \in Nat : IsOf(d, Rev(Of(c))) /\ Describes(c, d)

Adjusts == UNCHANGED conns \/ Touches \/ SetsRemote

\* SetRemoteDescription at c of a connection at the other end.
LEMMA Remotes ==
  ASSUME Conns, NEW c \in Made, NEW d \in Nat, IsOf(d, Rev(Of(c))), Describes(c, d)
  PROVE  /\ Grows /\ Conns' /\ Made' = Made
         /\ IF ~Moves(c, d)
            THEN /\ conns'[c].remote = d /\ conns'[c].st = conns[c].st
                 /\ \A e \in Made : e # c => conns'[e] = conns[e]
            ELSE /\ conns'[c].st # "open"
                 /\ conns[c].st = "open" => conns'[conns[c].remote].st # "open"
                 /\ \A e \in Made : e # c /\ (conns[c].st = "open" => e # conns[c].remote)
                                   => conns'[e] = conns[e]
<1>1. conns \in Seq(Connections) /\ conns[c] \in Connections /\ DOMAIN conns = Made
  BY DEF Conns, Made
<1>2. CASE ~Moves(c, d)
  <2>1. PICK r : r = [conns[c] EXCEPT !.remote = d, !.sig = "stable"]
    OBVIOUS
  <2>2. /\ r \in Connections /\ r.owner = conns[c].owner /\ r.peer = conns[c].peer
        /\ r.remote = d /\ r.st = conns[c].st
    BY <1>1, <2>1 DEF Connections
  <2>3. conns' = [conns EXCEPT ![c] = r]
    BY <1>1, <1>2, <2>1 DEF Describes, WithRemote, Connections
  <2> QED BY <1>2, <2>2, <2>3, Sets
<1>3. CASE Moves(c, d) /\ conns[c].st # "open"
  <2>1. PICK r : r = [conns[c] EXCEPT !.remote = d, !.sig = "stable",
                                     !.st = IF @ = "new" THEN "failed" ELSE @]
    OBVIOUS
  <2>2. /\ r \in Connections /\ r.owner = conns[c].owner /\ r.peer = conns[c].peer
        /\ r.remote = d /\ r.st # "open"
    BY <1>1, <1>3, <2>1 DEF Connections
  <2>3. conns' = [conns EXCEPT ![c] = r]
    BY <1>1, <1>3, <2>1 DEF Describes, WithRemote, Connections
  <2> QED BY <1>3, <2>2, <2>3, Sets
<1>4. CASE Moves(c, d) /\ conns[c].st = "open"
  <2>1. PICK f : f = conns[c].remote /\ IsOf(f, Rev(Of(c)))
    BY <1>4 DEF Moves, Conns
  <2>2. f \in Made /\ f # c
    <3>1. Of(c) \in Pairs
      BY DEF Conns
    <3> QED BY <2>1, <3>1 DEF IsOf, Of, Rev, Pairs
  <2>3. conns[f] \in Connections
    BY <1>1, <2>2
  <2>4. PICK r \in Connections, t \in Connections :
            /\ r = [conns[c] EXCEPT !.remote = d, !.sig = "stable", !.st = "lost"]
            /\ t = [conns[f] EXCEPT !.st = "lost", !.told = TRUE]
    BY <1>1, <2>3 DEF Connections
  <2>5. /\ r.owner = conns[c].owner /\ r.peer = conns[c].peer
        /\ r.remote = d /\ r.st = "lost" /\ IsOf(r.remote, Rev(Of(c)))
    BY <1>1, <2>4 DEF Connections
  <2>6. /\ t.owner = conns[f].owner /\ t.peer = conns[f].peer
        /\ t.remote = conns[f].remote /\ t.st = "lost"
    BY <2>3, <2>4 DEF Connections
  <2>7. conns' = [conns EXCEPT ![c] = r, ![f] = t]
    BY <1>1, <1>4, <2>1, <2>2, <2>3, <2>4 DEF Describes, WithRemote, Connections
  <2>8. /\ Grows /\ Conns' /\ Made' = Made /\ conns'[c] = r /\ conns'[f] = t
        /\ \A e \in Made \ {c, f} : conns'[e] = conns[e]
    BY <2>2, <2>5, <2>6, <2>7, EndsSet
  <2> QED BY <1>4, <2>1, <2>5, <2>6, <2>8
<1> QED BY <1>2, <1>3, <1>4

LEMMA Touched ==
  ASSUME Conns, Touches
  PROVE  /\ Grows /\ Conns' /\ Made' = Made
         /\ \A e \in Made : conns'[e].st = conns[e].st /\ conns'[e].remote = conns[e].remote
<1>1. PICK c \in Made, r \in Connections :
          /\ conns' = [conns EXCEPT ![c] = r]
          /\ r.owner = conns[c].owner /\ r.peer = conns[c].peer
          /\ r.remote = conns[c].remote /\ r.st = conns[c].st
  BY DEF Touches
<1>2. r.remote # 0 => IsOf(r.remote, Rev(Of(c)))
  BY <1>1 DEF Conns
<1>3. /\ Grows /\ Conns' /\ Made' = Made
      /\ conns'[c] = r /\ \A e \in Made : e # c => conns'[e] = conns[e]
  BY <1>1, <1>2, Sets
<1> QED BY <1>1, <1>3

LEMMA Adjusted ==
  ASSUME Conns, Adjusts
  PROVE  Grows /\ Conns' /\ Made' = Made
<1>1. CASE UNCHANGED conns
  BY <1>1, Stays DEF Conns, Made, IsOf, Of
<1>2. CASE Touches
  BY <1>2, Touched
<1>3. CASE SetsRemote
  BY <1>3, Remotes DEF SetsRemote
<1> QED BY <1>1, <1>2, <1>3 DEF Adjusts

LEMMA CreateOfferAdjusts ==
  ASSUME TypeInv, NEW n \in Nodes, CreateOffer(n)
  PROVE  Adjusts
<1>1. PICK c : c = entry[<<n, job[n].peer>>] /\ (c # 0 => c \in Made)
  BY DEF TypeInv, Goers, Offering, CreateOffer, Entries, IsOf
<1>2. CASE c # 0 /\ conns' = [conns EXCEPT ![c].sig = "local"]
  <2>1. conns[c] \in Connections /\ c \in Made
    BY <1>1, <1>2 DEF TypeInv, Conns, Made
  <2>2. PICK r : r = [conns[c] EXCEPT !.sig = "local"]
    OBVIOUS
  <2>3. /\ r \in Connections
        /\ r.owner = conns[c].owner /\ r.peer = conns[c].peer
        /\ r.remote = conns[c].remote /\ r.st = conns[c].st
    BY <2>1, <2>2 DEF Connections
  <2>4. conns' = [conns EXCEPT ![c] = r]
    BY <1>2, <2>2
  <2> QED BY <2>1, <2>3, <2>4 DEF Touches, Adjusts
<1>3. CASE UNCHANGED conns
  BY <1>3 DEF Adjusts
<1> QED BY <1>1, <1>2, <1>3 DEF CreateOffer

LEMMA SendCandidateAdjusts ==
  ASSUME TypeInv, NEW c \in Made, SendCandidate(c)
  PROVE  Adjusts
<1>1. conns[c] \in Connections
  BY DEF TypeInv, Conns, Made
<1>2. PICK r : r = [conns[c] EXCEPT !.left = conns[c].left - 1]
  OBVIOUS
<1>3. conns[c].left - 1 \in 0..Cands
  BY <1>1, SignalingAssumption DEF Connections, SendCandidate
<1>4. /\ r \in Connections
      /\ r.owner = conns[c].owner /\ r.peer = conns[c].peer
      /\ r.remote = conns[c].remote /\ r.st = conns[c].st
  BY <1>1, <1>2, <1>3 DEF Connections
<1>5. conns' = [conns EXCEPT ![c] = r]
  BY <1>2 DEF SendCandidate
<1>6. Touches
  BY <1>4, <1>5 DEF Touches
<1> QED BY <1>6 DEF Adjusts

LEMMA HandleCandidateAdjusts ==
  ASSUME TypeInv, NEW n, NEW p, <<n, p>> \in Pairs, HandleCandidate(n, p)
  PROVE  Adjusts
<1>1. PICK c : c = entry[<<n, p>>] /\ (c # 0 => c \in Made)
  BY DEF TypeInv, Entries, IsOf
<1>2. CASE c # 0 /\ conns' = [conns EXCEPT ![c].ice = TRUE]
  <2>1. conns[c] \in Connections /\ c \in Made
    BY <1>1, <1>2 DEF TypeInv, Conns, Made
  <2>2. PICK r : r = [conns[c] EXCEPT !.ice = TRUE]
    OBVIOUS
  <2>3. /\ r \in Connections
        /\ r.owner = conns[c].owner /\ r.peer = conns[c].peer
        /\ r.remote = conns[c].remote /\ r.st = conns[c].st
    BY <2>1, <2>2 DEF Connections
  <2>4. conns' = [conns EXCEPT ![c] = r]
    BY <1>2, <2>2
  <2> QED BY <2>1, <2>3, <2>4 DEF Touches, Adjusts
<1>3. CASE UNCHANGED conns
  BY <1>3 DEF Adjusts
<1> QED BY <1>1, <1>2, <1>3 DEF HandleCandidate

LEMMA ApplyOfferAdjusts ==
  ASSUME TypeInv, NEW n \in Nodes, ApplyOffer(n)
  PROVE  Adjusts
<1>1. PICK p, c, d : /\ p = loop[n].peer /\ d = loop[n].conn /\ d \in Nat
                     /\ c = IF loop[n].pc = 0 THEN entry[<<n, p>>] ELSE loop[n].pc
                     /\ (c # 0 => IsOf(c, <<n, p>>)) /\ IsOf(d, <<p, n>>)
  BY DEF TypeInv, Goers, Answering, ApplyOffer, Goroutines, Entries
<1>2. CASE c # 0 /\ conns' = WithRemote(c, d)
  <2>1. c \in Made /\ IsOf(d, Rev(Of(c)))
    BY <1>1, <1>2 DEF IsOf, Of, Rev
  <2> QED BY <1>1, <1>2, <2>1 DEF Adjusts, SetsRemote, Describes
<1>3. CASE UNCHANGED conns
  BY <1>3 DEF Adjusts
<1> QED BY <1>1, <1>2, <1>3 DEF ApplyOffer

LEMMA HandleAnswerAdjusts ==
  ASSUME TypeInv, NEW n, NEW p, <<n, p>> \in Pairs, HandleAnswer(n, p)
  PROVE  Adjusts
<1>1. PICK c, d : c = entry[<<n, p>>] /\ (c # 0 => IsOf(c, <<n, p>>)) /\ d = From(n, p)
  BY DEF TypeInv, Entries
<1>2. d \in Nat /\ IsOf(d, <<p, n>>)
  BY <1>1, ReceivedFrom DEF HandleAnswer, TypeInv
<1>3. CASE c # 0 /\ conns' = WithRemote(c, d)
  <2>1. c \in Made /\ IsOf(d, Rev(Of(c)))
    BY <1>1, <1>2, <1>3 DEF IsOf, Of, Rev
  <2> QED BY <1>2, <1>3, <2>1 DEF Adjusts, SetsRemote, Describes
<1>4. CASE UNCHANGED conns
  BY <1>4 DEF Adjusts
<1> QED BY <1>1, <1>3, <1>4 DEF HandleAnswer

-----------------------------------------------------------------------------
(***************************************************************************)
(* Every step keeps the types                                              *)
(***************************************************************************)

LEMMA AtTyped ==
  ASSUME NEW st \in {"idle", "create", "offer", "send", "apply", "answer"},
         NEW p \in Nodes, NEW c \in Nat
  PROVE  /\ At(st, p, c) \in Goroutines
         /\ At(st, p, c).st = st /\ At(st, p, c).peer = p /\ At(st, p, c).conn = c
         /\ At(st, p, c).pc = 0
  BY DEF At, Goroutines

LEMMA IdleTyped ==
  ASSUME NEW n \in Nodes
  PROVE  Idle(n) \in Goroutines /\ Idle(n).st = "idle" /\ Offering(n, Idle(n))' /\ Answering(n, Idle(n))'
  BY DEF Idle, At, Goroutines, Offering, Answering

LEMMA CreateTyped ==
  ASSUME Conns, Entries, NEW n, NEW p, <<n, p>> \in Pairs, CreateConnection(n, p)
  PROVE  Grows /\ Conns' /\ Entries'
<1>1. conns' = Append(conns, New(n, p)) /\ entry' = [entry EXCEPT ![<<n, p>>] = Len(conns) + 1]
  BY DEF CreateConnection
<1>2. /\ Grows /\ Conns' /\ Made' = Made \cup {Len(conns) + 1}
      /\ Len(conns') = Len(conns) + 1 /\ IsOf(Len(conns), <<n, p>>)'
  BY <1>1, Adds
<1>3. Len(conns) \in Nat
  BY DEF Conns
<1>4. ASSUME NEW q \in Pairs, entry'[q] # 0
      PROVE  entry'[q] \in Made' /\ <<conns'[entry'[q]].owner, conns'[entry'[q]].peer>> = q
  <2>1. CASE q = <<n, p>>
    <3>1. entry'[q] = Len(conns')
      BY <1>1, <1>2, <2>1 DEF Entries
    <3> QED BY <1>2, <2>1, <3>1 DEF IsOf, Of
  <2>2. CASE q # <<n, p>>
    <3>1. entry'[q] = entry[q]
      BY <1>1, <2>2 DEF Entries
    <3>2. IsOf(entry[q], q)
      BY <1>4, <3>1 DEF Entries
    <3> QED BY <1>2, <3>1, <3>2 DEF Grows, IsOf, Of
  <2> QED BY <2>1, <2>2
<1>5. entry' \in [Pairs -> Nat]
  BY <1>1, <1>3 DEF Entries
<1>6. Entries'
  BY <1>4, <1>5 DEF Entries, IsOf, Of
<1> QED BY <1>2, <1>6

LEMMA CheckPeerTyped ==
  ASSUME TypeInv, NEW n, NEW p, <<n, p>> \in Pairs, CheckPeer(n, p)
  PROVE  TypeInv'
<1>1. n \in Nodes /\ p \in Nodes
  BY DEF Pairs
<1>2. Grows /\ Conns' /\ Entries' /\ Nets'
  <2>1. UNCHANGED <<conns, entry, net>>
    BY DEF CheckPeer
  <2>2. Grows
    BY <2>1, Stays DEF TypeInv
  <2>3. Conns'
    BY <2>1 DEF TypeInv, Conns, Made, IsOf, Of
  <2> QED BY <2>1, <2>2, <2>3, KeepsEntries, KeepsNets DEF TypeInv
<1>3. At("create", p, 0) \in Goroutines /\ Offering(n, At("create", p, 0))'
  BY <1>1 DEF Offering, At, Goroutines
<1>4. Goers'
  BY <1>1, <1>2, <1>3, JobMoves DEF CheckPeer, TypeInv
<1>5. Counts'
  BY SignalingAssumption DEF TypeInv, Counts, CheckPeer
<1> QED BY <1>2, <1>4, <1>5 DEF TypeInv

LEMMA CreateInitiatorTyped ==
  ASSUME TypeInv, NEW n \in Nodes, CreateInitiator(n)
  PROVE  TypeInv'
<1>1. job[n] \in Goroutines /\ <<n, job[n].peer>> \in Pairs
  BY DEF TypeInv, Goers, Offering, CreateInitiator
<1>2. Grows /\ Conns' /\ Entries'
  BY <1>1, CreateTyped DEF TypeInv, CreateInitiator
<1>3. Nets'
  BY <1>2, KeepsNets DEF TypeInv, CreateInitiator
<1>4. Goers'
  <2>1. PICK r \in Goroutines : /\ r.st = "offer" /\ r.peer = job[n].peer
                                /\ job' = [job EXCEPT ![n] = r]
    BY <1>1 DEF Goroutines, CreateInitiator
  <2>2. Offering(n, r)'
    BY <1>1, <2>1 DEF Offering
  <2> QED BY <1>2, <2>1, <2>2, JobMoves DEF TypeInv, CreateInitiator
<1>5. Counts'
  BY DEF TypeInv, Counts, CreateInitiator, bounds
<1> QED BY <1>2, <1>3, <1>4, <1>5 DEF TypeInv

LEMMA CreateResponderTyped ==
  ASSUME TypeInv, NEW n \in Nodes, CreateResponder(n)
  PROVE  TypeInv'
<1>1. /\ loop[n] \in Goroutines /\ <<n, loop[n].peer>> \in Pairs
      /\ loop[n].st = "create" /\ IsOf(loop[n].conn, <<loop[n].peer, n>>)
  BY DEF TypeInv, Goers, Answering, CreateResponder
<1>2. Grows /\ Conns' /\ Entries'
  BY <1>1, CreateTyped DEF TypeInv, CreateResponder
<1>3. Nets'
  BY <1>2, KeepsNets DEF TypeInv, CreateResponder
<1>4. Goers'
  <2>1. PICK r \in Goroutines : /\ r = [loop[n] EXCEPT !.st = "apply"]
                                /\ loop' = [loop EXCEPT ![n] = r]
    BY <1>1 DEF Goroutines, CreateResponder
  <2>2. r.st = "apply" /\ r.peer = loop[n].peer /\ r.conn = loop[n].conn /\ r.pc = loop[n].pc
    BY <1>1, <2>1 DEF Goroutines
  <2>3. IsOf(r.conn, <<r.peer, n>>)'
    BY <1>1, <1>2, <2>2, Carries
  <2>4. r.pc = 0
    BY <1>1, <2>2 DEF TypeInv, Goers, Answering
  <2>5. Answering(n, r)'
    BY <1>1, <2>2, <2>3, <2>4 DEF Answering
  <2> QED BY <1>2, <2>1, <2>5, LoopMoves DEF TypeInv, CreateResponder
<1>5. Counts'
  BY DEF TypeInv, Counts, CreateResponder, bounds
<1> QED BY <1>2, <1>3, <1>4, <1>5 DEF TypeInv

LEMMA CreateOfferTyped ==
  ASSUME TypeInv, NEW n \in Nodes, CreateOffer(n)
  PROVE  TypeInv'
<1> DEFINE p == job[n].peer
           c == entry[<<n, p>>]
<1>1. /\ job[n] \in Goroutines /\ <<n, p>> \in Pairs /\ p \in Nodes
      /\ c \in Nat /\ (c # 0 => IsOf(c, <<n, p>>))
      /\ UNCHANGED <<entry, net, loop, bounds>>
  BY DEF TypeInv, Goers, Offering, CreateOffer, Entries, Goroutines
<1>2. Grows /\ Conns'
  BY CreateOfferAdjusts, Adjusted DEF TypeInv
<1>3. Nets' /\ Entries'
  BY <1>1, <1>2, KeepsNets, KeepsEntries DEF TypeInv
<1>4. Goers'
  <2>1. CASE UNCHANGED job
    BY <1>1, <1>2, <2>1, GoersStay DEF TypeInv
  <2>2. CASE c # 0 /\ job' = [job EXCEPT ![n] = At("send", p, c)]
    <3>1. PICK r \in Goroutines : /\ r.st = "send" /\ r.peer = p /\ r.conn = c
                                  /\ job' = [job EXCEPT ![n] = r]
      <4>1. /\ At("send", p, c) \in Goroutines /\ At("send", p, c).st = "send"
            /\ At("send", p, c).peer = p /\ At("send", p, c).conn = c
        BY <1>1, AtTyped
      <4> QED BY <2>2, <4>1
    <3>2. IsOf(r.conn, <<n, r.peer>>)'
      BY <1>1, <1>2, <2>2, <3>1, Carries
    <3>3. Offering(n, r)'
      BY <1>1, <3>1, <3>2 DEF Offering
    <3> QED BY <1>1, <1>2, <3>1, <3>3, JobMoves DEF TypeInv
  <2>3. CASE job' = [job EXCEPT ![n] = Idle(n)]
    BY <1>1, <1>2, <2>3, JobMoves, IdleTyped DEF TypeInv
  <2> QED BY <2>1, <2>2, <2>3 DEF CreateOffer
<1>5. Counts'
  BY <1>1 DEF TypeInv, Counts, CreateOffer, bounds
<1> QED BY <1>2, <1>3, <1>4, <1>5 DEF TypeInv

\* A goroutine sends a message about a connection of its own, and is done.
LEMMA SendTyped ==
  ASSUME Grows, Nets, NEW n, NEW p, <<n, p>> \in Pairs, NEW c, IsOf(c, <<n, p>>),
         NEW t \in {"offer", "answer", "candidate"}, SendTo(p, n, Msg(t, c))
  PROVE  Nets'
<1>1. Msg(t, c) \in Messages /\ Msg(t, c).from = c
  BY DEF Messages, Msg, IsOf, Made
<1>2. PICK m \in Messages : m = Msg(t, c) /\ m.from = c
  BY <1>1
<1>3. IsOf(m.from, <<n, p>>)'
  BY <1>2, Carries DEF IsOf, Of
<1> QED BY <1>2, <1>3, Sends

LEMMA SendOfferTyped ==
  ASSUME TypeInv, NEW n \in Nodes, SendOffer(n)
  PROVE  TypeInv'
<1>1. PICK p, c : /\ p = job[n].peer /\ c = job[n].conn
                  /\ <<n, p>> \in Pairs /\ IsOf(c, <<n, p>>)
  BY DEF TypeInv, Goers, Offering, SendOffer, Goroutines
<1>2. UNCHANGED <<conns, entry, loop, panicked, forgot, bounds>>
  BY DEF SendOffer
<1>3. Grows /\ Conns' /\ Entries'
  <2>1. Grows /\ Conns'
    BY <1>2, Stays DEF TypeInv, Conns, Made, IsOf, Of
  <2> QED BY <1>2, <2>1, KeepsEntries DEF TypeInv
<1>4. Nets'
  BY <1>1, <1>3, SendTyped DEF TypeInv, SendOffer
<1>5. Goers'
  BY <1>2, <1>3, JobMoves, IdleTyped DEF TypeInv, SendOffer
<1>6. Counts'
  BY <1>2 DEF TypeInv, Counts, bounds
<1> QED BY <1>3, <1>4, <1>5, <1>6 DEF TypeInv

LEMMA SendAnswerTyped ==
  ASSUME TypeInv, NEW n \in Nodes, SendAnswer(n)
  PROVE  TypeInv'
<1>1. PICK p, c : /\ p = loop[n].peer /\ c = loop[n].conn
                  /\ <<n, p>> \in Pairs /\ IsOf(c, <<n, p>>)
  BY DEF TypeInv, Goers, Answering, SendAnswer, Goroutines
<1>2. UNCHANGED <<conns, entry, job, panicked, forgot, bounds>>
  BY DEF SendAnswer
<1>3. Grows /\ Conns' /\ Entries'
  <2>1. Grows /\ Conns'
    BY <1>2, Stays DEF TypeInv, Conns, Made, IsOf, Of
  <2> QED BY <1>2, <2>1, KeepsEntries DEF TypeInv
<1>4. Nets'
  BY <1>1, <1>3, SendTyped DEF TypeInv, SendAnswer
<1>5. Goers'
  BY <1>2, <1>3, LoopMoves, IdleTyped DEF TypeInv, SendAnswer
<1>6. Counts'
  BY <1>2 DEF TypeInv, Counts, bounds
<1> QED BY <1>3, <1>4, <1>5, <1>6 DEF TypeInv

LEMMA SendCandidateTyped ==
  ASSUME TypeInv, NEW c \in Made, SendCandidate(c)
  PROVE  TypeInv'
<1>1. PICK n, p : /\ n = conns[c].owner /\ p = conns[c].peer
                  /\ <<n, p>> \in Pairs /\ IsOf(c, <<n, p>>)
  BY DEF TypeInv, Conns, IsOf, Of
<1>2. UNCHANGED <<entry, job, loop, panicked, forgot, bounds>>
  BY DEF SendCandidate
<1>3. Grows /\ Conns'
  BY SendCandidateAdjusts, Adjusted DEF TypeInv
<1>4. Nets'
  BY <1>1, <1>3, SendTyped DEF TypeInv, SendCandidate
<1>5. Goers' /\ Entries'
  BY <1>2, <1>3, GoersStay, KeepsEntries DEF TypeInv
<1>6. Counts'
  BY <1>2 DEF TypeInv, Counts, bounds
<1> QED BY <1>3, <1>4, <1>5, <1>6 DEF TypeInv

LEMMA HandleOfferTyped ==
  ASSUME TypeInv, NEW n, NEW p, <<n, p>> \in Pairs, HandleOffer(n, p)
  PROVE  TypeInv'
<1>1. n \in Nodes /\ p \in Nodes
  BY DEF Pairs
<1>2. UNCHANGED <<conns, entry, job, panicked, forgot, bounds>> /\ Receives(n, p, "offer") /\ Consume(n, p)
  BY DEF HandleOffer
<1>3. Grows /\ Conns' /\ Entries'
  <2>1. Grows /\ Conns'
    BY <1>2, Stays DEF TypeInv, Conns, Made, IsOf, Of
  <2> QED BY <1>2, <2>1, KeepsEntries DEF TypeInv
<1>4. Nets' /\ IsOf(From(n, p), <<p, n>>) /\ From(n, p) \in Nat
  BY <1>2, <1>3, Receiving, ReceivedFrom DEF TypeInv
<1>5. PICK c, d : /\ c = entry[<<n, p>>] /\ c \in Nat /\ (c # 0 => IsOf(c, <<n, p>>))
                  /\ d = From(n, p) /\ d \in Nat /\ IsOf(d, <<p, n>>)
  BY <1>4 DEF TypeInv, Entries
<1>6. Goers'
  <2>1. PICK r \in Goroutines : /\ r.st = IF c = 0 THEN "create" ELSE "apply"
                                /\ r.peer = p /\ r.conn = d /\ r.pc = c
                                /\ loop' = [loop EXCEPT ![n] = r]
    <3> DEFINE x == [At(IF c = 0 THEN "create" ELSE "apply", p, d) EXCEPT !.pc = c]
    <3>1. /\ x \in Goroutines /\ x.st = IF c = 0 THEN "create" ELSE "apply"
          /\ x.peer = p /\ x.conn = d /\ x.pc = c
      BY <1>1, <1>5 DEF At, Goroutines
    <3>2. loop' = [loop EXCEPT ![n] = x]
      BY <1>5 DEF HandleOffer
    <3> QED BY <3>1, <3>2
  <2>2. IsOf(d, <<p, n>>)' /\ (c # 0 => IsOf(c, <<n, p>>)')
    BY <1>3, <1>5, Carries
  <2>3. Answering(n, r)'
    BY <2>1, <2>2 DEF Answering
  <2> QED BY <1>1, <1>2, <1>3, <2>1, <2>3, LoopMoves DEF TypeInv
<1>7. Counts'
  BY <1>2 DEF TypeInv, Counts, bounds
<1> QED BY <1>3, <1>4, <1>6, <1>7 DEF TypeInv

LEMMA ApplyOfferTyped ==
  ASSUME TypeInv, NEW n \in Nodes, ApplyOffer(n)
  PROVE  TypeInv'
<1>1. PICK p, c, d : /\ p = loop[n].peer /\ d = loop[n].conn /\ d \in Nat
                     /\ c = IF loop[n].pc = 0 THEN entry[<<n, p>>] ELSE loop[n].pc
                     /\ c \in Nat /\ (c # 0 => IsOf(c, <<n, p>>))
                     /\ p \in Nodes /\ <<n, p>> \in Pairs /\ IsOf(d, <<p, n>>)
  BY DEF TypeInv, Goers, Answering, ApplyOffer, Goroutines, Entries
<1>2. UNCHANGED <<entry, net, job, forgot, bounds>>
  BY DEF ApplyOffer
<1>3. Grows /\ Conns'
  BY ApplyOfferAdjusts, Adjusted DEF TypeInv
<1>4. Nets' /\ Entries'
  BY <1>2, <1>3, KeepsNets, KeepsEntries DEF TypeInv
<1>5. Goers'
  <2>1. CASE UNCHANGED loop
    BY <1>2, <1>3, <2>1, GoersStay DEF TypeInv
  <2>2. CASE loop' = [loop EXCEPT ![n] = Idle(n)]
    BY <1>2, <1>3, <2>2, LoopMoves, IdleTyped DEF TypeInv
  <2>3. CASE c # 0 /\ loop' = [loop EXCEPT ![n] = At("answer", p, c)]
    <3>1. PICK r \in Goroutines : /\ r.st = "answer" /\ r.peer = p /\ r.conn = c
                                  /\ loop' = [loop EXCEPT ![n] = r]
      <4>1. /\ At("answer", p, c) \in Goroutines /\ At("answer", p, c).st = "answer"
            /\ At("answer", p, c).peer = p /\ At("answer", p, c).conn = c
        BY <1>1, AtTyped
      <4> QED BY <2>3, <4>1
    <3>2. IsOf(c, <<n, p>>)'
      BY <1>1, <1>3, <2>3, Carries
    <3>3. Answering(n, r)'
      BY <1>1, <3>1, <3>2 DEF Answering
    <3> QED BY <1>2, <1>3, <3>1, <3>3, LoopMoves DEF TypeInv
  <2> QED BY <1>1, <2>1, <2>2, <2>3 DEF ApplyOffer
<1>6. Counts'
  BY <1>2 DEF TypeInv, Counts, ApplyOffer, bounds
<1> QED BY <1>3, <1>4, <1>5, <1>6 DEF TypeInv

LEMMA HandleAnswerTyped ==
  ASSUME TypeInv, NEW n, NEW p, <<n, p>> \in Pairs, HandleAnswer(n, p)
  PROVE  TypeInv'
<1>1. UNCHANGED <<entry, job, loop, panicked, forgot, bounds>> /\ Receives(n, p, "answer") /\ Consume(n, p)
  BY DEF HandleAnswer
<1>2. Grows /\ Conns'
  BY HandleAnswerAdjusts, Adjusted DEF TypeInv
<1>3. Nets'
  BY <1>1, <1>2, Receiving DEF TypeInv
<1>4. Goers' /\ Entries'
  BY <1>1, <1>2, GoersStay, KeepsEntries DEF TypeInv
<1>5. Counts'
  BY <1>1 DEF TypeInv, Counts, bounds
<1> QED BY <1>2, <1>3, <1>4, <1>5 DEF TypeInv

LEMMA HandleCandidateTyped ==
  ASSUME TypeInv, NEW n, NEW p, <<n, p>> \in Pairs, HandleCandidate(n, p)
  PROVE  TypeInv'
<1>1. UNCHANGED <<entry, job, loop, panicked, forgot, bounds>> /\ Receives(n, p, "candidate") /\ Consume(n, p)
  BY DEF HandleCandidate
<1>2. Grows /\ Conns'
  BY HandleCandidateAdjusts, Adjusted DEF TypeInv
<1>3. Nets'
  BY <1>1, <1>2, Receiving DEF TypeInv
<1>4. Goers' /\ Entries'
  BY <1>1, <1>2, GoersStay, KeepsEntries DEF TypeInv
<1>5. Counts'
  BY <1>1 DEF TypeInv, Counts, bounds
<1> QED BY <1>2, <1>3, <1>4, <1>5 DEF TypeInv

\* The ends of a connection are of different nodes.
LEMMA EndsApart ==
  ASSUME TypeInv, NEW c \in Made, NEW d \in Made, Matched(c, d)
  PROVE  c # d /\ d # 0 /\ Of(d) = Rev(Of(c)) /\ Of(c) \in Pairs
<1>1. d # 0
  BY DEF Made
<1>2. IsOf(d, Rev(Of(c))) /\ Of(c) \in Pairs
  BY <1>1 DEF TypeInv, Conns, Matched
<1>3. Of(d) # Of(c)
  BY <1>2 DEF IsOf, Of, Rev, Pairs
<1> QED BY <1>1, <1>2, <1>3 DEF IsOf

LEMMA OpensEffect ==
  ASSUME TypeInv, NEW c \in Made, NEW d \in Made, Opens(c, d)
  PROVE  /\ Grows /\ Conns' /\ Made' = Made
         /\ \A e \in {c, d} : /\ conns'[e].st = "open" /\ conns'[e].remote = conns[e].remote
                              /\ conns'[e].told = conns[e].told
         /\ \A e \in Made \ {c, d} : conns'[e] = conns[e]
<1>1. c # d
  BY EndsApart DEF Opens
<1>2. conns[c] \in Connections /\ conns[d] \in Connections
  BY DEF TypeInv, Conns, Made
<1>3. PICK r, s : r = [conns[c] EXCEPT !.st = "open"] /\ s = [conns[d] EXCEPT !.st = "open"]
  OBVIOUS
<1>4. /\ r \in Connections /\ r.owner = conns[c].owner /\ r.peer = conns[c].peer
      /\ r.remote = conns[c].remote /\ r.st = "open" /\ r.told = conns[c].told
  BY <1>2, <1>3 DEF Connections
<1>5. /\ s \in Connections /\ s.owner = conns[d].owner /\ s.peer = conns[d].peer
      /\ s.remote = conns[d].remote /\ s.st = "open" /\ s.told = conns[d].told
  BY <1>2, <1>3 DEF Connections
<1>6. conns' = [conns EXCEPT ![c] = r, ![d] = s]
  BY <1>1, <1>3 DEF Opens
<1>7. /\ Grows /\ Conns' /\ Made' = Made /\ conns'[c] = r /\ conns'[d] = s
      /\ \A e \in Made \ {c, d} : conns'[e] = conns[e]
  BY <1>1, <1>4, <1>5, <1>6, EndsSet DEF TypeInv
<1> QED BY <1>4, <1>5, <1>7

LEMMA LosesEffect ==
  ASSUME TypeInv, NEW c \in Made, NEW d \in Made, Loses(c, d)
  PROVE  /\ Grows /\ Conns' /\ Made' = Made
         /\ \A e \in {c, d} : conns'[e].st = "lost" /\ conns'[e].remote = conns[e].remote
         /\ \A e \in Made \ {c, d} : conns'[e] = conns[e]
<1>1. c # d
  BY EndsApart DEF Loses
<1>2. conns[c] \in Connections /\ conns[d] \in Connections
  BY DEF TypeInv, Conns, Made
<1>3. PICK r, s : /\ r = [conns[c] EXCEPT !.st = "lost", !.told = TRUE]
                  /\ s = [conns[d] EXCEPT !.st = "lost", !.told = TRUE]
  OBVIOUS
<1>4. /\ r \in Connections /\ r.owner = conns[c].owner /\ r.peer = conns[c].peer
      /\ r.remote = conns[c].remote /\ r.st = "lost"
  BY <1>2, <1>3 DEF Connections
<1>5. /\ s \in Connections /\ s.owner = conns[d].owner /\ s.peer = conns[d].peer
      /\ s.remote = conns[d].remote /\ s.st = "lost"
  BY <1>2, <1>3 DEF Connections
<1>6. conns' = [conns EXCEPT ![c] = r, ![d] = s]
  <2>1. conns \in Seq(Connections)
    BY DEF TypeInv, Conns
  <2>2. DOMAIN conns = Made
    BY <2>1 DEF Made
  <2> QED BY <1>1, <1>2, <1>3, <2>2 DEF Loses, Connections
<1>7. /\ Grows /\ Conns' /\ Made' = Made /\ conns'[c] = r /\ conns'[d] = s
      /\ \A e \in Made \ {c, d} : conns'[e] = conns[e]
  BY <1>1, <1>4, <1>5, <1>6, EndsSet DEF TypeInv
<1> QED BY <1>4, <1>5, <1>7

LEMMA OpensTyped ==
  ASSUME TypeInv, NEW c \in Made, NEW d \in Made, Opens(c, d)
  PROVE  TypeInv'
<1>1. UNCHANGED <<entry, net, job, loop, panicked, forgot, bounds>>
  BY DEF Opens
<1>2. Grows /\ Conns'
  BY OpensEffect
<1>3. Entries' /\ Nets' /\ Goers'
  BY <1>1, <1>2, GoersStay, KeepsEntries, KeepsNets DEF TypeInv
<1>4. Counts'
  BY <1>1 DEF TypeInv, Counts, bounds
<1> QED BY <1>2, <1>3, <1>4 DEF TypeInv

LEMMA LosesTyped ==
  ASSUME TypeInv, NEW c \in Made, NEW d \in Made, Loses(c, d)
  PROVE  TypeInv'
<1>1. UNCHANGED <<entry, net, job, loop, panicked, forgot, offers>>
  BY DEF Loses
<1>2. Grows /\ Conns'
  BY LosesEffect
<1>3. Entries' /\ Nets' /\ Goers'
  BY <1>1, <1>2, GoersStay, KeepsEntries, KeepsNets DEF TypeInv
<1>4. Counts'
  BY <1>1, SignalingAssumption DEF TypeInv, Counts, Loses
<1> QED BY <1>2, <1>3, <1>4 DEF TypeInv

\* The callback of c, or a moment without it, changes only whether it is told.
LEMMA TellsEffect ==
  ASSUME TypeInv, NEW c \in Made, NEW told \in BOOLEAN, conns' = [conns EXCEPT ![c].told = told]
  PROVE  /\ Grows /\ Conns' /\ Made' = Made
         /\ conns'[c].st = conns[c].st /\ conns'[c].remote = conns[c].remote
         /\ \A e \in Made : e # c => conns'[e] = conns[e]
<1>1. conns[c] \in Connections
  BY DEF TypeInv, Conns, Made
<1>2. PICK r \in Connections : /\ r.owner = conns[c].owner /\ r.peer = conns[c].peer
                               /\ r.remote = conns[c].remote /\ r.st = conns[c].st
                               /\ conns' = [conns EXCEPT ![c] = r]
  BY <1>1 DEF Connections
<1>3. r.remote # 0 => IsOf(r.remote, Rev(Of(c)))
  BY <1>2 DEF TypeInv, Conns
<1> QED BY <1>2, <1>3, Sets DEF TypeInv

LEMMA BlinksTyped ==
  ASSUME TypeInv, NEW c \in Made, Blinks(c)
  PROVE  TypeInv'
<1>1. UNCHANGED <<entry, net, job, loop, panicked, forgot, offers>>
  BY DEF Blinks
<1>2. Grows /\ Conns'
  BY TellsEffect DEF Blinks
<1>3. Entries' /\ Nets' /\ Goers'
  BY <1>1, <1>2, GoersStay, KeepsEntries, KeepsNets DEF TypeInv
<1>4. Counts'
  BY <1>1, SignalingAssumption DEF TypeInv, Counts, Blinks
<1> QED BY <1>2, <1>3, <1>4 DEF TypeInv

LEMMA OnDisconnectedTyped ==
  ASSUME TypeInv, NEW c \in Made, OnDisconnected(c)
  PROVE  TypeInv'
<1>1. UNCHANGED <<net, job, loop, panicked, bounds>> /\ forgot'
  BY DEF OnDisconnected
<1>2. Grows /\ Conns'
  BY TellsEffect DEF OnDisconnected
<1>3. Entries'
  <2>1. entry' = [entry EXCEPT ![Of(c)] = 0]
    BY DEF OnDisconnected, Of
  <2>2. entry' \in [Pairs -> Nat]
    BY <2>1 DEF TypeInv, Entries
  <2>3. ASSUME NEW q \in Pairs, entry'[q] # 0
        PROVE  entry'[q] \in Made' /\ <<conns'[entry'[q]].owner, conns'[entry'[q]].peer>> = q
    <3>1. entry'[q] = entry[q]
      BY <2>1, <2>3 DEF TypeInv, Entries
    <3>2. IsOf(entry[q], q)
      BY <2>3, <3>1 DEF TypeInv, Entries
    <3> QED BY <1>2, <3>1, <3>2 DEF Grows, IsOf, Of
  <2> QED BY <2>2, <2>3 DEF Entries, IsOf, Of
<1>4. Nets' /\ Goers'
  BY <1>1, <1>2, GoersStay, KeepsNets DEF TypeInv
<1>5. Counts'
  BY <1>1 DEF TypeInv, Counts, bounds
<1> QED BY <1>2, <1>3, <1>4, <1>5 DEF TypeInv

LEMMA TypeInit == Init => TypeInv
<1> SUFFICES ASSUME Init PROVE TypeInv
  OBVIOUS
<1>1. conns = <<>> /\ Made = {}
  BY DEF Init, Made
<1>2. Conns
  BY <1>1 DEF Conns
<1>3. Entries
  BY DEF Init, Entries
<1>4. Nets
  BY DEF Init, Nets
<1>5. \A n \in Nodes : Idle(n) \in Goroutines /\ Idle(n).st = "idle"
  BY IdleTyped
<1>6. Goers
  BY <1>5 DEF Init, Goers, Offering, Answering
<1>7. Counts
  <2>1. forgot \in BOOLEAN
    BY Zenon DEF Init
  <2> QED BY <2>1, SignalingAssumption DEF Init, Counts
<1> QED BY <1>2, <1>3, <1>4, <1>6, <1>7 DEF TypeInv

LEMMA TypeStep == TypeInv /\ [Next]_vars => TypeInv'
<1> SUFFICES ASSUME TypeInv, [Next]_vars PROVE TypeInv'
  OBVIOUS
<1>1. CASE \E q \in Pairs : CheckPeer(q[1], q[2])
  <2>1. PICK q \in Pairs : CheckPeer(q[1], q[2])
    BY <1>1
  <2>2. <<q[1], q[2]>> \in Pairs
    BY DEF Pairs
  <2> QED BY <2>1, <2>2, CheckPeerTyped
<1>2. CASE \E n \in Nodes : JobStep(n)
  BY <1>2, CreateInitiatorTyped, CreateOfferTyped, SendOfferTyped DEF JobStep
<1>3. CASE \E n \in Nodes : LoopStep(n)
  <2>1. PICK n \in Nodes : LoopStep(n)
    BY <1>3
  <2>2. CASE CreateResponder(n) \/ ApplyOffer(n) \/ SendAnswer(n)
    BY <2>2, CreateResponderTyped, ApplyOfferTyped, SendAnswerTyped
  <2>3. CASE \E q \in Pairs : q[1] = n /\ (\/ HandleOffer(n, q[2]) \/ HandleAnswer(n, q[2])
                                            \/ HandleCandidate(n, q[2]))
    <3>1. PICK q \in Pairs : /\ q[1] = n
                             /\ \/ HandleOffer(n, q[2]) \/ HandleAnswer(n, q[2])
                                \/ HandleCandidate(n, q[2])
      BY <2>3
    <3>2. <<n, q[2]>> \in Pairs
      BY <3>1 DEF Pairs
    <3> QED BY <3>1, <3>2, HandleOfferTyped, HandleAnswerTyped, HandleCandidateTyped
  <2> QED BY <2>1, <2>2, <2>3 DEF LoopStep
<1>4. CASE \E c \in Made : StackStep(c) \/ Blinks(c) \/ \E d \in Made : Loses(c, d)
  BY <1>4, SendCandidateTyped, OnDisconnectedTyped, OpensTyped, BlinksTyped, LosesTyped DEF StackStep
<1>5. CASE UNCHANGED vars
  <2>1. UNCHANGED <<conns, entry, net, job, loop, panicked, forgot, bounds>>
    BY <1>5 DEF vars
  <2>2. Grows /\ Conns'
    BY <2>1, Stays DEF TypeInv, Conns, Made, IsOf, Of
  <2>3. Entries' /\ Nets' /\ Goers'
    BY <2>1, <2>2, GoersStay, KeepsEntries, KeepsNets DEF TypeInv
  <2>4. Counts'
    BY <2>1 DEF TypeInv, Counts, bounds
  <2> QED BY <2>2, <2>3, <2>4 DEF TypeInv
<1> QED BY <1>1, <1>2, <1>3, <1>4, <1>5 DEF Next

LEMMA TypeAlways == Spec => []TypeInv
  BY TypeInit, TypeStep, PTL DEF Spec

LEMMA TypeImplies == TypeInv => TypeOK
<1> SUFFICES ASSUME TypeInv PROVE TypeOK
  OBVIOUS
<1>1. entry \in [Pairs -> 0..Len(conns)]
  BY DEF TypeInv, Conns, Entries, IsOf, Made
<1>2. \A q \in Pairs : entry[q] # 0 => <<conns[entry[q]].owner, conns[entry[q]].peer>> = q
  BY DEF TypeInv, Entries, IsOf, Of
<1> QED BY <1>1, <1>2 DEF TypeInv, Conns, Nets, Goers, Counts, TypeOK

(***************************************************************************)
(* Every variable of Signaling has its type, and an entry of               *)
(* peerConnections names a connection of that node to that peer, whichever *)
(* goroutine stored it (webrtc.go:18).                                     *)
(***************************************************************************)
THEOREM TypeCorrect == Spec => []TypeOK
  BY TypeAlways, TypeImplies, PTL

-----------------------------------------------------------------------------
(***************************************************************************)
(* An open connection keeps the one at the other end                       *)
(***************************************************************************)

\* None opens, and an open one loses its link only together with the other.
LEMMA LinkedKept ==
  ASSUME TypeInv, Linked, Grows,
         \A e \in Made' : conns'[e].st = "open" =>
             /\ e \in Made /\ conns[e].st = "open" /\ conns'[e].remote = conns[e].remote
             /\ conns'[conns[e].remote].st = "open"
  PROVE  Linked'
<1> SUFFICES ASSUME NEW e \in Made', conns'[e].st = "open"
             PROVE  /\ conns'[e].remote # 0 /\ conns'[conns'[e].remote].remote = e
                    /\ conns'[conns'[e].remote].st = "open"
  BY DEF Linked
<1>1. PICK d : d = conns[e].remote
  OBVIOUS
<1>2. e \in Made /\ d # 0 /\ conns[d].remote = e /\ conns'[e].remote = d /\ conns'[d].st = "open"
  BY <1>1 DEF Linked
<1>3. d \in Made /\ d \in Made'
  BY <1>1, <1>2 DEF TypeInv, Conns, IsOf, Grows
<1>4. conns'[d].remote = conns[d].remote
  BY <1>2, <1>3
<1> QED BY <1>2, <1>4

\* The remote of an open connection is one that was made.
LEMMA RemoteMade ==
  ASSUME TypeInv, Linked, NEW e \in Made, conns[e].st = "open"
  PROVE  conns[e].remote \in Made
  BY DEF Linked, TypeInv, Conns, IsOf

LEMMA LinkedCreates ==
  ASSUME TypeInv, Linked, NEW n, NEW p, <<n, p>> \in Pairs, CreateConnection(n, p)
  PROVE  Linked'
<1>1. /\ Grows /\ Made' = Made \cup {Len(conns) + 1} /\ conns'[Len(conns) + 1] = New(n, p)
      /\ \A e \in Made : conns'[e] = conns[e]
  BY Adds DEF CreateConnection, TypeInv
<1>2. New(n, p).st = "new"
  BY DEF New
<1>3. ASSUME NEW e \in Made', conns'[e].st = "open"
      PROVE  /\ e \in Made /\ conns[e].st = "open" /\ conns'[e].remote = conns[e].remote
             /\ conns'[conns[e].remote].st = "open"
  <2>1. e \in Made /\ conns'[e] = conns[e]
    BY <1>1, <1>2, <1>3
  <2>2. conns[e].remote \in Made /\ conns[conns[e].remote].st = "open"
    BY <1>3, <2>1, RemoteMade DEF Linked
  <2> QED BY <1>1, <1>3, <2>1, <2>2
<1> QED BY <1>1, <1>3, LinkedKept

\* A new remote breaks the link of an open connection at both its ends.
LEMMA LinkedRemotes ==
  ASSUME TypeInv, Linked, NEW c \in Made, NEW d \in Nat, IsOf(d, Rev(Of(c))), Describes(c, d)
  PROVE  Linked'
<1>1. /\ Grows /\ Made' = Made
      /\ IF ~Moves(c, d)
         THEN /\ conns'[c].remote = d /\ conns'[c].st = conns[c].st
              /\ \A e \in Made : e # c => conns'[e] = conns[e]
         ELSE /\ conns'[c].st # "open"
              /\ conns[c].st = "open" => conns'[conns[c].remote].st # "open"
              /\ \A e \in Made : e # c /\ (conns[c].st = "open" => e # conns[c].remote)
                                => conns'[e] = conns[e]
  BY Remotes DEF TypeInv
<1>2. ASSUME NEW e \in Made, conns'[e].st = "open"
      PROVE  /\ conns[e].st = "open" /\ conns'[e].remote = conns[e].remote
             /\ conns'[conns[e].remote].st = "open"
  <2>1. CASE ~Moves(c, d)
    <3>1. \A f \in Made : conns'[f].st = conns[f].st
      BY <1>1, <2>1
    <3>2. conns[e].st = "open"
      BY <1>2, <3>1
    <3>3. conns[e].remote # 0 /\ conns[e].remote \in Made /\ conns[conns[e].remote].st = "open"
      BY <3>2, RemoteMade DEF Linked
    <3>4. conns'[e].remote = conns[e].remote
      BY <1>1, <2>1, <3>3 DEF Moves
    <3> QED BY <3>1, <3>2, <3>3, <3>4
  <2>2. CASE Moves(c, d)
    <3>1. e # c /\ (conns[c].st = "open" => e # conns[c].remote)
      BY <1>1, <1>2, <2>2
    <3>2. conns'[e] = conns[e] /\ conns[e].st = "open"
      BY <1>1, <1>2, <2>2, <3>1
    <3>3. PICK f \in Made : f = conns[e].remote /\ conns[f].remote = e /\ conns[f].st = "open"
      BY <3>2, RemoteMade DEF Linked
    <3>4. f # c
      BY <3>1, <3>3
    <3>5. conns[c].st = "open" => f # conns[c].remote
      BY <3>1, <3>3 DEF Linked
    <3>6. conns'[f] = conns[f]
      BY <1>1, <2>2, <3>4, <3>5
    <3> QED BY <3>2, <3>3, <3>6
  <2> QED BY <2>1, <2>2
<1> QED BY <1>1, <1>2, LinkedKept

LEMMA LinkedAdjusts ==
  ASSUME TypeInv, Linked, Adjusts
  PROVE  Linked'
<1>1. CASE UNCHANGED conns
  BY <1>1 DEF Linked, Made
<1>2. CASE Touches
  <2>1. /\ Grows /\ Made' = Made
        /\ \A e \in Made : conns'[e].st = conns[e].st /\ conns'[e].remote = conns[e].remote
    BY <1>2, Touched DEF TypeInv
  <2>2. \A e \in Made : conns[e].st = "open" =>
            conns[e].remote \in Made /\ conns[conns[e].remote].st = "open"
    BY RemoteMade DEF Linked
  <2> QED BY <2>1, <2>2, LinkedKept
<1>3. CASE SetsRemote
  BY <1>3, LinkedRemotes DEF SetsRemote
<1> QED BY <1>1, <1>2, <1>3 DEF Adjusts

LEMMA LinkedOpens ==
  ASSUME TypeInv, Linked, NEW c \in Made, NEW d \in Made, Opens(c, d)
  PROVE  Linked'
<1>1. /\ Made' = Made
      /\ \A e \in {c, d} : conns'[e].st = "open" /\ conns'[e].remote = conns[e].remote
      /\ \A e \in Made \ {c, d} : conns'[e] = conns[e]
  BY OpensEffect
<1>2. \A e \in Made : conns'[e].remote = conns[e].remote
  BY <1>1
<1>3. conns[c].remote = d /\ conns[d].remote = c /\ c # 0 /\ d # 0
  BY DEF Opens, Matched, Made
<1> SUFFICES ASSUME NEW e \in Made, conns'[e].st = "open"
             PROVE  /\ conns'[e].remote # 0 /\ conns'[conns'[e].remote].remote = e
                    /\ conns'[conns'[e].remote].st = "open"
  BY <1>1 DEF Linked
<1>4. CASE e \in {c, d}
  BY <1>1, <1>2, <1>3, <1>4
<1>5. CASE e \notin {c, d}
  <2>1. PICK f \in Made : /\ f = conns[e].remote /\ f # 0
                          /\ conns[f].remote = e /\ conns[f].st = "open"
    BY <1>1, <1>5, RemoteMade DEF Linked
  <2>2. f \notin {c, d}
    BY <1>3, <1>5, <2>1
  <2> QED BY <1>1, <1>2, <2>1, <2>2
<1> QED BY <1>4, <1>5

LEMMA LinkedLoses ==
  ASSUME TypeInv, Linked, NEW c \in Made, NEW d \in Made, Loses(c, d)
  PROVE  Linked'
<1>1. /\ Grows /\ Made' = Made
      /\ \A e \in {c, d} : conns'[e].st = "lost" /\ conns'[e].remote = conns[e].remote
      /\ \A e \in Made \ {c, d} : conns'[e] = conns[e]
  BY LosesEffect
<1>2. conns[c].remote = d /\ conns[d].remote = c
  BY DEF Loses, Matched
<1>3. ASSUME NEW e \in Made, conns'[e].st = "open"
      PROVE  /\ conns[e].st = "open" /\ conns'[e].remote = conns[e].remote
             /\ conns'[conns[e].remote].st = "open"
  <2>1. e \notin {c, d} /\ conns'[e] = conns[e]
    BY <1>1, <1>3
  <2>2. PICK f \in Made : f = conns[e].remote /\ conns[f].remote = e /\ conns[f].st = "open"
    BY <1>3, <2>1, RemoteMade DEF Linked
  <2>3. f \notin {c, d}
    BY <1>2, <2>1, <2>2
  <2> QED BY <1>1, <1>3, <2>1, <2>2, <2>3
<1> QED BY <1>1, <1>3, LinkedKept

LEMMA LinkedTells ==
  ASSUME TypeInv, Linked, NEW c \in Made, NEW told \in BOOLEAN, conns' = [conns EXCEPT ![c].told = told]
  PROVE  Linked'
<1>1. /\ Grows /\ Made' = Made
      /\ conns'[c].st = conns[c].st /\ conns'[c].remote = conns[c].remote
      /\ \A e \in Made : e # c => conns'[e] = conns[e]
  BY TellsEffect
<1>2. \A e \in Made : conns'[e].st = conns[e].st /\ conns'[e].remote = conns[e].remote
  BY <1>1
<1>3. \A e \in Made : conns[e].st = "open" =>
          conns[e].remote \in Made /\ conns[conns[e].remote].st = "open"
  BY RemoteMade DEF Linked
<1> QED BY <1>1, <1>2, <1>3, LinkedKept

-----------------------------------------------------------------------------
(***************************************************************************)
(* While no entry is deleted, one end at most makes two                    *)
(***************************************************************************)

LEMMA RevPairs == \A q \in Pairs : Rev(q) \in Pairs /\ Rev(Rev(q)) = q /\ Rev(q) # q
  BY DEF Pairs, Rev

LEMMA ListedKept ==
  ASSUME Conns, Listed, Grows, Made' = Made,
         \A q \in Pairs : entry[q] # 0 => entry'[q] # 0
  PROVE  Listed'
<1>1. \A e \in Made : /\ <<conns[e].owner, conns[e].peer>> \in Pairs
                      /\ entry'[<<conns[e].owner, conns[e].peer>>] # 0
  BY DEF Conns, Listed, Of
<1> QED BY <1>1 DEF Listed, Of, Grows

LEMMA SingleKept ==
  ASSUME Single, \A q \in Pairs : Twice(q)' => Twice(q),
         \A q \in Pairs : entry[q] # 0 => entry'[q] # 0
  PROVE  Single'
<1> SUFFICES ASSUME NEW q \in Pairs, Twice(q)'
             PROVE  entry'[Rev(q)] # 0 /\ ~Twice(Rev(q))'
  BY DEF Single, Rev
<1>1. Twice(q) /\ Rev(q) \in Pairs
  BY RevPairs
<1> QED BY <1>1 DEF Single

LEMMA TwiceKept ==
  ASSUME Grows, Made' = Made, NEW q,
         Creates(job, q)' => Creates(job, q), Creates(loop, q)' => Creates(loop, q)
  PROVE  Twice(q)' => Twice(q)
  BY DEF Twice, Of, Grows

LEMMA RereadsKept ==
  ASSUME TypeInv, Rereads, \A q \in Pairs : entry[q] # 0 => entry'[q] # 0,
         \A m \in Nodes : job'[m].st = "offer" =>
            job'[m] = job[m] \/ entry'[<<m, job'[m].peer>>] # 0,
         \A m \in Nodes : loop'[m].st = "apply" =>
            loop'[m] = loop[m] \/ entry'[<<m, loop'[m].peer>>] # 0
  PROVE  Rereads'
<1> SUFFICES ASSUME NEW m \in Nodes
             PROVE  /\ job'[m].st = "offer" => entry'[<<m, job'[m].peer>>] # 0
                    /\ loop'[m].st = "apply" => entry'[<<m, loop'[m].peer>>] # 0
  BY DEF Rereads
<1>1. job[m].st = "offer" => <<m, job[m].peer>> \in Pairs /\ entry[<<m, job[m].peer>>] # 0
  <2>1. job[m].st = "offer" => <<m, job[m].peer>> \in Pairs
    BY DEF TypeInv, Goers, Offering
  <2> QED BY <2>1 DEF Rereads
<1>2. loop[m].st = "apply" => <<m, loop[m].peer>> \in Pairs /\ entry[<<m, loop[m].peer>>] # 0
  <2>1. loop[m].st = "apply" => <<m, loop[m].peer>> \in Pairs
    BY DEF TypeInv, Goers, Answering
  <2> QED BY <2>1 DEF Rereads
<1> QED BY <1>1, <1>2

\* A step that neither decides to make a connection nor makes one.
LEMMA QuietStep ==
  ASSUME TypeInv, LinkInv, ~forgot, Grows, Made' = Made,
         UNCHANGED <<entry, panicked>>,
         \A n \in Nodes : job'[n].st \in {"create", "offer"} => job'[n] = job[n],
         \A n \in Nodes : loop'[n].st \in {"create", "apply"} => loop'[n] = loop[n]
  PROVE  LinkInv'
<1>1. panicked = {} /\ Listed /\ Rereads /\ Single
  BY DEF LinkInv
<1>2. Listed'
  BY <1>1, ListedKept DEF TypeInv
<1>3. Rereads'
  BY <1>1 DEF Rereads
<1>4. \A q \in Pairs : Twice(q)' => Twice(q)
  <2> TAKE q \in Pairs
  <2>1. q[1] \in Nodes
    BY DEF Pairs
  <2>2. Creates(job, q)' => Creates(job, q)
    BY <2>1 DEF Creates
  <2>3. Creates(loop, q)' => Creates(loop, q)
    BY <2>1 DEF Creates
  <2> QED BY <2>2, <2>3, TwiceKept
<1>5. Single'
  BY <1>1, <1>4, SingleKept
<1> QED BY <1>1, <1>2, <1>3, <1>5 DEF LinkInv

\* Where an end is to make a first connection, the other has just one.
LEMMA NewCreate ==
  ASSUME TypeInv, Listed, Single, UNCHANGED <<conns, entry>>, NEW q \in Pairs, entry[q] = 0,
         Twice(q)' => entry[Rev(q)] # 0,
         \A r \in Pairs : r # q /\ Twice(r)' => Twice(r)
  PROVE  Single'
<1> SUFFICES ASSUME NEW r \in Pairs, Twice(r)'
             PROVE  entry[Rev(r)] # 0 /\ ~Twice(Rev(r))'
  BY DEF Single, Rev
<1>1. CASE r = q
  <2>1. Rev(q) \in Pairs /\ Rev(q) # q /\ Rev(Rev(q)) = q
    BY RevPairs
  <2>2. ~Twice(Rev(q))
    BY <2>1 DEF Single
  <2> QED BY <1>1, <2>1, <2>2
<1>2. CASE r # q
  <2>1. Twice(r) /\ entry[Rev(r)] # 0 /\ ~Twice(Rev(r))
    BY <1>2 DEF Single
  <2>2. Rev(r) \in Pairs /\ Rev(r) # q
    BY <2>1, RevPairs
  <2> QED BY <2>1, <2>2
<1> QED BY <1>1, <1>2

\* Without an entry there is no connection to the peer.
LEMMA NoneYet ==
  ASSUME TypeInv, Listed, NEW q, entry[q] = 0
  PROVE  \A c \in Made : Of(c) # q
  BY DEF Listed

LEMMA CheckPeerLink ==
  ASSUME TypeInv, LinkInv, ~forgot, NEW n, NEW p, <<n, p>> \in Pairs, CheckPeer(n, p)
  PROVE  LinkInv'
<1> DEFINE q == <<n, p>>
<1>1. panicked = {} /\ Listed /\ Rereads /\ Single
  BY DEF LinkInv
<1>2. /\ UNCHANGED <<conns, entry, net, loop, panicked, forgot>> /\ entry[q] = 0
      /\ job' = [job EXCEPT ![n] = At("create", p, 0)]
      /\ n \in Nodes /\ p \in Nodes
  BY DEF CheckPeer, Pairs
<1>3. job'[n].st = "create" /\ \A m \in Nodes : m # n => job'[m] = job[m]
  BY <1>2 DEF At, TypeInv, Goers
<1>4. Grows /\ Made' = Made
  BY <1>2, Stays DEF TypeInv, Made
<1>5. Listed'
  BY <1>1, <1>2, <1>4, ListedKept DEF TypeInv
<1>6. Rereads'
  BY <1>1, <1>2, <1>3 DEF Rereads
<1>7. Twice(q)' => entry[Rev(q)] # 0
  <2>1. \A c \in Made : <<conns[c].owner, conns[c].peer>> # q
    BY <1>1, <1>2, NoneYet DEF Of
  <2>2. Twice(q)' => loop[n].st = "create" /\ loop[n].peer = p
    BY <1>2, <1>4, <2>1 DEF Twice, Creates, Of
  <2>3. loop[n].st = "create" /\ loop[n].peer = p => IsOf(loop[n].conn, <<p, n>>)
    BY <1>2 DEF TypeInv, Goers, Answering
  <2> QED BY <1>1, <2>2, <2>3 DEF IsOf, Listed, Rev
<1>8. \A r \in Pairs : r # q /\ Twice(r)' => Twice(r)
  <2> SUFFICES ASSUME NEW r \in Pairs, r # q PROVE Twice(r)' => Twice(r)
    OBVIOUS
  <2>1. Creates(job, r)' => Creates(job, r)
    <3>1. CASE r[1] = n
      <4>1. job'[n].peer = p /\ r[2] # p
        BY <1>2, <3>1 DEF At, TypeInv, Goers, Pairs
      <4> QED BY <3>1, <4>1 DEF Creates
    <3>2. CASE r[1] # n
      BY <1>3, <3>2 DEF Creates, Pairs
    <3> QED BY <3>1, <3>2
  <2>2. Creates(loop, r)' => Creates(loop, r)
    BY <1>2 DEF Creates
  <2> QED BY <1>4, <2>1, <2>2, TwiceKept
<1>9. Single'
  BY <1>1, <1>2, <1>7, <1>8, NewCreate
<1> QED BY <1>1, <1>2, <1>5, <1>6, <1>9 DEF LinkInv

LEMMA HandleOfferLink ==
  ASSUME TypeInv, LinkInv, ~forgot, NEW n, NEW p, <<n, p>> \in Pairs, HandleOffer(n, p)
  PROVE  LinkInv'
<1> DEFINE q == <<n, p>>
<1>1. panicked = {} /\ Listed /\ Rereads /\ Single
  BY DEF LinkInv
<1>2. /\ UNCHANGED <<conns, entry, job, panicked, forgot, bounds>>
      /\ n \in Nodes /\ p \in Nodes
  BY DEF HandleOffer, Pairs
<1>3. /\ loop'[n].st = IF entry[q] = 0 THEN "create" ELSE "apply"
      /\ loop'[n].peer = p
      /\ \A m \in Nodes : m # n => loop'[m] = loop[m]
  BY <1>2 DEF At, TypeInv, Goers, HandleOffer
<1>4. Grows /\ Made' = Made
  BY <1>2, Stays DEF TypeInv, Made
<1>5. Listed'
  BY <1>1, <1>2, <1>4, ListedKept DEF TypeInv
<1>6. Rereads'
  BY <1>1, <1>2, <1>3 DEF Rereads
<1>7. \A r \in Pairs : r # q => (Creates(loop, r)' => Creates(loop, r))
  <2> SUFFICES ASSUME NEW r \in Pairs, r # q PROVE Creates(loop, r)' => Creates(loop, r)
    OBVIOUS
  <2>1. CASE r[1] = n
    <3>1. r[2] # p
      BY <2>1 DEF Pairs
    <3> QED BY <1>3, <2>1, <3>1 DEF Creates
  <2>2. CASE r[1] # n
    BY <1>3, <2>2 DEF Creates, Pairs
  <2> QED BY <2>1, <2>2
<1>8. \A r \in Pairs : Creates(job, r)' => Creates(job, r)
  BY <1>2 DEF Creates
<1>9. \A r \in Pairs : r # q /\ Twice(r)' => Twice(r)
  BY <1>4, <1>7, <1>8, TwiceKept
<1>10. CASE entry[q] = 0
  <2>1. IsOf(From(n, p), <<p, n>>)
    BY ReceivedFrom DEF HandleOffer, TypeInv
  <2>2. entry[Rev(q)] # 0
    BY <1>1, <2>1 DEF IsOf, Listed, Rev
  <2>3. Single'
    BY <1>1, <1>2, <1>9, <1>10, <2>2, NewCreate
  <2> QED BY <1>1, <1>2, <1>5, <1>6, <2>3 DEF LinkInv
<1>11. CASE entry[q] # 0
  <2>1. Creates(loop, q)' => Creates(loop, q)
    BY <1>3, <1>11 DEF Creates
  <2>2. \A r \in Pairs : Twice(r)' => Twice(r)
    BY <1>4, <1>8, <1>9, <2>1, TwiceKept
  <2>3. Single'
    BY <1>1, <1>2, <2>2, SingleKept
  <2> QED BY <1>1, <1>2, <1>5, <1>6, <2>3 DEF LinkInv
<1> QED BY <1>10, <1>11

\* What is the same when the job's connection is made or the loop's.
LEMMA CreatesOne ==
  ASSUME TypeInv, Listed, NEW n, NEW p, <<n, p>> \in Pairs, CreateConnection(n, p)
  PROVE  /\ Listed' /\ Made' = Made \cup {Len(conns) + 1} /\ Len(conns) + 1 \notin Made
         /\ \A q \in Pairs : entry[q] # 0 => entry'[q] # 0
         /\ entry'[<<n, p>>] # 0
         /\ \A c \in Made : <<conns'[c].owner, conns'[c].peer>> = Of(c)
         /\ <<conns'[Len(conns) + 1].owner, conns'[Len(conns) + 1].peer>> = <<n, p>>
<1>1. /\ Grows /\ Made' = Made \cup {Len(conns) + 1} /\ Len(conns) + 1 \notin Made
      /\ conns'[Len(conns) + 1] = New(n, p)
      /\ \A e \in Made : conns'[e] = conns[e]
  BY Adds DEF CreateConnection, TypeInv
<1>2. New(n, p).owner = n /\ New(n, p).peer = p
  BY DEF New
<1>3. entry' = [entry EXCEPT ![<<n, p>>] = Len(conns) + 1] /\ Len(conns) \in Nat
  BY DEF CreateConnection, TypeInv, Conns
<1>4. \A q \in Pairs : entry[q] # 0 => entry'[q] # 0
  BY <1>3 DEF TypeInv, Entries
<1>5. entry'[<<n, p>>] # 0
  BY <1>3 DEF TypeInv, Entries
<1>6. ASSUME NEW e \in Made'
      PROVE  entry'[<<conns'[e].owner, conns'[e].peer>>] # 0
  <2>1. CASE e \in Made
    <3>1. <<conns[e].owner, conns[e].peer>> \in Pairs
          /\ entry[<<conns[e].owner, conns[e].peer>>] # 0
      BY <2>1 DEF Listed, TypeInv, Conns, Of
    <3> QED BY <1>1, <1>4, <2>1, <3>1
  <2>2. CASE e = Len(conns) + 1
    BY <1>1, <1>2, <1>5, <2>2
  <2> QED BY <1>1, <1>6, <2>1, <2>2
<1> QED BY <1>1, <1>2, <1>4, <1>5, <1>6 DEF Listed, Of

LEMMA CreateInitiatorLink ==
  ASSUME TypeInv, LinkInv, ~forgot, NEW n \in Nodes, CreateInitiator(n)
  PROVE  LinkInv'
<1>1. panicked = {} /\ Listed /\ Rereads /\ Single
  BY DEF LinkInv
<1>2. PICK p : p = job[n].peer /\ <<n, p>> \in Pairs /\ CreateConnection(n, p)
  BY DEF CreateInitiator, TypeInv, Goers, Offering
<1>3. PICK k : /\ Listed' /\ Made' = Made \cup {k} /\ k \notin Made
               /\ \A q \in Pairs : entry[q] # 0 => entry'[q] # 0
               /\ entry'[<<n, p>>] # 0
               /\ \A c \in Made : <<conns'[c].owner, conns'[c].peer>> = Of(c)
               /\ <<conns'[k].owner, conns'[k].peer>> = <<n, p>>
  BY <1>1, <1>2, CreatesOne
<1>4. /\ job[n].st = "create" /\ job'[n].st = "offer" /\ job'[n].peer = p
      /\ \A m \in Nodes : m # n => job'[m] = job[m]
      /\ UNCHANGED <<loop, panicked, forgot>>
  BY <1>2 DEF CreateInitiator, TypeInv, Goers, Goroutines, bounds
<1>5. Rereads'
  BY <1>1, <1>3, <1>4, RereadsKept
<1>6. \A q \in Pairs : Twice(q)' => Twice(q)
  <2> SUFFICES ASSUME NEW q \in Pairs, Twice(q)' PROVE Twice(q)
    OBVIOUS
  <2>1. Creates(job, q)' => Creates(job, q) /\ q # <<n, p>>
    BY <1>4 DEF Creates, Pairs
  <2>2. Creates(loop, q)' => Creates(loop, q)
    BY <1>4 DEF Creates
  <2>3. q = <<n, p>> => Creates(job, q)
    BY <1>2, <1>4 DEF Creates
  <2>4. \A c \in Made' : <<conns'[c].owner, conns'[c].peer>> = q => (c \in Made /\ Of(c) = q) \/ (c = k /\ q = <<n, p>>)
    BY <1>3
  <2> QED BY <2>1, <2>2, <2>3, <2>4 DEF Twice, Of
<1>7. Single'
  BY <1>1, <1>3, <1>6, SingleKept
<1> QED BY <1>1, <1>3, <1>4, <1>5, <1>7 DEF LinkInv

LEMMA CreateResponderLink ==
  ASSUME TypeInv, LinkInv, ~forgot, NEW n \in Nodes, CreateResponder(n)
  PROVE  LinkInv'
<1>1. panicked = {} /\ Listed /\ Rereads /\ Single
  BY DEF LinkInv
<1>2. PICK p : p = loop[n].peer /\ <<n, p>> \in Pairs /\ CreateConnection(n, p)
  BY DEF CreateResponder, TypeInv, Goers, Answering
<1>3. PICK k : /\ Listed' /\ Made' = Made \cup {k} /\ k \notin Made
               /\ \A q \in Pairs : entry[q] # 0 => entry'[q] # 0
               /\ entry'[<<n, p>>] # 0
               /\ \A c \in Made : <<conns'[c].owner, conns'[c].peer>> = Of(c)
               /\ <<conns'[k].owner, conns'[k].peer>> = <<n, p>>
  BY <1>1, <1>2, CreatesOne
<1>4. /\ loop[n].st = "create" /\ loop'[n].st = "apply" /\ loop'[n].peer = p
      /\ \A m \in Nodes : m # n => loop'[m] = loop[m]
      /\ UNCHANGED <<job, panicked, forgot>>
  BY <1>2 DEF CreateResponder, TypeInv, Goers, Goroutines, bounds
<1>5. Rereads'
  BY <1>1, <1>3, <1>4, RereadsKept
<1>6. \A q \in Pairs : Twice(q)' => Twice(q)
  <2> SUFFICES ASSUME NEW q \in Pairs, Twice(q)' PROVE Twice(q)
    OBVIOUS
  <2>1. Creates(loop, q)' => Creates(loop, q) /\ q # <<n, p>>
    BY <1>4 DEF Creates, Pairs
  <2>2. Creates(job, q)' => Creates(job, q)
    BY <1>4 DEF Creates
  <2>3. q = <<n, p>> => Creates(loop, q)
    BY <1>2, <1>4 DEF Creates
  <2>4. \A c \in Made' : <<conns'[c].owner, conns'[c].peer>> = q => (c \in Made /\ Of(c) = q) \/ (c = k /\ q = <<n, p>>)
    BY <1>3
  <2> QED BY <2>1, <2>2, <2>3, <2>4 DEF Twice, Of
<1>7. Single'
  BY <1>1, <1>3, <1>6, SingleKept
<1> QED BY <1>1, <1>3, <1>4, <1>5, <1>7 DEF LinkInv

LEMMA CreateOfferLink ==
  ASSUME TypeInv, LinkInv, ~forgot, NEW n \in Nodes, CreateOffer(n)
  PROVE  LinkInv'
<1>1. PICK c, p : /\ p = job[n].peer /\ c = entry[<<n, p>>] /\ c # 0
  <2>1. job[n].st = "offer"
    BY DEF CreateOffer
  <2>2. entry[<<n, job[n].peer>>] # 0
    BY <2>1 DEF LinkInv, Rereads
  <2> QED BY <2>2
<1>2. /\ UNCHANGED <<entry, panicked, loop>>
      /\ \/ UNCHANGED job
         \/ job' = [job EXCEPT ![n] = At("send", p, c)]
         \/ job' = [job EXCEPT ![n] = Idle(n)]
  BY <1>1 DEF CreateOffer
<1>3. At("send", p, c).st = "send" /\ Idle(n).st = "idle"
  BY DEF At, Idle
<1>4. \A m \in Nodes : job'[m].st \in {"create", "offer"} => job'[m] = job[m]
  BY <1>2, <1>3 DEF TypeInv, Goers
<1>5. Grows /\ Made' = Made
  BY CreateOfferAdjusts, Adjusted DEF TypeInv
<1> QED BY <1>2, <1>4, <1>5, QuietStep

LEMMA ApplyOfferLink ==
  ASSUME TypeInv, LinkInv, ~forgot, NEW n \in Nodes, ApplyOffer(n)
  PROVE  LinkInv'
<1>1. PICK c, p : /\ p = loop[n].peer /\ c # 0
                  /\ c = IF loop[n].pc = 0 THEN entry[<<n, p>>] ELSE loop[n].pc
  <2>1. loop[n].st = "apply"
    BY DEF ApplyOffer
  <2>2. PICK c, p : p = loop[n].peer /\ c = IF loop[n].pc = 0 THEN entry[<<n, p>>] ELSE loop[n].pc
    OBVIOUS
  <2>3. c # 0
    BY <2>1, <2>2 DEF LinkInv, Rereads
  <2> QED BY <2>2, <2>3
<1>2. /\ UNCHANGED <<entry, panicked, job>>
      /\ \/ loop' = [loop EXCEPT ![n] = At("answer", p, c)]
         \/ loop' = [loop EXCEPT ![n] = Idle(n)]
  BY <1>1 DEF ApplyOffer
<1>3. At("answer", p, c).st = "answer" /\ Idle(n).st = "idle"
  BY DEF At, Idle
<1>4. \A m \in Nodes : loop'[m].st \in {"create", "apply"} => loop'[m] = loop[m]
  BY <1>2, <1>3 DEF TypeInv, Goers
<1>5. Grows /\ Made' = Made
  BY ApplyOfferAdjusts, Adjusted DEF TypeInv
<1> QED BY <1>2, <1>4, <1>5, QuietStep

LEMMA SendsLink ==
  ASSUME TypeInv, LinkInv, ~forgot, NEW n \in Nodes, SendOffer(n) \/ SendAnswer(n)
  PROVE  LinkInv'
<1>1. UNCHANGED <<conns, entry, panicked>>
  BY DEF SendOffer, SendAnswer
<1>2. /\ \A m \in Nodes : job'[m].st \in {"create", "offer"} => job'[m] = job[m]
      /\ \A m \in Nodes : loop'[m].st \in {"create", "apply"} => loop'[m] = loop[m]
  <2>1. Idle(n).st = "idle"
    BY DEF At, Idle
  <2> QED BY <2>1 DEF SendOffer, SendAnswer, TypeInv, Goers
<1>3. Grows /\ Made' = Made
  BY <1>1, Stays DEF TypeInv, Made
<1> QED BY <1>1, <1>2, <1>3, QuietStep

LEMMA CallbacksLink ==
  ASSUME TypeInv, LinkInv, ~forgot, Adjusts, UNCHANGED <<entry, panicked, job, loop>>
  PROVE  LinkInv'
<1>1. Grows /\ Made' = Made
  BY Adjusted DEF TypeInv
<1> QED BY <1>1, QuietStep

LEMMA OpensLink ==
  ASSUME TypeInv, LinkInv, ~forgot, NEW c \in Made, NEW d \in Made, Opens(c, d)
  PROVE  LinkInv'
<1>1. UNCHANGED <<entry, panicked, job, loop>>
  BY DEF Opens
<1>2. Grows /\ Made' = Made
  BY OpensEffect
<1> QED BY <1>1, <1>2, QuietStep

LEMMA LosesLink ==
  ASSUME TypeInv, LinkInv, ~forgot, NEW c \in Made, Blinks(c) \/ \E d \in Made : Loses(c, d)
  PROVE  LinkInv'
<1>1. UNCHANGED <<entry, panicked, job, loop>>
  BY DEF Blinks, Loses
<1>2. Grows /\ Made' = Made
  BY TellsEffect, LosesEffect DEF Blinks
<1> QED BY <1>1, <1>2, QuietStep

-----------------------------------------------------------------------------
IInv == TypeInv /\ Linked /\ LinkInv

LEMMA IInit == Init => IInv
<1> SUFFICES ASSUME Init PROVE IInv
  OBVIOUS
<1>1. TypeInv
  BY TypeInit
<1>2. Made = {} /\ \A n \in Nodes : job[n].st = "idle" /\ loop[n].st = "idle"
  BY DEF Init, Made, Idle, At
<1>3. Linked
  BY <1>2 DEF Linked
<1>4. \A q \in Pairs : ~Twice(q)
  BY <1>2 DEF Twice, Creates, Pairs
<1>5. LinkInv
  BY <1>2, <1>4 DEF LinkInv, Listed, Rereads, Single, Init
<1> QED BY <1>1, <1>3, <1>5 DEF IInv

LEMMA IStep == IInv /\ [Next]_vars => IInv'
<1> SUFFICES ASSUME TypeInv, Linked, LinkInv, [Next]_vars PROVE Linked' /\ LinkInv'
  BY TypeStep DEF IInv
<1>1. CASE \E q \in Pairs : CheckPeer(q[1], q[2])
  <2>1. PICK n, p : <<n, p>> \in Pairs /\ CheckPeer(n, p)
    BY <1>1 DEF Pairs
  <2>2. Linked' /\ UNCHANGED forgot
    BY <2>1 DEF CheckPeer, Linked, Made
  <2>3. ~forgot => LinkInv'
    BY <2>1, CheckPeerLink
  <2> QED BY <2>2, <2>3 DEF LinkInv
<1>2. CASE \E n \in Nodes : JobStep(n)
  <2>1. PICK n \in Nodes : JobStep(n)
    BY <1>2
  <2>2. CASE CreateInitiator(n)
    <3>1. CreateConnection(n, job[n].peer) /\ <<n, job[n].peer>> \in Pairs /\ UNCHANGED forgot
      BY <2>2 DEF CreateInitiator, bounds, TypeInv, Goers, Offering
    <3>2. Linked'
      BY <3>1, LinkedCreates
    <3>3. ~forgot => LinkInv'
      BY <2>2, CreateInitiatorLink
    <3> QED BY <3>1, <3>2, <3>3 DEF LinkInv
  <2>3. CASE CreateOffer(n)
    <3>1. Linked' /\ UNCHANGED forgot
      BY <2>3, CreateOfferAdjusts, LinkedAdjusts DEF CreateOffer, bounds
    <3>2. ~forgot => LinkInv'
      BY <2>3, CreateOfferLink
    <3> QED BY <3>1, <3>2 DEF LinkInv
  <2>4. CASE SendOffer(n)
    <3>1. Linked' /\ UNCHANGED forgot
      BY <2>4 DEF SendOffer, bounds, Linked, Made
    <3>2. ~forgot => LinkInv'
      BY <2>4, SendsLink
    <3> QED BY <3>1, <3>2 DEF LinkInv
  <2> QED BY <2>1, <2>2, <2>3, <2>4 DEF JobStep
<1>3. CASE \E n \in Nodes : CreateResponder(n) \/ ApplyOffer(n) \/ SendAnswer(n)
  <2>1. PICK n \in Nodes : CreateResponder(n) \/ ApplyOffer(n) \/ SendAnswer(n)
    BY <1>3
  <2>2. CASE CreateResponder(n)
    <3>1. CreateConnection(n, loop[n].peer) /\ <<n, loop[n].peer>> \in Pairs /\ UNCHANGED forgot
      BY <2>2 DEF CreateResponder, bounds, TypeInv, Goers, Answering
    <3>2. Linked'
      BY <3>1, LinkedCreates
    <3>3. ~forgot => LinkInv'
      BY <2>2, CreateResponderLink
    <3> QED BY <3>1, <3>2, <3>3 DEF LinkInv
  <2>3. CASE ApplyOffer(n)
    <3>1. Linked' /\ UNCHANGED forgot
      BY <2>3, ApplyOfferAdjusts, LinkedAdjusts DEF ApplyOffer, bounds
    <3>2. ~forgot => LinkInv'
      BY <2>3, ApplyOfferLink
    <3> QED BY <3>1, <3>2 DEF LinkInv
  <2>4. CASE SendAnswer(n)
    <3>1. Linked' /\ UNCHANGED forgot
      BY <2>4 DEF SendAnswer, bounds, Linked, Made
    <3>2. ~forgot => LinkInv'
      BY <2>4, SendsLink
    <3> QED BY <3>1, <3>2 DEF LinkInv
  <2> QED BY <2>1, <2>2, <2>3, <2>4
<1>4. CASE \E n, p : <<n, p>> \in Pairs /\ (HandleOffer(n, p) \/ HandleAnswer(n, p) \/ HandleCandidate(n, p))
  <2>1. PICK n, p : <<n, p>> \in Pairs /\ (HandleOffer(n, p) \/ HandleAnswer(n, p) \/ HandleCandidate(n, p))
    BY <1>4
  <2>2. CASE HandleOffer(n, p)
    <3>1. Linked' /\ UNCHANGED forgot
      BY <2>2 DEF HandleOffer, bounds, Linked, Made
    <3>2. ~forgot => LinkInv'
      BY <2>1, <2>2, HandleOfferLink
    <3> QED BY <3>1, <3>2 DEF LinkInv
  <2>3. CASE HandleAnswer(n, p) \/ HandleCandidate(n, p)
    <3>1. UNCHANGED <<entry, panicked, job, loop, forgot>>
      BY <2>3 DEF HandleAnswer, HandleCandidate, bounds
    <3>2. Adjusts
      BY <2>1, <2>3, HandleAnswerAdjusts, HandleCandidateAdjusts
    <3> QED BY <3>1, <3>2, LinkedAdjusts, CallbacksLink DEF LinkInv
  <2> QED BY <2>1, <2>2, <2>3
<1>5. CASE \E c \in Made : StackStep(c) \/ Blinks(c) \/ \E d \in Made : Loses(c, d)
  <2>1. PICK c \in Made : StackStep(c) \/ Blinks(c) \/ \E d \in Made : Loses(c, d)
    BY <1>5
  <2>2. CASE SendCandidate(c)
    <3>1. UNCHANGED <<entry, panicked, job, loop, forgot>> /\ Adjusts
      BY <2>2, SendCandidateAdjusts DEF SendCandidate, bounds
    <3> QED BY <3>1, LinkedAdjusts, CallbacksLink DEF LinkInv
  <2>3. CASE OnDisconnected(c)
    <3>1. Linked' /\ forgot'
      BY <2>3, LinkedTells DEF OnDisconnected
    <3> QED BY <3>1 DEF LinkInv
  <2>4. CASE \E d \in Made : Opens(c, d)
    <3>1. PICK d \in Made : Opens(c, d)
      BY <2>4
    <3>2. Linked' /\ UNCHANGED forgot
      BY <3>1, LinkedOpens DEF Opens, bounds
    <3>3. ~forgot => LinkInv'
      BY <3>1, OpensLink
    <3> QED BY <3>2, <3>3 DEF LinkInv
  <2>5. CASE Blinks(c)
    <3>1. Linked' /\ UNCHANGED forgot
      BY <2>5, LinkedTells DEF Blinks
    <3>2. ~forgot => LinkInv'
      BY <2>5, LosesLink
    <3> QED BY <3>1, <3>2 DEF LinkInv
  <2>6. CASE \E d \in Made : Loses(c, d)
    <3>1. Linked' /\ UNCHANGED forgot
      BY <2>6, LinkedLoses DEF Loses
    <3>2. ~forgot => LinkInv'
      BY <2>6, LosesLink
    <3> QED BY <3>1, <3>2 DEF LinkInv
  <2> QED BY <2>1, <2>2, <2>3, <2>4, <2>5, <2>6 DEF StackStep
<1>6. CASE UNCHANGED vars
  BY <1>6 DEF vars, bounds, Linked, Made, LinkInv, Listed, Rereads, Single, Twice, Creates, Of, Rev
<1>7. Next => \/ \E q \in Pairs : CheckPeer(q[1], q[2])
              \/ \E n \in Nodes : JobStep(n)
              \/ \E n \in Nodes : CreateResponder(n) \/ ApplyOffer(n) \/ SendAnswer(n)
              \/ \E n, p : <<n, p>> \in Pairs /\ (HandleOffer(n, p) \/ HandleAnswer(n, p) \/ HandleCandidate(n, p))
              \/ \E c \in Made : StackStep(c) \/ Blinks(c) \/ \E d \in Made : Loses(c, d)
  <2>1. \A q \in Pairs : q = <<q[1], q[2]>>
    BY DEF Pairs
  <2> QED BY <2>1 DEF Next, LoopStep
<1> QED BY <1>1, <1>2, <1>3, <1>4, <1>5, <1>6, <1>7

LEMMA IAlways == Spec => []IInv
  BY IInit, IStep, PTL DEF Spec

LEMMA IImplies == IInv => OneLink
<1> SUFFICES ASSUME TypeInv, Linked, LinkInv, ~forgot PROVE
      /\ panicked = {}
      /\ \A c, d \in Made : /\ conns[c].owner = conns[d].owner /\ conns[c].peer = conns[d].peer
                            /\ conns[c].st = "open" /\ conns[d].st = "open"
                            => c = d
  BY DEF OneLink, IInv
<1>1. ASSUME NEW c \in Made, NEW d \in Made, Of(c) = Of(d), c # d,
             conns[c].st = "open", conns[d].st = "open"
      PROVE  FALSE
  <2>1. PICK e, f : e = conns[c].remote /\ f = conns[d].remote
    OBVIOUS
  <2>2. e # 0 /\ f # 0 /\ conns[e].remote = c /\ conns[f].remote = d
    BY <1>1, <2>1 DEF Linked
  <2>3. e # f
    BY <1>1, <2>2
  <2>4. Of(c) \in Pairs /\ IsOf(e, Rev(Of(c))) /\ IsOf(f, Rev(Of(c)))
    BY <1>1, <2>1, <2>2 DEF TypeInv, Conns
  <2>5. Twice(Of(c)) /\ Twice(Rev(Of(c)))
    BY <1>1, <2>3, <2>4 DEF Twice, IsOf
  <2> QED BY <2>4, <2>5 DEF LinkInv, Single
<1> QED BY <1>1 DEF LinkInv, Of

(***************************************************************************)
(* Until a callback deletes an entry, two nodes have at most one open      *)
(* connection between them and no goroutine calls a nil one: of two ends   *)
(* that both offer, one at most makes a second connection, because the     *)
(* other found an entry when it handled the offer (tracker.go:20) or had   *)
(* stored its own (webrtc.go:18), and a connection that is offered another *)
(* remote loses the one it had (tracker.go:44).                            *)
(***************************************************************************)
THEOREM OneLinkHolds == Spec => []OneLink
  BY IAlways, IImplies, PTL
=============================================================================
