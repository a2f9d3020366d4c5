-------------------------- MODULE EpollServiceProofs --------------------------
(***************************************************************************)
(* Proofs about EpollService, for any number of clients, descriptors and   *)
(* messages: the record list, the descriptor table and the epoll instance  *)
(* agree; no edge is lost but where two things came at once; all clients   *)
(* see one order; a connection is closed for a cause of its own.           *)
(***************************************************************************)
EXTENDS EpollService, SequenceFacts, SequenceTheorems, TLAPS

\* A message as it was sent; how many there may be plays no role here.
Copy == [from : Conns \cup {NoConn}, num : Nat]

Types ==
  /\ pc \in {"wait", "serve", "dead"}
  /\ events \in Seq(Fds) /\ records \in Seq(Fds)
  /\ pc = "serve" => events # <<>>
  /\ pc = "wait" => events = <<>>
  /\ fdTable \in [Fds -> Files \cup {NoConn}]
  /\ interest \subseteq Files /\ ready \in Seq(Files) /\ backlog \in Seq(Conns)
  /\ peer \in [Conns -> PeerStates]
  /\ sent \in [Conns -> Nat] /\ read \in [Conns -> Nat]
  /\ \A c \in Conns : read[c] <= sent[c]
  /\ got \in [Conns -> Seq(Copy)]
  /\ spent \subseteq Files

\* The records have the open descriptors, once each and the listener's first; each
\* refers to a file of its own, which epoll watches; a connection waits for accept(),
\* has a descriptor or is past both.
TableInv ==
  /\ records # <<>> /\ records[1] = ListenFd /\ Distinct(records)
  /\ \A f : Has(records, f) <=> f \in Fds /\ fdTable[f] # NoConn
  /\ fdTable[ListenFd] = Listener
  /\ \A f, g \in Fds : fdTable[f] = fdTable[g] /\ fdTable[f] # NoConn => f = g
  /\ \A file \in Files : file \in interest <=> Held(file)
  /\ \A file : Has(ready, file) => file \in interest
  /\ Distinct(backlog)
  /\ \A c \in Conns : Has(backlog, c) => ~Held(c)
  /\ \A c \in Conns : Has(backlog, c) \/ Held(c) \/ c \in dropped => peer[c] # "none"
  /\ \A c \in Conns : c \in dropped => ~Held(c) /\ ~Has(backlog, c)

\* Where two things are to be read, an edge is counted as spent,
CountInv ==
  /\ \A c \in Conns : Unread(c) > 0 /\ (Unread(c) > 1 \/ peer[c] \in Gone) => c \in spent
  /\ Len(backlog) > 1 => Listener \in spent

\* and for whatever else can be read there is an event, fetched or not.
EdgeInv ==
  \A f \in Fds, file \in Files : fdTable[f] = file /\ Readable(file) =>
    file \in spent \/ Has(ready, file) \/ Has(events, f) \/ pc = "dead"

\* What the clients got was read before; so what is read next is in none of got.
ReadInv ==
  \A c \in Conns : \A i \in DOMAIN got[c] :
    got[c][i] = Empty \/ (got[c][i].from \in Conns /\ got[c][i].num <= read[got[c][i].from])

ServiceInv == Types /\ TableInv /\ CountInv /\ EdgeInv /\ ReadInv /\ OneOrder

-----------------------------------------------------------------------------
(* Lemmas about the parts of the steps.                                    *)

\* The listener is no connection, and nobody's file is no file.
LEMMA FilesFacts ==
  /\ ListenFd \in Fds /\ Listener \in Files /\ Conns \subseteq Files
  /\ Listener \notin Conns /\ NoConn \notin Files
  /\ \A file \in Files : file = Listener \/ file \in Conns
  /\ Fds \subseteq Nat
BY ConstAssumption DEF ListenFd, Fds, Files

\* What is behind the first event stays.
LEMMA TailHas ==
  ASSUME NEW S, NEW s \in Seq(S), s # <<>>
  PROVE  /\ Head(s) \in S /\ Tail(s) \in Seq(S) /\ Has(s, Head(s))
         /\ \A x : Has(Tail(s), x) => Has(s, x)
         /\ \A x : Has(s, x) /\ x # Head(s) => Has(Tail(s), x)
<1>1. Tail(s) \in Seq(S) /\ Head(s) \in S /\ Range(s) = {Head(s)} \cup Range(Tail(s))
  BY RangeOfTail
<1>2. \A x : (x \in Range(s) <=> Has(s, x)) /\ (x \in Range(Tail(s)) <=> Has(Tail(s), x))
  BY RangeHas
<1> QED
  BY <1>1, <1>2

\* EventDone drops the event served.
LEMMA DoneFacts ==
  ASSUME Types, pc = "serve", EventDone
  PROVE  /\ events' \in Seq(Fds) /\ pc' \in {"wait", "serve", "dead"}
         /\ pc' = "serve" => events' # <<>>
         /\ pc' = "wait" => events' = <<>>
         /\ \A f : Has(events, f) /\ f # Head(events) => Has(events', f)
<1>1. events \in Seq(Fds) /\ events # <<>> /\ events' = Tail(events)
      /\ pc' = IF Tail(events) = <<>> THEN "wait" ELSE "serve"
  BY DEF Types, EventDone
<1>2. Tail(events) \in Seq(Fds)
      /\ \A f : Has(events, f) /\ f # Head(events) => Has(Tail(events), f)
  BY <1>1, TailHas
<1> QED
  BY <1>1, <1>2

\* Nothing that TableInv is about changes but that files leave the ready list.
LEMMA TableSame ==
  ASSUME TableInv, UNCHANGED <<records, fdTable, interest, backlog, dropped>>,
         \A file : Has(ready', file) => file \in interest,
         \A c \in Conns : peer[c] # "none" => peer'[c] # "none"
  PROVE  TableInv'
BY DEF TableInv, Held

\* Deleting a record closes its descriptor and takes its file out of epoll.
LEMMA TableDelete ==
  ASSUME Types, TableInv, NEW r \in Fds, NEW c \in Conns, fdTable[r] = c, deleteSocketRec(r),
         backlog' = backlog, dropped' = dropped \/ dropped' = dropped \cup {c},
         \A d \in Conns : peer[d] # "none" => peer'[d] # "none"
  PROVE  /\ TableInv'
         /\ records' \in Seq(Fds) /\ fdTable' \in [Fds -> Files \cup {NoConn}]
         /\ interest' \subseteq Files /\ ready' \in Seq(Files)
         /\ \A file \in Files \ {c} : Has(ready, file) => Has(ready', file)
         /\ fdTable'[r] = NoConn /\ \A f \in Fds \ {r} : fdTable'[f] = fdTable[f]
<1>1. /\ records' = Only(records, Fds \ {r}) /\ fdTable' = [fdTable EXCEPT ![r] = NoConn]
      /\ interest' = interest \ {c} /\ ready' = Only(ready, Files \ {c})
  BY DEF deleteSocketRec
<1>2. /\ records \in Seq(Fds) /\ Distinct(records) /\ records # <<>> /\ records[1] = ListenFd
      /\ fdTable \in [Fds -> Files \cup {NoConn}] /\ fdTable[ListenFd] = Listener
      /\ ready \in Seq(Files) /\ interest \subseteq Files
  BY DEF Types, TableInv
<1>3. c # Listener /\ c # NoConn /\ r # ListenFd /\ ListenFd \in Fds \ {r} /\ c \in Files
  BY <1>2, FilesFacts
<1>4. /\ records' \in Seq(Fds) /\ Distinct(records') /\ records' # <<>> /\ records'[1] = ListenFd
      /\ \A f : Has(records', f) <=> Has(records, f) /\ f \in Fds \ {r}
  BY <1>1, <1>2, <1>3, OnlyFacts
<1>5. /\ ready' \in Seq(Files)
      /\ \A file : Has(ready', file) <=> Has(ready, file) /\ file \in Files \ {c}
  BY <1>1, <1>2, OnlyFacts
<1>6. /\ fdTable' \in [Fds -> Files \cup {NoConn}]
      /\ fdTable'[r] = NoConn /\ \A f \in Fds \ {r} : fdTable'[f] = fdTable[f]
  BY <1>1, <1>2
<1>7. \A f \in Fds : fdTable[f] = c => f = r
  BY <1>3 DEF TableInv
<1>8. \A file : file # NoConn => (Held(file)' <=> Held(file) /\ file # c)
  BY <1>6, <1>7 DEF Held
<1>9. ~Has(backlog, c) /\ Held(c)
  BY DEF TableInv, Held
<1>10. \A f : Has(records', f) <=> f \in Fds /\ fdTable'[f] # NoConn
  BY <1>4, <1>6 DEF TableInv
<1>11. fdTable'[ListenFd] = Listener
       /\ \A f, g \in Fds : fdTable'[f] = fdTable'[g] /\ fdTable'[f] # NoConn => f = g
  BY <1>2, <1>3, <1>6 DEF TableInv
<1>12. /\ \A file \in Files : file \in interest' <=> Held(file)'
       /\ \A file : Has(ready', file) => file \in interest'
  <2>1. \A file \in Files : file # NoConn
    BY FilesFacts
  <2>2. \A file \in Files : file \in interest' <=> Held(file)'
    BY <1>1, <1>8, <2>1 DEF TableInv
  <2> QED
    BY <1>1, <1>5, <2>2 DEF TableInv
<1>13. /\ Distinct(backlog')
       /\ \A d \in Conns : Has(backlog', d) => ~Held(d)'
       /\ \A d \in Conns : Has(backlog', d) \/ Held(d)' \/ d \in dropped' => peer'[d] # "none"
       /\ \A d \in Conns : d \in dropped' => ~Held(d)' /\ ~Has(backlog', d)
  <2>1. \A d \in Conns : d # NoConn
    BY FilesFacts
  <2>2. \A d \in Conns : Held(d)' <=> Held(d) /\ d # c
    BY <1>8, <2>1
  <2> QED
    BY <1>9, <2>2 DEF TableInv
<1>14. TableInv'
  BY <1>4, <1>10, <1>11, <1>12, <1>13 DEF TableInv
<1> QED
  BY <1>1, <1>2, <1>4, <1>5, <1>6, <1>14

\* The first waiting connection gets a free descriptor, a record and a place in epoll.
LEMMA TableAccept ==
  ASSUME Types, TableInv, NEW f \in Fds, NEW c, backlog # <<>>, c = Head(backlog),
         fdTable[f] = NoConn, records' = Append(records, f),
         fdTable' = [fdTable EXCEPT ![f] = c], interest' = interest \cup {c},
         ready' = IF Readable(c) THEN Append(ready, c) ELSE ready,
         backlog' = Tail(backlog), UNCHANGED <<peer, dropped>>
  PROVE  /\ TableInv'
         /\ c \in Conns /\ Has(backlog, c)
         /\ records' \in Seq(Fds) /\ fdTable' \in [Fds -> Files \cup {NoConn}]
         /\ interest' \subseteq Files /\ ready' \in Seq(Files) /\ backlog' \in Seq(Conns)
         /\ \A file : Has(ready', file) <=> Has(ready, file) \/ (file = c /\ Readable(c))
         /\ fdTable'[f] = c /\ \A g \in Fds \ {f} : fdTable'[g] = fdTable[g]
<1>1. /\ records \in Seq(Fds) /\ Distinct(records) /\ records # <<>> /\ records[1] = ListenFd
      /\ fdTable \in [Fds -> Files \cup {NoConn}] /\ fdTable[ListenFd] = Listener
      /\ ready \in Seq(Files) /\ interest \subseteq Files
      /\ backlog \in Seq(Conns) /\ Distinct(backlog)
  BY DEF Types, TableInv
<1>2. /\ c \in Conns /\ Has(backlog, c) /\ backlog' \in Seq(Conns) /\ Distinct(backlog')
      /\ \A x : Has(backlog', x) <=> Has(backlog, x) /\ x # c
  BY <1>1, TailOfDistinct
<1>3. c \in Files /\ c # Listener /\ c # NoConn /\ f # ListenFd
  BY <1>1, <1>2, FilesFacts
<1>4. ~Has(records, f) /\ ~Held(c) /\ peer[c] # "none"
  BY <1>2 DEF TableInv
<1>5. /\ records' \in Seq(Fds) /\ Distinct(records')
      /\ \A x : Has(records', x) <=> Has(records, x) \/ x = f
  BY <1>1, <1>4, AppendToDistinct
<1>6. records' # <<>> /\ records'[1] = ListenFd
  <2>1. Len(records) \in Nat \ {0} /\ DOMAIN records = 1 .. Len(records)
    <3>1. Len(records) \in Nat \ {0}
      BY <1>1, EmptySeq, Zenon
    <3> QED
      BY <1>1, <3>1, LenProperties
  <2>2. 1 \in DOMAIN records
    BY <2>1
  <2> QED
    BY <1>1, <2>2, AppendKeeps
<1>7. /\ ready' \in Seq(Files)
      /\ \A file : Has(ready', file) <=> Has(ready, file) \/ (file = c /\ Readable(c))
  BY <1>1, <1>3, AppendToDistinct
<1>8. /\ fdTable' \in [Fds -> Files \cup {NoConn}]
      /\ fdTable'[f] = c /\ \A g \in Fds \ {f} : fdTable'[g] = fdTable[g]
  BY <1>1, <1>3
<1>9. \A file : file # NoConn => (Held(file)' <=> Held(file) \/ file = c)
  BY <1>8 DEF Held
<1>10. \A x : Has(records', x) <=> x \in Fds /\ fdTable'[x] # NoConn
  BY <1>3, <1>5, <1>8 DEF TableInv
<1>11. fdTable'[ListenFd] = Listener
       /\ \A g, h \in Fds : fdTable'[g] = fdTable'[h] /\ fdTable'[g] # NoConn => g = h
  <2>1. \A g \in Fds : fdTable[g] # c
    BY <1>4 DEF Held
  <2> QED
    BY <1>1, <1>3, <1>8, <2>1, FilesFacts DEF TableInv
<1>12. /\ \A file \in Files : file \in interest' <=> Held(file)'
       /\ \A file : Has(ready', file) => file \in interest'
  <2>1. \A file \in Files : file # NoConn
    BY FilesFacts
  <2>2. \A file \in Files : file \in interest' <=> Held(file)'
    BY <1>9, <2>1 DEF TableInv
  <2> QED
    BY <1>7, <2>2 DEF TableInv
<1>13. /\ \A d \in Conns : Has(backlog', d) => ~Held(d)'
       /\ \A d \in Conns : Has(backlog', d) \/ Held(d)' \/ d \in dropped' => peer'[d] # "none"
       /\ \A d \in Conns : d \in dropped' => ~Held(d)' /\ ~Has(backlog', d)
  <2>1. \A d \in Conns : d # NoConn
    BY FilesFacts
  <2>2. \A d \in Conns : Held(d)' <=> Held(d) \/ d = c
    BY <1>9, <2>1
  <2> QED
    BY <1>2, <1>4, <2>2 DEF TableInv
<1>14. TableInv'
  BY <1>2, <1>5, <1>6, <1>10, <1>11, <1>12, <1>13 DEF TableInv
<1>15. interest' \subseteq Files
  BY <1>1, <1>3
<1> QED
  BY <1>2, <1>5, <1>7, <1>8, <1>14, <1>15

\* A broadcast changes no end of a connection from open to gone or back.
LEMMA DeliverFacts ==
  ASSUME Types, NEW f, NEW k, Deliver(f, k)
  PROVE  /\ peer' \in [Conns -> PeerStates]
         /\ \A c \in Conns : peer'[c] \in Gone <=> peer[c] \in Gone
         /\ \A c \in Conns : peer[c] # "none" => peer'[c] # "none"
         /\ \E R : got' = [c \in Conns |-> IF c \in R THEN Append(got[c], Received(f)) ELSE got[c]]
<1>1. PICK R : R = {c \in Conns : \E i \in 2 .. (k - 1) : Refers(records[i], c)}
  OBVIOUS
<1>2. /\ got' = [c \in Conns |-> IF c \in R THEN Append(got[c], Received(f)) ELSE got[c]]
      /\ peer' = [c \in Conns |-> IF c \in R /\ peer[c] = "fin" THEN "finw"
                                  ELSE PeerRead(f, c)]
  BY <1>1 DEF Deliver
<1>3. ASSUME NEW c \in Conns
      PROVE  /\ peer'[c] \in PeerStates /\ (peer'[c] \in Gone <=> peer[c] \in Gone)
             /\ peer[c] # "none" => peer'[c] # "none"
  <2>1. peer[c] \in PeerStates
    BY DEF Types
  <2>2. peer'[c] = IF c \in R /\ peer[c] = "fin" THEN "finw" ELSE PeerRead(f, c)
    BY <1>2
  <2>3. PeerRead(f, c) = peer[c] \/ (peer[c] = "reset" /\ PeerRead(f, c) = "broken")
    BY DEF PeerRead
  <2> QED
    BY <2>1, <2>2, <2>3 DEF PeerStates, Gone
<1>4. peer' \in [Conns -> PeerStates]
  BY <1>2, <1>3
<1> QED
  BY <1>2, <1>3, <1>4

\* What one read takes: the next message of the connection at the descriptor, or
\* nothing.
LEMMA RecvFacts ==
  ASSUME Types, TableInv, NEW f \in Fds, Recv(f)
  PROVE  /\ Received(f) \in Copy
         /\ \/ Received(f) = Empty
            \/ /\ Received(f).from \in Conns
               /\ Received(f).num = read[Received(f).from] + 1
               /\ Received(f).num <= read'[Received(f).from]
         /\ read' \in [Conns -> Nat]
         /\ \A c \in Conns : read[c] <= read'[c] /\ read'[c] <= sent[c]
<1>1. read' = [c \in Conns |-> IF Refers(f, c) /\ Unread(c) > 0 THEN read[c] + 1 ELSE read[c]]
  BY DEF Recv
<1>2. \A c \in Conns : /\ read[c] \in Nat /\ sent[c] \in Nat /\ read[c] <= sent[c]
                       /\ Unread(c) = sent[c] - read[c]
  BY DEF Types, Unread
<1>3. ASSUME NEW c \in Conns
      PROVE  read'[c] \in Nat /\ read[c] <= read'[c] /\ read'[c] <= sent[c]
  BY <1>1, <1>2
<1>4. read' \in [Conns -> Nat]
  BY <1>1, <1>3
<1>5. CASE \E c \in Conns : Refers(f, c) /\ Unread(c) > 0
  <2>1. PICK c \in Conns : Refers(f, c) /\ Unread(c) > 0
    BY <1>5
  <2>2. fdTable[f] = c /\ read'[c] = read[c] + 1
    BY <1>1, <2>1 DEF Refers
  <2>3. PICK m : m = [from |-> c, num |-> read[c] + 1]
    OBVIOUS
  <2>4. Received(f) = m
    BY <1>5, <2>2, <2>3 DEF Received
  <2>5. m \in Copy /\ m.from = c /\ m.num = read[c] + 1
    BY <1>2, <2>3 DEF Copy
  <2>6. m.num <= read'[c]
    BY <1>2, <2>2, <2>5
  <2> QED
    BY <1>3, <1>4, <2>4, <2>5, <2>6
<1>6. CASE ~\E c \in Conns : Refers(f, c) /\ Unread(c) > 0
  <2>1. Received(f) = Empty
    BY <1>6 DEF Received
  <2>2. Empty \in Copy
    BY DEF Empty, Copy
  <2> QED
    BY <1>3, <1>4, <2>1, <2>2
<1> QED
  BY <1>5, <1>6

\* What a read leaves unread was there together with what it took, or is a reset
\* taken for an error; else the event is not needed any more.
LEMMA RecvEdges ==
  ASSUME Types, TableInv, CountInv, EdgeInv, NEW f \in Fds, NEW k, Recv(f), Deliver(f, k)
  PROVE  /\ CountInv' /\ spent' \subseteq Files
         /\ \A g \in Fds, file \in Files : fdTable[g] = file /\ Readable(file)' =>
              file \in spent' \/ Has(ready, file) \/ (Has(events, g) /\ g # f)
<1>1. /\ read' = [c \in Conns |-> IF Refers(f, c) /\ Unread(c) > 0 THEN read[c] + 1 ELSE read[c]]
      /\ spent' = spent \cup {c \in Conns : PeerRead(f, c) # peer[c]}
      /\ pc = "serve" /\ f # ListenFd /\ ~EndOfStream(f) /\ UNCHANGED <<backlog, sent>>
  BY DEF Recv
<1>2. \A c \in Conns : peer[c] \in PeerStates /\ (peer'[c] \in Gone <=> peer[c] \in Gone)
  BY DeliverFacts DEF Types
<1>3. \A c \in Conns : /\ read[c] \in Nat /\ sent[c] \in Nat /\ read[c] <= sent[c]
                       /\ Unread(c) = sent[c] - read[c]
                       /\ Unread(c)' = sent[c] - read'[c]
                       /\ read'[c] = read[c] \/ read'[c] = read[c] + 1
  BY <1>1 DEF Types, Unread
<1>4. \A c \in Conns : /\ Unread(c) \in Int /\ Unread(c)' \in Int /\ Unread(c) >= 0
                       /\ Unread(c)' = Unread(c) \/ Unread(c)' = Unread(c) - 1
  BY <1>3
<1>5. CountInv'
  <2>1. \A c \in Conns : Unread(c)' > 0 /\ (Unread(c)' > 1 \/ peer'[c] \in Gone) => c \in spent'
    BY <1>1, <1>2, <1>4 DEF CountInv
  <2>2. Len(backlog') > 1 => Listener \in spent'
    BY <1>1 DEF CountInv
  <2> QED
    BY <2>1, <2>2 DEF CountInv
<1>6. spent' \subseteq Files
  BY <1>1, FilesFacts DEF Types
<1>7. ASSUME NEW g \in Fds, NEW file \in Files, fdTable[g] = file, Readable(file)'
      PROVE  file \in spent' \/ Has(ready, file) \/ (Has(events, g) /\ g # f)
  <2>1. CASE file = Listener
    <3>1. g # f
      BY <1>1, <1>7, <2>1, FilesFacts DEF TableInv
    <3>2. Readable(file)
      BY <1>1, <1>7, <2>1 DEF Readable
    <3> QED
      BY <1>1, <1>7, <3>1, <3>2 DEF EdgeInv
  <2>2. CASE file \in Conns /\ g # f
    <3>1. file # NoConn /\ file # Listener
      BY <2>2, FilesFacts
    <3>2. ~Refers(f, file)
      BY <1>7, <2>2, <3>1 DEF Refers, TableInv
    <3>3. Unread(file)' = Unread(file)
      BY <1>1, <2>2, <3>2 DEF Unread
    <3>4. Readable(file)
      BY <1>2, <1>7, <2>2, <3>1, <3>3 DEF Readable
    <3> QED
      BY <1>1, <1>7, <2>2, <3>4 DEF EdgeInv
  <2>3. CASE file \in Conns /\ g = f
    <3>1. file # Listener /\ Refers(f, file)
      BY <1>7, <2>3, FilesFacts DEF Refers
    <3>2. Unread(file)' > 0 \/ peer'[file] \in Gone
      BY <1>7, <3>1 DEF Readable
    <3>3. CASE Unread(file) > 0
      <4>1. Unread(file)' = Unread(file) - 1
        BY <1>1, <1>3, <2>3, <3>1, <3>3
      <4>2. Unread(file) > 1 \/ peer[file] \in Gone
        BY <1>2, <1>4, <2>3, <3>2, <4>1
      <4> QED
        BY <1>1, <2>3, <3>3, <4>2 DEF CountInv
    <3>4. CASE ~(Unread(file) > 0)
      <4>1. Unread(file) = 0 /\ ~(Unread(file)' > 0)
        BY <1>4, <2>3, <3>4
      <4>2. peer[file] \in Gone /\ peer[file] \notin {"fin", "finw", "broken"}
        BY <1>1, <1>2, <2>3, <3>1, <3>2, <4>1 DEF EndOfStream
      <4>3. PeerRead(f, file) = "broken" /\ peer[file] = "reset"
        BY <3>1, <4>1, <4>2 DEF PeerRead, Gone
      <4> QED
        BY <1>1, <2>3, <4>3
    <3> QED
      BY <3>3, <3>4
  <2> QED
    BY <2>1, <2>2, <2>3, FilesFacts
<1> QED
  BY <1>5, <1>6, <1>7

\* OneOrder of what the clients got, pair by pair.
PairInOrder(g, c, d, i, j) ==
  /\ g[c][i].from = g[c][j].from => g[c][i].num < g[c][j].num
  /\ \A k, l \in DOMAIN g[d] : g[d][k] = g[c][i] /\ g[d][l] = g[c][j] => k < l
InOrder(g) ==
  \A c, d \in Conns : \A i, j \in DOMAIN g[c] :
    i < j /\ g[c][i] # Empty /\ g[c][j] # Empty => PairInOrder(g, c, d, i, j)

\* New messages: one that nobody has yet, or none, at the end of some clients' copies.
LEMMA OrderKeeps ==
  ASSUME Types, ReadInv, OneOrder, NEW x \in Copy, NEW R,
         got' = [c \in Conns |-> IF c \in R THEN Append(got[c], x) ELSE got[c]],
         read' \in [Conns -> Nat], \A c \in Conns : read[c] <= read'[c],
         \/ x = Empty
         \/ x.from \in Conns /\ x.num = read[x.from] + 1 /\ x.num <= read'[x.from]
  PROVE  got' \in [Conns -> Seq(Copy)] /\ ReadInv' /\ OneOrder'
<1>1. ASSUME NEW c \in Conns
      PROVE  /\ got[c] \in Seq(Copy) /\ got'[c] \in Seq(Copy)
             /\ Len(got[c]) \in Nat /\ DOMAIN got[c] = 1 .. Len(got[c])
             /\ \/ got'[c] = got[c]
                \/ /\ DOMAIN got'[c] = 1 .. (Len(got[c]) + 1)
                   /\ \A i \in DOMAIN got[c] : got'[c][i] = got[c][i]
                   /\ got'[c][Len(got[c]) + 1] = x
  <2>1. got[c] \in Seq(Copy)
    BY DEF Types
  <2>2. got'[c] = got[c] \/ got'[c] = Append(got[c], x)
    OBVIOUS
  <2>3. Len(got[c]) \in Nat /\ DOMAIN got[c] = 1 .. Len(got[c])
    BY <2>1, LenProperties
  <2>4. PICK t : t = Append(got[c], x)
    OBVIOUS
  <2>5. /\ t \in Seq(Copy) /\ DOMAIN t = 1 .. (Len(got[c]) + 1)
        /\ \A i \in DOMAIN got[c] : t[i] = got[c][i]
        /\ t[Len(got[c]) + 1] = x
    BY <2>1, <2>4, AppendKeeps
  <2> QED
    BY <2>1, <2>2, <2>3, <2>4, <2>5
<1>2. ASSUME NEW c \in Conns, NEW i \in DOMAIN got'[c]
      PROVE  \/ i \in DOMAIN got[c] /\ got'[c][i] = got[c][i]
             \/ i = Len(got[c]) + 1 /\ i \notin DOMAIN got[c] /\ got'[c][i] = x
  <2>1. CASE got'[c] = got[c]
    BY <1>2, <2>1
  <2>2. CASE got'[c] # got[c]
    <3>1. /\ Len(got[c]) \in Nat /\ DOMAIN got[c] = 1 .. Len(got[c])
          /\ i \in 1 .. (Len(got[c]) + 1)
      BY <1>1, <1>2, <2>2
    <3>2. i \in 1 .. Len(got[c]) \/ (i = Len(got[c]) + 1 /\ i \notin 1 .. Len(got[c]))
      BY <3>1
    <3> QED
      BY <1>1, <2>2, <3>1, <3>2
  <2> QED
    BY <2>1, <2>2
\* a message at hand already is not the new one
<1>3. ASSUME NEW c \in Conns, NEW i \in DOMAIN got[c], got[c][i] # Empty, x # Empty
      PROVE  got[c][i] # x /\ (got[c][i].from = x.from => got[c][i].num < x.num)
  <2>1. got[c][i].from \in Conns /\ got[c][i].num <= read[got[c][i].from]
    BY <1>3 DEF ReadInv
  <2>2. got[c][i] \in Copy
    BY <1>1, ElementOfSeq
  <2>3. got[c][i].num \in Nat /\ x.num \in Nat /\ x.num = read[x.from] + 1
        /\ read[x.from] \in Nat
    BY <1>3, <2>2 DEF Copy, Types
  <2>4. got[c][i].from = x.from => got[c][i].num < x.num
    BY <2>1, <2>3
  <2>5. got[c][i].from = x.from /\ got[c][i].num = x.num => FALSE
    BY <2>3, <2>4
  <2> QED
    BY <2>4, <2>5
<1>4. got' \in [Conns -> Seq(Copy)]
  <2>1. \A c \in Conns : got'[c] \in Seq(Copy)
    BY <1>1
  <2>2. got' = [c \in Conns |-> got'[c]]
    OBVIOUS
  <2> QED
    BY <2>1, <2>2
<1>5. ReadInv'
  <2> SUFFICES ASSUME NEW c \in Conns, NEW i \in DOMAIN got'[c], NEW m, m = got'[c][i], m # Empty
               PROVE  m.from \in Conns /\ m.num <= read'[m.from]
    BY DEF ReadInv, Empty
  <2>1. CASE i \in DOMAIN got[c] /\ m = got[c][i]
    <3>1. m.from \in Conns /\ m.num <= read[m.from]
      BY <2>1 DEF ReadInv
    <3>2. m \in Copy
      BY <1>1, <2>1, ElementOfSeq
    <3>3. m.num \in Nat /\ read[m.from] \in Nat /\ read'[m.from] \in Nat /\ read[m.from] <= read'[m.from]
      BY <3>1, <3>2 DEF Copy, Types
    <3> QED
      BY <3>1, <3>3
  <2>2. CASE m = x
    BY <2>2
  <2> QED
    BY <1>2, <2>1, <2>2
<1>6. ASSUME NEW c \in Conns, NEW d \in Conns,
             NEW i \in DOMAIN got'[c], NEW j \in DOMAIN got'[c], i < j,
             got'[c][i] # Empty, got'[c][j] # Empty
      PROVE  PairInOrder(got', c, d, i, j)
  <2>m. PICK m : m = got'[c][i]
    OBVIOUS
  <2>n. PICK n : n = got'[c][j]
    OBVIOUS
  <2>1. i \in Nat /\ j \in Nat /\ Len(got[c]) \in Nat /\ Len(got[d]) \in Nat
        /\ DOMAIN got[c] = 1 .. Len(got[c]) /\ DOMAIN got[d] = 1 .. Len(got[d])
    BY <1>1, <1>2
  <2>2. i \in DOMAIN got[c] /\ m = got[c][i]
    <3>1. ~(i = Len(got[c]) + 1 /\ i \notin DOMAIN got[c])
      <4>1. j \in DOMAIN got[c] \/ j = Len(got[c]) + 1
        BY <1>2
      <4> QED
        BY <1>6, <2>1, <4>1
    <3> QED
      BY <1>2, <2>m, <3>1
  <2>3. CASE j \in DOMAIN got[c] /\ n = got[c][j]
    <3>1. m.from = n.from => m.num < n.num
      BY <1>6, <2>m, <2>n, <2>2, <2>3 DEF OneOrder
    <3>2. ASSUME NEW k \in DOMAIN got'[d], NEW l \in DOMAIN got'[d], got'[d][k] = m, got'[d][l] = n
          PROVE  k < l
      <4>1. m # x /\ n # x
        BY <1>3, <1>6, <2>m, <2>n, <2>2, <2>3
      <4>2. k \in DOMAIN got[d] /\ l \in DOMAIN got[d] /\ got[d][k] = m /\ got[d][l] = n
        BY <1>2, <3>2, <4>1
      <4> QED
        BY <1>6, <2>m, <2>n, <2>2, <2>3, <4>2 DEF OneOrder
    <3> QED
      BY <2>m, <2>n, <3>1, <3>2 DEF PairInOrder
  <2>4. CASE j = Len(got[c]) + 1 /\ n = x
    <3>1. m # x /\ (m.from = x.from => m.num < x.num)
      BY <1>3, <1>6, <2>m, <2>n, <2>2, <2>4
    <3>2. ASSUME NEW k \in DOMAIN got'[d], NEW l \in DOMAIN got'[d], got'[d][k] = m, got'[d][l] = x
          PROVE  k < l
      <4>1. k \in DOMAIN got[d]
        BY <1>2, <3>1, <3>2
      <4>2. ~(l \in DOMAIN got[d] /\ got'[d][l] = got[d][l])
        BY <1>3, <1>6, <2>n, <2>4, <3>2
      <4>3. l = Len(got[d]) + 1
        BY <1>2, <4>2
      <4> QED
        BY <2>1, <4>1, <4>3
    <3>3. got'[c][i].from = got'[c][j].from => got'[c][i].num < got'[c][j].num
      BY <2>m, <2>n, <2>4, <3>1
    <3>4. \A k, l \in DOMAIN got'[d] : got'[d][k] = got'[c][i] /\ got'[d][l] = got'[c][j] => k < l
      BY <2>m, <2>n, <2>4, <3>2
    <3> QED
      BY <3>3, <3>4 DEF PairInOrder
  <2> QED
    BY <1>2, <2>n, <2>3, <2>4
<1>7. OneOrder'
  <2>1. InOrder(got')
    BY <1>6 DEF InOrder
  <2> QED
    BY <2>1, Zenon DEF OneOrder, InOrder, PairInOrder
<1> QED
  BY <1>4, <1>5, <1>7

\* got and read stay as they are.
LEMMA OrderSame ==
  ASSUME Types, ReadInv, OneOrder, UNCHANGED <<got, read>>
  PROVE  ReadInv' /\ OneOrder'
BY DEF ReadInv, OneOrder

-----------------------------------------------------------------------------
(* The steps of the service.                                               *)

\* The service starts with the listening socket listed and watched.
LEMMA ServiceStarts == Init => ServiceInv
<1> SUFFICES ASSUME Init PROVE ServiceInv
  OBVIOUS
<1>1. /\ <<>> \in Seq(Fds) /\ <<>> \in Seq(Files) /\ <<>> \in Seq(Conns) /\ <<>> \in Seq(Copy)
      /\ DOMAIN <<>> = {} /\ Len(<<>>) = 0
  BY EmptySeq, LenProperties
<1>2. Distinct(<<>>) /\ \A x : ~Has(<<>>, x)
  BY <1>1 DEF Distinct, Has
<1>3. /\ records = <<ListenFd>> /\ records \in Seq(Fds) /\ records # <<>> /\ records[1] = ListenFd
      /\ DOMAIN records = 1 .. 1
  BY FilesFacts DEF Init
<1>4. Distinct(records) /\ \A x : Has(records, x) <=> x = ListenFd
  BY <1>3 DEF Distinct, Has
<1>5. /\ fdTable = [f \in Fds |-> IF f = ListenFd THEN Listener ELSE NoConn]
      /\ pc = "wait" /\ events = <<>> /\ interest = {Listener} /\ ready = <<>> /\ backlog = <<>>
      /\ peer = [c \in Conns |-> "none"]
      /\ sent = [c \in Conns |-> 0] /\ read = [c \in Conns |-> 0]
      /\ got = [c \in Conns |-> <<>>] /\ spent = {} /\ dropped = {}
  BY DEF Init
<1>6. Types
  <2>1. peer \in [Conns -> PeerStates] /\ fdTable \in [Fds -> Files \cup {NoConn}]
        /\ interest \subseteq Files
    BY <1>5, FilesFacts DEF PeerStates
  <2>2. sent \in [Conns -> Nat] /\ read \in [Conns -> Nat] /\ (\A c \in Conns : read[c] <= sent[c])
        /\ got \in [Conns -> Seq(Copy)]
    BY <1>1, <1>5
  <2> QED
    BY <1>1, <1>3, <1>5, <2>1, <2>2 DEF Types
<1>7. \A file : file # NoConn => (Held(file) <=> file = Listener)
  BY <1>5, FilesFacts DEF Held
<1>8. TableInv
  <2>1. \A f : Has(records, f) <=> f \in Fds /\ fdTable[f] # NoConn
    BY <1>4, <1>5, FilesFacts
  <2>2. fdTable[ListenFd] = Listener
        /\ \A f, g \in Fds : fdTable[f] = fdTable[g] /\ fdTable[f] # NoConn => f = g
    BY <1>5, FilesFacts
  <2>3. \A file \in Files : file \in interest <=> Held(file)
    BY <1>5, <1>7, FilesFacts
  <2>4. \A c \in Conns : ~Held(c) /\ ~Has(backlog, c) /\ c \notin dropped
    BY <1>2, <1>5, <1>7, FilesFacts
  <2> QED
    BY <1>2, <1>3, <1>4, <1>5, <2>1, <2>2, <2>3, <2>4 DEF TableInv
<1>9. /\ \A c \in Conns : Unread(c) = 0
      /\ \A file \in Files : ~Readable(file)
  BY <1>5, FilesFacts DEF Unread, Readable, Gone
<1>10. CountInv /\ EdgeInv
  BY <1>1, <1>5, <1>9 DEF CountInv, EdgeInv
<1>11. ReadInv /\ OneOrder
  BY <1>1, <1>5 DEF ReadInv, OneOrder
<1> QED
  BY <1>6, <1>8, <1>10, <1>11 DEF ServiceInv

\* Every readable file on the ready list becomes an event of the descriptor that
\* refers to it.
LEMMA WaitKeeps ==
  ASSUME ServiceInv, EpollWait
  PROVE  ServiceInv'
<1>1. PICK found : found = Only(ready, {file \in Files : Readable(file)})
  OBVIOUS
<1>2. /\ pc = "wait" /\ ready' = <<>>
      /\ events' = [i \in DOMAIN found |-> CHOOSE f \in Fds : fdTable[f] = found[i]]
      /\ pc' = IF found = <<>> THEN "wait" ELSE "serve"
      /\ UNCHANGED <<records, fdTable, interest, backlog, peer, sent, read, got, spent, dropped>>
  BY <1>1 DEF EpollWait
<1>3. Types /\ TableInv /\ CountInv /\ EdgeInv /\ ReadInv /\ OneOrder
  BY DEF ServiceInv
<1>4. /\ found \in Seq(Files) /\ Len(found) \in Nat /\ DOMAIN found = 1 .. Len(found)
      /\ \A file : Has(found, file) <=> Has(ready, file) /\ file \in Files /\ Readable(file)
  BY <1>1, <1>3, OnlyFacts, LenProperties DEF Types
<1>5. ASSUME NEW i \in DOMAIN found
      PROVE  events'[i] \in Fds /\ fdTable[events'[i]] = found[i]
  <2>1. found[i] \in Files /\ Has(ready, found[i])
    BY <1>4 DEF Has
  <2>2. \E f \in Fds : fdTable[f] = found[i]
    BY <1>3, <2>1 DEF TableInv, Held
  <2>3. PICK e : e = CHOOSE f \in Fds : fdTable[f] = found[i]
    OBVIOUS
  <2>4. e \in Fds /\ fdTable[e] = found[i]
    BY <2>2, <2>3, Zenon
  <2> QED
    BY <1>2, <2>3, <2>4
<1>6. events' \in Seq(Fds) /\ DOMAIN events' = DOMAIN found
  <2>1. events' \in [1 .. Len(found) -> Fds]
    BY <1>2, <1>4, <1>5
  <2> QED
    BY <1>2, <1>4, <2>1, FunctionIsSeq
<1>7. (pc' = "serve" => events' # <<>>) /\ (pc' = "wait" => events' = <<>>)
  <2>0. found = <<>> => events' = <<>>
    <3>1. ASSUME found = <<>> PROVE Len(events') = 0
      BY <1>4, <1>6, <3>1, EmptySeq, LenProperties
    <3> QED
      BY <1>6, <3>1, EmptySeq
  <2> SUFFICES ASSUME found # <<>> PROVE events' # <<>>
    BY <1>2, <2>0
  <2>1. Len(found) # 0
    BY <1>4, EmptySeq
  <2>2. 1 \in DOMAIN events'
    BY <1>4, <1>6, <2>1
  <2>3. DOMAIN <<>> = {}
    BY EmptySeq
  <2> QED
    BY <2>2, <2>3
<1>8. <<>> \in Seq(Files) /\ \A x : ~Has(<<>>, x)
  <2>1. DOMAIN <<>> = {}
    BY EmptySeq
  <2> QED
    BY <2>1, EmptySeq DEF Has
<1>9. Types'
  <2>1. pc' \in {"wait", "serve", "dead"} /\ ready' \in Seq(Files)
    BY <1>2, <1>8
  <2> QED
    BY <1>2, <1>3, <1>6, <1>7, <2>1 DEF Types
<1>10. TableInv'
  BY <1>2, <1>3, <1>8, TableSame
<1>11. CountInv'
  BY <1>2, <1>3 DEF CountInv, Unread
<1>12. \A file \in Files : Readable(file)' <=> Readable(file)
  BY <1>2 DEF Readable, Unread
<1>13. EdgeInv'
  <2> SUFFICES ASSUME NEW f \in Fds, NEW file \in Files, fdTable'[f] = file, Readable(file)',
                      file \notin spent'
               PROVE  Has(events', f)
    BY DEF EdgeInv
  <2>1. fdTable[f] = file /\ Readable(file) /\ file \notin spent
    BY <1>2, <1>12
  <2>2. file # NoConn /\ ~Has(events, f) /\ pc # "dead"
    BY <1>2, <1>3, <1>8, FilesFacts DEF Types
  <2>3. Has(ready, file)
    BY <1>3, <2>1, <2>2 DEF EdgeInv
  <2>4. PICK i \in DOMAIN found : found[i] = file
    BY <1>4, <2>1, <2>3 DEF Has
  <2>5. events'[i] = f
    BY <1>3, <1>5, <2>1, <2>2, <2>4 DEF TableInv
  <2> QED
    BY <1>6, <2>4, <2>5 DEF Has
<1>14. ReadInv' /\ OneOrder'
  BY <1>2, <1>3, OrderSame
<1> QED
  BY <1>9, <1>10, <1>11, <1>13, <1>14 DEF ServiceInv

\* accept() takes one connection; what the backlog still holds was there before.
LEMMA AcceptKeeps ==
  ASSUME ServiceInv, Accept
  PROVE  ServiceInv'
<1>1. Types /\ TableInv /\ CountInv /\ EdgeInv /\ ReadInv /\ OneOrder
  BY DEF ServiceInv
<1>2. PICK f \in FreeFds : /\ records' = Append(records, f)
                           /\ fdTable' = [fdTable EXCEPT ![f] = Head(backlog)]
  BY DEF Accept
<1>3. PICK c : c = Head(backlog)
  OBVIOUS
<1>4. /\ pc = "serve" /\ Head(events) = ListenFd /\ backlog # <<>> /\ EventDone
      /\ interest' = interest \cup {c}
      /\ ready' = IF Readable(c) THEN Append(ready, c) ELSE ready
      /\ backlog' = Tail(backlog)
      /\ UNCHANGED <<peer, sent, read, got, spent, dropped>>
  BY <1>3 DEF Accept
<1>5. f \in Fds /\ fdTable[f] = NoConn
  BY DEF FreeFds
<1>6. /\ TableInv' /\ c \in Conns /\ Has(backlog, c)
      /\ records' \in Seq(Fds) /\ fdTable' \in [Fds -> Files \cup {NoConn}]
      /\ interest' \subseteq Files /\ ready' \in Seq(Files) /\ backlog' \in Seq(Conns)
      /\ \A file : Has(ready', file) <=> Has(ready, file) \/ (file = c /\ Readable(c))
      /\ fdTable'[f] = c /\ \A g \in Fds \ {f} : fdTable'[g] = fdTable[g]
  BY <1>1, <1>2, <1>3, <1>4, <1>5, TableAccept
<1>7. /\ events' \in Seq(Fds) /\ pc' \in {"wait", "serve", "dead"}
      /\ pc' = "serve" => events' # <<>>
      /\ pc' = "wait" => events' = <<>>
      /\ \A g : Has(events, g) /\ g # ListenFd => Has(events', g)
  BY <1>1, <1>4, DoneFacts
<1>8. Types'
  BY <1>1, <1>4, <1>6, <1>7 DEF Types
<1>9. backlog \in Seq(Conns) /\ Len(backlog') = Len(backlog) - 1 /\ Len(backlog) \in Nat
  <2>1. backlog \in Seq(Conns)
    BY <1>1 DEF Types
  <2> QED
    BY <1>4, <2>1, RangeOfTail, LenProperties
<1>10. CountInv'
  <2>1. \A d \in Conns : Unread(d)' = Unread(d)
    BY <1>4 DEF Unread
  <2> QED
    BY <1>1, <1>4, <1>9, <2>1 DEF CountInv
<1>11. \A d \in Conns : Readable(d)' <=> Readable(d)
  BY <1>4, FilesFacts DEF Readable, Unread
<1>12. EdgeInv'
  <2> SUFFICES ASSUME NEW g \in Fds, NEW file \in Files, fdTable'[g] = file, Readable(file)',
                      file \notin spent'
               PROVE  Has(ready', file) \/ Has(events', g) \/ pc' = "dead"
    BY DEF EdgeInv
  <2>1. CASE g = f
    <3>1. file = c /\ Readable(c)
      BY <1>6, <1>11, <2>1
    <3> QED
      BY <1>6, <3>1
  <2>2. CASE g # f /\ g # ListenFd
    <3>1. fdTable[g] = file
      BY <1>6, <2>2
    <3>2. file \in Conns
      BY <1>1, <2>2, <3>1, FilesFacts DEF TableInv
    <3>3. Has(ready, file) \/ Has(events, g)
      BY <1>1, <1>4, <1>11, <3>1, <3>2 DEF EdgeInv
    <3> QED
      BY <1>6, <1>7, <2>2, <3>3
  <2>3. CASE g # f /\ g = ListenFd
    <3>1. file = Listener
      BY <1>1, <1>6, <2>3 DEF TableInv
    <3>2. backlog' # <<>>
      BY <3>1 DEF Readable
    <3>3. Len(backlog') # 0
      BY <1>6, <3>2, EmptySeq
    <3>4. Len(backlog) > 1
      <4>1. Len(backlog') \in Nat
        BY <1>6, LenProperties
      <4> QED
        BY <1>9, <3>3, <4>1
    <3> QED
      BY <1>1, <1>4, <3>1, <3>4 DEF CountInv
  <2> QED
    BY <2>1, <2>2, <2>3
<1>13. ReadInv' /\ OneOrder'
  BY <1>1, <1>4, OrderSame
<1> QED
  BY <1>6, <1>8, <1>10, <1>12, <1>13 DEF ServiceInv

\* After an accept() that failed the edge of the listener is used up.
LEMMA FailKeeps ==
  ASSUME ServiceInv, AcceptFailed
  PROVE  ServiceInv'
<1>1. Types /\ TableInv /\ CountInv /\ EdgeInv /\ ReadInv /\ OneOrder
  BY DEF ServiceInv
<1>2. /\ pc = "serve" /\ Head(events) = ListenFd /\ EventDone /\ spent' = spent \cup {Listener}
      /\ UNCHANGED <<records, fdTable, interest, ready, backlog, peer, sent, read, got, dropped>>
  BY DEF AcceptFailed
<1>3. /\ events' \in Seq(Fds) /\ pc' \in {"wait", "serve", "dead"}
      /\ pc' = "serve" => events' # <<>>
      /\ pc' = "wait" => events' = <<>>
      /\ \A g : Has(events, g) /\ g # ListenFd => Has(events', g)
  BY <1>1, <1>2, DoneFacts
<1>4. Types'
  BY <1>1, <1>2, <1>3, FilesFacts DEF Types
<1>5. TableInv'
  BY <1>1, <1>2, TableSame DEF TableInv
<1>6. CountInv'
  BY <1>1, <1>2 DEF CountInv, Unread
<1>7. \A file \in Files : Readable(file)' <=> Readable(file)
  BY <1>2 DEF Readable, Unread
<1>8. EdgeInv'
  <2> SUFFICES ASSUME NEW g \in Fds, NEW file \in Files, fdTable'[g] = file, Readable(file)',
                      file \notin spent'
               PROVE  Has(ready', file) \/ Has(events', g)
    BY DEF EdgeInv
  <2>1. file # Listener /\ g # ListenFd
    BY <1>1, <1>2 DEF TableInv
  <2> QED
    BY <1>1, <1>2, <1>3, <1>7, <2>1 DEF EdgeInv
<1>9. ReadInv' /\ OneOrder'
  BY <1>1, <1>2, OrderSame
<1> QED
  BY <1>4, <1>5, <1>6, <1>8, <1>9 DEF ServiceInv

\* What one read and the broadcast of what it took keep, however far the broadcast
\* comes.
LEMMA RelayFacts ==
  ASSUME ServiceInv, NEW f \in Fds, NEW k, Recv(f), Deliver(f, k)
  PROVE  /\ CountInv' /\ ReadInv' /\ OneOrder'
         /\ spent' \subseteq Files /\ peer' \in [Conns -> PeerStates]
         /\ read' \in [Conns -> Nat] /\ got' \in [Conns -> Seq(Copy)]
         /\ \A c \in Conns : read'[c] <= sent'[c]
         /\ sent' = sent /\ backlog' = backlog
         /\ pc = "serve" /\ Head(events) = f
         /\ \A c \in Conns : peer[c] # "none" => peer'[c] # "none"
         /\ \A g \in Fds, file \in Files : fdTable[g] = file /\ Readable(file)' =>
              file \in spent' \/ Has(ready, file) \/ (Has(events, g) /\ g # f)
<1>1. Types /\ TableInv /\ CountInv /\ EdgeInv /\ ReadInv /\ OneOrder
  BY DEF ServiceInv
<1>2. sent' = sent /\ backlog' = backlog /\ pc = "serve" /\ Head(events) = f
  BY DEF Recv
<1>3. /\ peer' \in [Conns -> PeerStates]
      /\ \A c \in Conns : peer[c] # "none" => peer'[c] # "none"
      /\ \E R : got' = [c \in Conns |-> IF c \in R THEN Append(got[c], Received(f)) ELSE got[c]]
  BY <1>1, DeliverFacts
<1>4. /\ Received(f) \in Copy
      /\ \/ Received(f) = Empty
         \/ /\ Received(f).from \in Conns
            /\ Received(f).num = read[Received(f).from] + 1
            /\ Received(f).num <= read'[Received(f).from]
      /\ read' \in [Conns -> Nat]
      /\ \A c \in Conns : read[c] <= read'[c] /\ read'[c] <= sent[c]
  BY <1>1, RecvFacts
<1>5. PICK x : x = Received(f)
  OBVIOUS
<1>6. PICK R : got' = [c \in Conns |-> IF c \in R THEN Append(got[c], x) ELSE got[c]]
  BY <1>3, <1>5
<1>7. got' \in [Conns -> Seq(Copy)] /\ ReadInv' /\ OneOrder'
  BY <1>1, <1>4, <1>5, <1>6, OrderKeeps
<1>8. /\ CountInv' /\ spent' \subseteq Files
      /\ \A g \in Fds, file \in Files : fdTable[g] = file /\ Readable(file)' =>
           file \in spent' \/ Has(ready, file) \/ (Has(events, g) /\ g # f)
  BY <1>1, RecvEdges
<1> QED
  BY <1>2, <1>3, <1>4, <1>7, <1>8

\* A message is relayed: to all, up to a write that fails, or up to one that kills.
LEMMA RelayKeeps ==
  ASSUME ServiceInv, NEW f \in Fds, Relay(f)
  PROVE  ServiceInv'
<1>1. Types /\ TableInv
  BY DEF ServiceInv
<1>2. PICK k : Recv(f) /\ Deliver(f, k)
  BY DEF Relay
<1>3. /\ EventDone /\ UNCHANGED <<records, fdTable, interest, ready, dropped>>
  BY DEF Relay
<1>4. /\ CountInv' /\ ReadInv' /\ OneOrder'
      /\ spent' \subseteq Files /\ peer' \in [Conns -> PeerStates]
      /\ read' \in [Conns -> Nat] /\ got' \in [Conns -> Seq(Copy)]
      /\ \A c \in Conns : read'[c] <= sent'[c]
      /\ sent' = sent /\ backlog' = backlog
      /\ pc = "serve" /\ Head(events) = f
      /\ \A c \in Conns : peer[c] # "none" => peer'[c] # "none"
      /\ \A g \in Fds, file \in Files : fdTable[g] = file /\ Readable(file)' =>
           file \in spent' \/ Has(ready, file) \/ (Has(events, g) /\ g # f)
  BY <1>2, RelayFacts
<1>5. /\ events' \in Seq(Fds) /\ pc' \in {"wait", "serve", "dead"}
      /\ pc' = "serve" => events' # <<>>
      /\ pc' = "wait" => events' = <<>>
      /\ \A g : Has(events, g) /\ g # f => Has(events', g)
  BY <1>1, <1>3, <1>4, DoneFacts
<1>6. Types'
  BY <1>1, <1>3, <1>4, <1>5 DEF Types
<1>7. TableInv'
  BY <1>1, <1>3, <1>4, TableSame DEF TableInv
<1>8. EdgeInv'
  BY <1>3, <1>4, <1>5 DEF EdgeInv
<1> QED
  BY <1>4, <1>6, <1>7, <1>8 DEF ServiceInv

\* A process that SIGPIPE ended does nothing more.
LEMMA KilledKeeps ==
  ASSUME ServiceInv, NEW f \in Fds, NEW k, RelayIsKilled(f, k)
  PROVE  ServiceInv'
<1>1. Types /\ TableInv
  BY DEF ServiceInv
<1>2. Recv(f) /\ Deliver(f, k) /\ pc' = "dead"
      /\ UNCHANGED <<events, records, fdTable, interest, ready, dropped>>
  BY DEF RelayIsKilled
<1>3. /\ CountInv' /\ ReadInv' /\ OneOrder'
      /\ spent' \subseteq Files /\ peer' \in [Conns -> PeerStates]
      /\ read' \in [Conns -> Nat] /\ got' \in [Conns -> Seq(Copy)]
      /\ \A c \in Conns : read'[c] <= sent'[c]
      /\ sent' = sent /\ backlog' = backlog
      /\ \A c \in Conns : peer[c] # "none" => peer'[c] # "none"
  BY <1>2, RelayFacts
<1>4. Types'
  BY <1>1, <1>2, <1>3 DEF Types
<1>5. TableInv'
  BY <1>1, <1>2, <1>3, TableSame DEF TableInv
<1>6. EdgeInv'
  BY <1>2 DEF EdgeInv
<1> QED
  BY <1>3, <1>4, <1>5, <1>6 DEF ServiceInv

\* A write that fails is one to a client's connection.
LEMMA FailingRecord ==
  ASSUME Types, TableInv, NEW f \in Fds, NEW k \in 2 .. Len(records), WriteFails(f, k)
  PROVE  \E c \in Conns : records[k] \in Fds /\ fdTable[records[k]] = c
                          /\ (peer[c] = "reset" \/ c \in Slow)
<1>1. PICK c \in Conns : /\ Refers(records[k], c)
                         /\ PeerRead(f, c) = "reset" \/ (PeerRead(f, c) \in Taken /\ c \in Slow)
  BY DEF WriteFails
<1>2. PeerRead(f, c) = "reset" => peer[c] = "reset"
  BY DEF PeerRead
<1> QED
  BY <1>1, <1>2 DEF Refers

\* The record a write failed for goes; the other files keep their events.
LEMMA StopKeeps ==
  ASSUME ServiceInv, NEW f \in Fds, NEW k \in 2 .. Len(records), RelayStopsAtError(f, k)
  PROVE  ServiceInv'
<1>1. Types /\ TableInv
  BY DEF ServiceInv
<1>2. PICK r : r = records[k]
  OBVIOUS
<1>3. /\ Recv(f) /\ Deliver(f, k) /\ WriteFails(f, k) /\ EventDone /\ deleteSocketRec(r)
      /\ dropped' = dropped \cup {fdTable[r]}
  BY <1>2 DEF RelayStopsAtError
<1>4. PICK c \in Conns : r \in Fds /\ fdTable[r] = c
  BY <1>1, <1>2, <1>3, FailingRecord
<1>5. /\ CountInv' /\ ReadInv' /\ OneOrder'
      /\ spent' \subseteq Files /\ peer' \in [Conns -> PeerStates]
      /\ read' \in [Conns -> Nat] /\ got' \in [Conns -> Seq(Copy)]
      /\ \A d \in Conns : read'[d] <= sent'[d]
      /\ sent' = sent /\ backlog' = backlog
      /\ pc = "serve" /\ Head(events) = f
      /\ \A d \in Conns : peer[d] # "none" => peer'[d] # "none"
      /\ \A g \in Fds, file \in Files : fdTable[g] = file /\ Readable(file)' =>
           file \in spent' \/ Has(ready, file) \/ (Has(events, g) /\ g # f)
  BY <1>3, RelayFacts
<1>6. /\ events' \in Seq(Fds) /\ pc' \in {"wait", "serve", "dead"}
      /\ pc' = "serve" => events' # <<>>
      /\ pc' = "wait" => events' = <<>>
      /\ \A g : Has(events, g) /\ g # f => Has(events', g)
  BY <1>1, <1>3, <1>5, DoneFacts
<1>7. /\ TableInv'
      /\ records' \in Seq(Fds) /\ fdTable' \in [Fds -> Files \cup {NoConn}]
      /\ interest' \subseteq Files /\ ready' \in Seq(Files)
      /\ \A file \in Files \ {c} : Has(ready, file) => Has(ready', file)
      /\ fdTable'[r] = NoConn /\ \A g \in Fds \ {r} : fdTable'[g] = fdTable[g]
  BY <1>1, <1>3, <1>4, <1>5, TableDelete
<1>8. Types'
  BY <1>1, <1>5, <1>6, <1>7 DEF Types
<1>9. EdgeInv'
  <2> SUFFICES ASSUME NEW g \in Fds, NEW file \in Files, fdTable'[g] = file, Readable(file)'
               PROVE  file \in spent' \/ Has(ready', file) \/ Has(events', g)
    BY DEF EdgeInv
  <2>1. g # r /\ fdTable[g] = file /\ c # NoConn
    BY <1>4, <1>7, FilesFacts
  <2>2. file # c
    BY <1>1, <1>4, <2>1 DEF TableInv
  <2> QED
    BY <1>5, <1>6, <1>7, <2>1, <2>2
<1> QED
  BY <1>5, <1>7, <1>8, <1>9 DEF ServiceInv

\* At the end of the stream nothing is left to be read.
LEMMA CloseKeeps ==
  ASSUME ServiceInv, NEW f \in Fds, ServeClosed(f)
  PROVE  ServiceInv'
<1>1. Types /\ TableInv /\ CountInv /\ EdgeInv /\ ReadInv /\ OneOrder
  BY DEF ServiceInv
<1>2. /\ pc = "serve" /\ Head(events) = f /\ EndOfStream(f) /\ deleteSocketRec(f) /\ EventDone
      /\ UNCHANGED <<backlog, peer, sent, read, got, spent, dropped>>
  BY DEF ServeClosed
<1>3. PICK c \in Conns : fdTable[f] = c
  BY <1>2 DEF EndOfStream, Refers
<1>4. /\ events' \in Seq(Fds) /\ pc' \in {"wait", "serve", "dead"}
      /\ pc' = "serve" => events' # <<>>
      /\ pc' = "wait" => events' = <<>>
      /\ \A g : Has(events, g) /\ g # f => Has(events', g)
  BY <1>1, <1>2, DoneFacts
<1>5. /\ TableInv'
      /\ records' \in Seq(Fds) /\ fdTable' \in [Fds -> Files \cup {NoConn}]
      /\ interest' \subseteq Files /\ ready' \in Seq(Files)
      /\ \A file \in Files \ {c} : Has(ready, file) => Has(ready', file)
      /\ fdTable'[f] = NoConn /\ \A g \in Fds \ {f} : fdTable'[g] = fdTable[g]
  BY <1>1, <1>2, <1>3, TableDelete
<1>6. Types'
  BY <1>1, <1>2, <1>4, <1>5 DEF Types
<1>7. CountInv'
  BY <1>1, <1>2 DEF CountInv, Unread
<1>8. \A file \in Files : Readable(file)' <=> Readable(file)
  BY <1>2 DEF Readable, Unread
<1>9. EdgeInv'
  <2> SUFFICES ASSUME NEW g \in Fds, NEW file \in Files, fdTable'[g] = file, Readable(file)'
               PROVE  file \in spent' \/ Has(ready', file) \/ Has(events', g)
    BY DEF EdgeInv
  <2>1. g # f /\ fdTable[g] = file /\ c # NoConn
    BY <1>5, FilesFacts
  <2>2. file # c
    BY <1>1, <1>3, <2>1 DEF TableInv
  <2>3. file \in spent \/ Has(ready, file) \/ Has(events, g)
    BY <1>1, <1>2, <1>8, <2>1 DEF EdgeInv
  <2> QED
    BY <1>2, <1>4, <1>5, <2>1, <2>2, <2>3
<1>10. ReadInv' /\ OneOrder'
  BY <1>1, <1>2, OrderSame
<1> QED
  BY <1>5, <1>6, <1>7, <1>9, <1>10 DEF ServiceInv

-----------------------------------------------------------------------------
(* The steps of the clients.                                               *)

\* Something new at a file puts it on the ready list, unless epoll does not watch it.
LEMMA ArrivesFacts ==
  ASSUME Types, TableInv, NEW file \in Files, Arrives(file)
  PROVE  /\ ready' \in Seq(Files) /\ spent' \subseteq Files /\ spent \subseteq spent'
         /\ Readable(file) => file \in spent'
         /\ \A x : Has(ready', x) => x \in interest
         /\ \A x : Has(ready, x) => Has(ready', x)
         /\ file \in interest => Has(ready', file)
         /\ UNCHANGED <<pc, events, records, fdTable, interest, read, got, dropped>>
<1>1. /\ ready' = IF file \in interest /\ file \notin Range(ready) THEN Append(ready, file) ELSE ready
      /\ spent' = IF Readable(file) THEN spent \cup {file} ELSE spent
      /\ UNCHANGED <<pc, events, records, fdTable, interest, read, got, dropped>>
  BY DEF Arrives, Wake, srvVars
<1>2. ready \in Seq(Files) /\ spent \subseteq Files /\ \A x : Has(ready, x) => x \in interest
  BY DEF Types, TableInv
<1>3. file \in Range(ready) <=> Has(ready, file)
  BY RangeHas
<1>4. /\ Append(ready, file) \in Seq(Files)
      /\ \A x : Has(Append(ready, file), x) <=> Has(ready, x) \/ x = file
  BY <1>2, AppendToDistinct
<1> QED
  BY <1>1, <1>2, <1>3, <1>4

\* So it can be read and is on the list; nothing else changes.
LEMMA ArrivesEdges ==
  ASSUME Types, TableInv, EdgeInv, NEW file \in Files, Arrives(file),
         \A x \in Files : x # file => (Readable(x)' <=> Readable(x))
  PROVE  EdgeInv'
<1>1. /\ spent \subseteq spent'
      /\ \A x : Has(ready, x) => Has(ready', x)
      /\ file \in interest => Has(ready', file)
      /\ UNCHANGED <<pc, events, fdTable>>
  BY ArrivesFacts
<1> SUFFICES ASSUME NEW f \in Fds, NEW x \in Files, fdTable'[f] = x, Readable(x)'
             PROVE  x \in spent' \/ Has(ready', x) \/ Has(events', f) \/ pc' = "dead"
  BY DEF EdgeInv
<1>2. fdTable[f] = x
  BY <1>1
<1>3. CASE x = file
  BY <1>1, <1>2, <1>3 DEF TableInv, Held
<1>4. CASE x # file
  BY <1>1, <1>2, <1>4 DEF EdgeInv
<1> QED
  BY <1>3, <1>4

\* A step of a client that only its own file sees.
LEMMA ClientKeeps ==
  ASSUME ServiceInv, NEW c \in Conns, Arrives(c), backlog' = backlog,
         peer' \in [Conns -> PeerStates], sent' \in [Conns -> Nat],
         peer[c] # "none" /\ peer'[c] # "none",
         \A d \in Conns : d # c => peer'[d] = peer[d] /\ sent'[d] = sent[d],
         \/ sent'[c] = sent[c]
         \/ sent'[c] = sent[c] + 1 /\ peer'[c] \notin Gone
  PROVE  ServiceInv'
<1>1. Types /\ TableInv /\ CountInv /\ EdgeInv /\ ReadInv /\ OneOrder
  BY DEF ServiceInv
<1>2. c \in Files /\ c # Listener
  BY FilesFacts
<1>3. /\ ready' \in Seq(Files) /\ spent' \subseteq Files /\ spent \subseteq spent'
      /\ Readable(c) => c \in spent'
      /\ \A x : Has(ready', x) => x \in interest
      /\ UNCHANGED <<pc, events, records, fdTable, interest, read, got, dropped>>
  BY <1>1, <1>2, ArrivesFacts
<1>4. \A d \in Conns : read[d] \in Nat /\ sent[d] \in Nat /\ read[d] <= sent[d] /\ sent'[d] \in Nat
  BY <1>1 DEF Types
<1>5. \A d \in Conns : read'[d] <= sent'[d]
  BY <1>3, <1>4
<1>6. Types'
  BY <1>1, <1>3, <1>5 DEF Types
<1>7. TableInv'
  BY <1>1, <1>3, TableSame
<1>8. \A x \in Files : x # c => (Readable(x)' <=> Readable(x))
  <2>1. \A x \in Conns : x # c => Unread(x)' = Unread(x)
    BY <1>3 DEF Unread
  <2> QED
    BY <2>1, FilesFacts DEF Readable
<1>9. EdgeInv'
  BY <1>1, <1>2, <1>8, ArrivesEdges
<1>10. CountInv'
  <2>1. ASSUME NEW d \in Conns, Unread(d)' > 0, Unread(d)' > 1 \/ peer'[d] \in Gone
        PROVE  d \in spent'
    <3>1. CASE d # c
      <4>1. Unread(d)' = Unread(d) /\ peer'[d] = peer[d]
        BY <1>3, <3>1 DEF Unread
      <4> QED
        BY <1>1, <1>3, <2>1, <4>1 DEF CountInv
    <3>2. CASE d = c
      <4>1. Unread(c) > 0
        <5>1. Unread(c) = sent[c] - read[c] /\ Unread(c)' = sent'[c] - read[c]
          BY <1>3 DEF Unread
        <5>2. sent'[c] = sent[c] \/ Unread(c)' > 1
          BY <2>1, <3>2
        <5> QED
          BY <1>4, <2>1, <3>2, <5>1, <5>2
      <4>2. Readable(c)
        BY <1>2, <4>1 DEF Readable
      <4> QED
        BY <1>3, <3>2, <4>2
    <3> QED
      BY <3>1, <3>2
  <2>2. Len(backlog') > 1 => Listener \in spent'
    BY <1>1, <1>3 DEF CountInv
  <2> QED
    BY <2>1, <2>2 DEF CountInv
<1>11. ReadInv' /\ OneOrder'
  BY <1>1, <1>3, OrderSame
<1> QED
  BY <1>6, <1>7, <1>9, <1>10, <1>11 DEF ServiceInv

\* A new connection is behind all that wait.
LEMMA ConnectKeeps ==
  ASSUME ServiceInv, NEW c \in Conns, Connect(c)
  PROVE  ServiceInv'
<1>1. Types /\ TableInv /\ CountInv /\ EdgeInv /\ ReadInv /\ OneOrder
  BY DEF ServiceInv
<1>2. /\ peer[c] = "none" /\ peer' = [peer EXCEPT ![c] = "up"] /\ backlog' = Append(backlog, c)
      /\ Arrives(Listener) /\ sent' = sent
  BY DEF Connect
<1>3. /\ ready' \in Seq(Files) /\ spent' \subseteq Files /\ spent \subseteq spent'
      /\ Readable(Listener) => Listener \in spent'
      /\ \A x : Has(ready', x) => x \in interest
      /\ UNCHANGED <<pc, events, records, fdTable, interest, read, got, dropped>>
  BY <1>1, <1>2, FilesFacts, ArrivesFacts
<1>4. ~Has(backlog, c) /\ ~Held(c) /\ c \notin dropped
  BY <1>1, <1>2 DEF TableInv
<1>5. /\ backlog' \in Seq(Conns) /\ Distinct(backlog')
      /\ \A x : Has(backlog', x) <=> Has(backlog, x) \/ x = c
      /\ backlog \in Seq(Conns)
  BY <1>1, <1>2, <1>4, AppendToDistinct DEF Types, TableInv
<1>6. /\ peer' \in [Conns -> PeerStates] /\ peer'[c] = "up"
      /\ \A d \in Conns : d # c => peer'[d] = peer[d]
  BY <1>1, <1>2 DEF Types, PeerStates
<1>7. Types'
  BY <1>1, <1>2, <1>3, <1>5, <1>6 DEF Types
<1>8. TableInv'
  <2>1. \A file : Held(file)' <=> Held(file)
    BY <1>3 DEF Held
  <2>2. /\ \A d \in Conns : Has(backlog', d) => ~Held(d)'
        /\ \A d \in Conns : Has(backlog', d) \/ Held(d)' \/ d \in dropped' => peer'[d] # "none"
        /\ \A d \in Conns : d \in dropped' => ~Held(d)' /\ ~Has(backlog', d)
    BY <1>1, <1>3, <1>4, <1>5, <1>6, <2>1 DEF TableInv
  <2>3. \A file \in Files : file \in interest' <=> Held(file)'
    BY <1>1, <1>3, <2>1 DEF TableInv
  <2> QED
    BY <1>1, <1>3, <1>5, <2>2, <2>3 DEF TableInv
<1>9. \A x \in Files : x # Listener => (Readable(x)' <=> Readable(x))
  <2>1. \A x \in Conns : Unread(x)' = Unread(x) /\ (peer'[x] \in Gone <=> peer[x] \in Gone)
    BY <1>2, <1>3, <1>6 DEF Unread, Gone
  <2> QED
    BY <2>1, FilesFacts DEF Readable
<1>10. EdgeInv'
  BY <1>1, <1>2, <1>9, FilesFacts, ArrivesEdges
<1>11. CountInv'
  <2>1. \A d \in Conns : Unread(d)' = Unread(d) /\ (peer'[d] \in Gone => peer[d] \in Gone)
    BY <1>2, <1>3, <1>6 DEF Unread, Gone
  <2>2. Len(backlog') > 1 => Listener \in spent'
    <3>1. Len(backlog') = Len(backlog) + 1 /\ Len(backlog) \in Nat
      BY <1>2, <1>5, AppendProperties, LenProperties
    <3>2. Len(backlog') > 1 => backlog # <<>>
      BY <3>1, EmptySeq
    <3> QED
      BY <1>3, <3>2 DEF Readable
  <2> QED
    BY <1>1, <1>3, <2>1, <2>2 DEF CountInv
<1>12. ReadInv' /\ OneOrder'
  BY <1>1, <1>3, OrderSame
<1> QED
  BY <1>7, <1>8, <1>10, <1>11, <1>12 DEF ServiceInv

\* Every step keeps the invariant.
LEMMA ServiceKeeps == ServiceInv /\ [Next]_vars => ServiceInv'
<1> SUFFICES ASSUME ServiceInv, [Next]_vars PROVE ServiceInv'
  OBVIOUS
<1>1. /\ peer \in [Conns -> PeerStates] /\ sent \in [Conns -> Nat]
      /\ \A c \in Conns : Pending(c) \/ Held(c) => peer[c] # "none"
  <2>1. \A c \in Conns : Pending(c) => Has(backlog, c)
    BY RangeHas DEF Pending
  <2> QED
    BY <2>1 DEF ServiceInv, Types, TableInv
<1>2. ASSUME NEW c \in Conns, SendMessage(c) PROVE ServiceInv'
  <2>1. /\ peer[c] = "up" /\ sent' = [sent EXCEPT ![c] = @ + 1] /\ Arrives(c)
        /\ UNCHANGED <<backlog, peer>>
    BY <1>2 DEF SendMessage
  <2>2. sent' \in [Conns -> Nat] /\ sent'[c] = sent[c] + 1 /\ peer'[c] \notin Gone
        /\ \A d \in Conns : d # c => sent'[d] = sent[d]
    BY <1>1, <2>1 DEF Gone
  <2> QED
    BY <1>1, <2>1, <2>2, ClientKeeps
<1>3. ASSUME NEW c \in Conns, Shutdown(c) PROVE ServiceInv'
  <2>1. /\ peer[c] = "up" /\ Arrives(c) /\ UNCHANGED <<backlog, sent>>
    BY <1>3 DEF Shutdown
  <2>2. PICK how \in {"fin", "reset"} : peer' = [peer EXCEPT ![c] = how]
    BY <1>3 DEF Shutdown
  <2>3. peer' \in [Conns -> PeerStates] /\ peer'[c] # "none" /\ sent' \in [Conns -> Nat]
        /\ \A d \in Conns : d # c => peer'[d] = peer[d]
    BY <1>1, <2>1, <2>2 DEF PeerStates
  <2> QED
    BY <2>1, <2>3, ClientKeeps
<1>4. ASSUME NEW c \in Conns, ResetArrives(c) PROVE ServiceInv'
  <2>1. /\ peer[c] = "finw" /\ peer' = [peer EXCEPT ![c] = "broken"]
        /\ Arrives(c) /\ UNCHANGED <<backlog, sent>>
    BY <1>4 DEF ResetArrives
  <2>2. peer' \in [Conns -> PeerStates] /\ peer'[c] # "none" /\ sent' \in [Conns -> Nat]
        /\ \A d \in Conns : d # c => peer'[d] = peer[d]
    BY <1>1, <2>1 DEF PeerStates
  <2> QED
    BY <2>1, <2>2, ClientKeeps
<1>5. CASE UNCHANGED vars
  <2>1. UNCHANGED <<pc, events, records, fdTable, interest, read, got, dropped, ready, backlog,
                    peer, sent, spent>>
    BY <1>5 DEF vars, srvVars
  <2>2. Types'
    BY <2>1 DEF ServiceInv, Types
  <2>3. TableInv'
    BY <2>1, TableSame DEF ServiceInv, TableInv
  <2>4. CountInv' /\ EdgeInv'
    BY <2>1 DEF ServiceInv, CountInv, EdgeInv, Readable, Unread
  <2>5. ReadInv' /\ OneOrder'
    BY <2>1, OrderSame DEF ServiceInv
  <2> QED
    BY <2>2, <2>3, <2>4, <2>5 DEF ServiceInv
<1> QED
  BY <1>2, <1>3, <1>4, <1>5, WaitKeeps, AcceptKeeps, FailKeeps, RelayKeeps, CloseKeeps,
     StopKeeps, KilledKeeps, ConnectKeeps DEF Next, ServiceStep

-----------------------------------------------------------------------------
(* The theorems.                                                           *)

\* The inductive invariant holds in every state.
THEOREM ServiceInvariant == Spec => []ServiceInv
  BY ServiceStarts, ServiceKeeps, PTL DEF Spec

\* The list of socket.c, the descriptor table and the epoll instance agree, whatever a
\* broadcast closes and whichever events are outstanding.
THEOREM RecordsStayWatched == Spec => []RecordsAreWatched
<1>1. ASSUME ServiceInv PROVE RecordsAreWatched
  <2>1. Types /\ TableInv
    BY <1>1 DEF ServiceInv
  <2>2. \A f : f \in Range(records) <=> f \in Fds /\ fdTable[f] # NoConn
    BY <2>1, RangeHas DEF TableInv
  <2>3. Range(records) = {f \in Fds : fdTable[f] # NoConn}
    BY <2>2
  <2>4. IsInjective(records)
    BY <2>1 DEF TableInv, Distinct, IsInjective
  <2>5. interest = {fdTable[f] : f \in Range(records)}
    <3>1. ASSUME NEW file \in interest PROVE \E f \in Range(records) : file = fdTable[f]
      <4>1. file \in Files /\ file # NoConn
        BY <2>1, FilesFacts DEF Types
      <4>2. PICK f \in Fds : fdTable[f] = file
        BY <2>1, <4>1 DEF TableInv, Held
      <4> QED
        BY <2>2, <4>1, <4>2
    <3>2. ASSUME NEW f \in Range(records) PROVE fdTable[f] \in interest
      <4>1. f \in Fds /\ fdTable[f] \in Files
        BY <2>1, <2>2 DEF Types
      <4>2. PICK file : file = fdTable[f]
        OBVIOUS
      <4> QED
        BY <2>1, <4>1, <4>2 DEF TableInv, Held
    <3> QED
      BY <3>1, <3>2
  <2>6. Range(ready) \subseteq interest
    BY <2>1, RangeHas DEF TableInv
  <2> QED
    BY <2>1, <2>3, <2>4, <2>5, <2>6 DEF RecordsAreWatched, TableInv
<1> QED
  BY <1>1, ServiceInvariant, PTL

\* What can be read will be, unless one of the three causes NoEdgeLost names used its
\* edge up: edge-triggered epoll with one read and one accept() for each event loses
\* nothing else.
THEOREM EdgesStay == Spec => []NoEdgeLost
<1>1. ASSUME ServiceInv PROVE NoEdgeLost
  <2>1. Types /\ TableInv /\ EdgeInv
    BY <1>1 DEF ServiceInv
  <2> SUFFICES ASSUME NEW f \in Range(records), Readable(fdTable[f])
               PROVE  \/ fdTable[f] \in Range(ready) \cup spent
                      \/ f \in Range(events) \/ pc = "dead"
    BY DEF NoEdgeLost
  <2>2. f \in Fds /\ fdTable[f] \in Files
    BY <2>1, RangeHas DEF TableInv, Types
  <2>3. fdTable[f] \in spent \/ Has(ready, fdTable[f]) \/ Has(events, f) \/ pc = "dead"
    BY <2>1, <2>2 DEF EdgeInv
  <2> QED
    BY <2>3, RangeHas
<1> QED
  BY <1>1, ServiceInvariant, PTL

\* All clients see one conversation.
THEOREM OneOrderForAll == Spec => []OneOrder
<1>1. ServiceInv => OneOrder
  BY DEF ServiceInv
<1> QED
  BY <1>1, ServiceInvariant, PTL

-----------------------------------------------------------------------------
(* Closing.                                                                *)

\* A descriptor only gets a new meaning where a step says so.
LEMMA TableMoves ==
  ASSUME ServiceInv, [Next]_vars, NEW f \in Fds, NEW c \in Conns,
         fdTable[f] = c, fdTable'[f] # c
  PROVE  \E g \in Fds : \/ ServeClosed(g)
                        \/ \E k \in 2 .. Len(records) : RelayStopsAtError(g, k)
<1>1. Types /\ FreeFds \subseteq Fds /\ c # NoConn
  BY FilesFacts DEF ServiceInv, FreeFds
<1>2. ~EpollWait /\ ~AcceptFailed /\ ~UNCHANGED vars
  BY DEF EpollWait, AcceptFailed, vars, srvVars
<1>3. ~Accept
  <2> SUFFICES ASSUME Accept PROVE FALSE
    OBVIOUS
  <2>1. PICK g \in FreeFds : fdTable' = [fdTable EXCEPT ![g] = Head(backlog)]
    BY DEF Accept
  <2>2. g # f
    BY <1>1 DEF FreeFds
  <2> QED
    BY <1>1, <2>1, <2>2 DEF Types
<1>4. \A k : \A g \in Fds : ~Relay(g) /\ ~RelayIsKilled(g, k)
  BY DEF Relay, RelayIsKilled
<1>5. \A d \in Conns : ~Connect(d) /\ ~SendMessage(d) /\ ~Shutdown(d) /\ ~ResetArrives(d)
  BY DEF Connect, SendMessage, Shutdown, ResetArrives, Arrives, srvVars
<1> QED
  BY <1>2, <1>3, <1>4, <1>5 DEF Next, ServiceStep

\* Closing a descriptor that refers to another connection leaves this one open.
LEMMA DeleteClosesOne ==
  ASSUME Types, NEW r \in Fds, deleteSocketRec(r), NEW f \in Fds, fdTable'[f] # fdTable[f]
  PROVE  f = r
BY DEF deleteSocketRec, Types

\* A step that takes a connection from the descriptor table has one of two causes.
LEMMA ClosingStep ==
  ASSUME ServiceInv, [Next]_vars, NEW c \in Conns, Held(c), ~Held(c)'
  PROVE  \/ peer[c] \in Gone /\ Unread(c) = 0
         \/ c \in dropped' \ dropped /\ (peer[c] = "reset" \/ c \in Slow)
<1>1. Types /\ TableInv
  BY DEF ServiceInv
<1>2. PICK f \in Fds : fdTable[f] = c /\ fdTable'[f] # c
  BY DEF Held
<1>3. PICK g \in Fds : \/ ServeClosed(g)
                       \/ \E k \in 2 .. Len(records) : RelayStopsAtError(g, k)
  BY <1>2, TableMoves
<1>4. CASE ServeClosed(g)
  <2>1. deleteSocketRec(g) /\ EndOfStream(g)
    BY <1>4 DEF ServeClosed
  <2>2. f = g
    BY <1>1, <1>2, <2>1, DeleteClosesOne
  <2> QED
    BY <1>2, <2>1, <2>2 DEF EndOfStream, Refers, Gone
<1>5. CASE \E k \in 2 .. Len(records) : RelayStopsAtError(g, k)
  <2>1. PICK k \in 2 .. Len(records) : RelayStopsAtError(g, k)
    BY <1>5
  <2>2. PICK r : r = records[k]
    OBVIOUS
  <2>3. WriteFails(g, k) /\ deleteSocketRec(r) /\ dropped' = dropped \cup {fdTable[r]}
    BY <2>1, <2>2 DEF RelayStopsAtError
  <2>4. PICK d \in Conns : r \in Fds /\ fdTable[r] = d /\ (peer[d] = "reset" \/ d \in Slow)
    BY <1>1, <2>2, <2>3, FailingRecord
  <2>5. f = r /\ d = c
    BY <1>1, <1>2, <2>3, <2>4, DeleteClosesOne
  <2>6. c \notin dropped
    BY <1>1 DEF TableInv
  <2> QED
    BY <2>3, <2>4, <2>5, <2>6
<1> QED
  BY <1>3, <1>4, <1>5

\* A connection is closed when all its client sent was read and its end was seen, or
\* because a write to it failed: an event left over for a descriptor that was closed and
\* given to a new connection in the same round never closes the new one.
THEOREM ClosesForCause == Spec => ClosedForCause
<1> DEFINE Cause ==
      \A c \in Conns : Held(c) /\ ~Held(c)' =>
        \/ peer[c] \in Gone /\ Unread(c) = 0
        \/ c \in dropped' \ dropped /\ (peer[c] = "reset" \/ c \in Slow)
<1>1. ServiceInv /\ [Next]_vars => [Cause]_vars
  BY ClosingStep
<1> QED
  BY <1>1, ServiceInvariant, PTL DEF Spec, ClosedForCause
===============================================================================
