------------------------------ MODULE TcpProofs ------------------------------
(***************************************************************************)
(* Proofs about Tcp_client.c: who owns the slots of the table (TcpTable),  *)
(* and what becomes of the packets that are read (TcpPackets).             *)
(***************************************************************************)
EXTENDS TcpTable, TcpPackets, SequenceFacts, FiniteSetTheorems, TLAPS

-----------------------------------------------------------------------------
(* The table.                                                              *)

SlotIndices == {-1} \cup 1 .. NumSlots
TableRecords == [of : Callers \cup {Listener, Nobody}, index : SlotIndices]

TableTypes ==
  /\ head \in {"null", "up", "freed"}
  /\ list \in Seq(TableRecords) /\ (head = "null" => list = <<>>)
  /\ DOMAIN slots \subseteq 1 .. NumSlots /\ DOMAIN open \subseteq Fds
  /\ backlog \in Seq(Callers)

\* Slot i, in table ss, leads to the descriptor of who, or to none if who is nobody.
Leads(ss, os, i, who) ==
  /\ i \in DOMAIN ss
  /\ IF who = Nobody THEN ss[i] = -1 ELSE ss[i] \in DOMAIN os /\ os[ss[i]] = who

\* SlotsAreOwned, for a list, a table, open descriptors, and the connection to the
\* server if it is made; and no two slots have the same descriptor.
Own(l, ss, os, made, ci) ==
  /\ \A k \in DOMAIN l : l[k].index # -1 => Leads(ss, os, l[k].index, l[k].of)
  /\ made => Leads(ss, os, ci, Server)
  /\ \A j, k \in DOMAIN l : l[j].index = l[k].index => j = k \/ l[j].index = -1
  /\ made => \A k \in DOMAIN l : l[k].index # ci
  /\ \A i \in DOMAIN ss : (made /\ ci = i) \/ \E k \in DOMAIN l : l[k].index = i
  /\ \A i, j \in DOMAIN ss : ss[i] = ss[j] => i = j \/ ss[i] = -1

OwnInv == inFront = -1 => Own(list, slots, open, conn = "up", connIndex)

TableInv == TableTypes /\ OwnInv

\* The lowest descriptor of some is one of them.
LEMMA LowestIsOne ==
  ASSUME NEW fds, fds \subseteq Fds, fds # {}
  PROVE  LowestFd(fds) \in fds
<1>1. fds \subseteq Nat
  BY TableAssumption DEF Fds
<1>2. PICK n \in fds : \A m \in fds : n <= m
  BY <1>1, LeastNat
<1> QED
  BY <1>2 DEF LowestFd

\* A connection made takes a free slot and a descriptor that was not open.
LEMMA OwnConnects ==
  ASSUME NEW l, NEW ss, NEW os, NEW x, Own(l, ss, os, FALSE, x),
         DOMAIN os \subseteq Fds, DOMAIN ss \subseteq 1 .. NumSlots,
         NEW f \in Fds, f \notin DOMAIN os, NEW i, i \notin DOMAIN ss, i # -1,
         NEW st, st = With(ss, i, f), NEW ot, ot = With(os, f, Server)
  PROVE  Own(l, st, ot, TRUE, i)
<1>1. /\ DOMAIN st = DOMAIN ss \cup {i} /\ st[i] = f
      /\ \A y \in DOMAIN ss : st[y] = ss[y]
  BY DEF With
<1>2. /\ DOMAIN ot = DOMAIN os \cup {f} /\ ot[f] = Server
      /\ \A y \in DOMAIN os : ot[y] = os[y]
  BY DEF With
<1>3. f # -1 /\ Server # Nobody /\ -1 \notin DOMAIN ss
  BY TableAssumption DEF Fds
<1>4. ASSUME NEW k \in DOMAIN l, l[k].index # -1
      PROVE  Leads(st, ot, l[k].index, l[k].of) /\ l[k].index # i
  BY <1>1, <1>2, <1>4 DEF Own, Leads
<1>5. Leads(st, ot, i, Server)
  BY <1>1, <1>2, <1>3 DEF Leads
<1>6. ASSUME NEW y \in DOMAIN ss PROVE ss[y] # f
  <2>1. PICK k \in DOMAIN l : l[k].index = y
    BY DEF Own
  <2> QED
    BY <2>1, <1>3 DEF Own, Leads
<1>7. \A j, k \in DOMAIN st : st[j] = st[k] => j = k \/ st[j] = -1
  BY <1>1, <1>6 DEF Own
<1>8. \A k \in DOMAIN l : l[k].index # i
  BY <1>4
<1> QED
  BY <1>1, <1>4, <1>5, <1>7, <1>8 DEF Own

\* What is added behind the last record: nothing else in the list changes.
Adds(l, lt, r, n) ==
  /\ DOMAIN lt = DOMAIN l \cup {n} /\ n \notin DOMAIN l /\ lt[n] = r
  /\ \A k \in DOMAIN l : lt[k] = l[k]

\* A record added with a free slot, for a descriptor that was not open or for none.
LEMMA OwnAdds ==
  ASSUME NEW l, NEW ss, NEW os, NEW made \in BOOLEAN, NEW ci, Own(l, ss, os, made, ci),
         DOMAIN os \subseteq Fds, DOMAIN ss \subseteq 1 .. NumSlots,
         NEW i, i \notin DOMAIN ss, NEW who, NEW f, NEW lt, NEW n,
         i # -1, Adds(l, lt, [of |-> who, index |-> i], n),
         NEW st, st = With(ss, i, f),
         NEW ot,
         \/ who = Nobody /\ f = -1 /\ ot = os
         \/ who # Nobody /\ f \in Fds /\ f \notin DOMAIN os /\ ot = With(os, f, who)
  PROVE  Own(lt, st, ot, made, ci)
<1>1. /\ DOMAIN st = DOMAIN ss \cup {i} /\ st[i] = f
      /\ \A y \in DOMAIN ss : st[y] = ss[y]
  BY DEF With
<1>2. /\ DOMAIN os \subseteq DOMAIN ot
      /\ \A y \in DOMAIN os : ot[y] = os[y]
      /\ who # Nobody => f \in DOMAIN ot /\ ot[f] = who /\ f # -1
  BY DEF With, Fds
<1>3. Server # Nobody /\ -1 \notin DOMAIN ss
  BY TableAssumption
<1>4. ASSUME NEW k \in DOMAIN l, l[k].index # -1
      PROVE  Leads(st, ot, l[k].index, l[k].of) /\ l[k].index # i
  BY <1>1, <1>2, <1>4 DEF Own, Leads
<1>5. Leads(st, ot, i, who)
  BY <1>1, <1>2 DEF Leads
<1>6. made => Leads(st, ot, ci, Server) /\ ci # i
  BY <1>1, <1>2, <1>3 DEF Own, Leads
<1>7. ASSUME NEW y \in DOMAIN ss, f # -1 PROVE ss[y] # f
  <2>1. f \notin DOMAIN os
    BY <1>7
  <2>2. (made /\ ci = y) \/ \E k \in DOMAIN l : l[k].index = y
    BY DEF Own
  <2>3. CASE made /\ ci = y
    BY <2>1, <2>3, <1>3 DEF Own, Leads
  <2>4. ASSUME NEW k \in DOMAIN l, l[k].index = y PROVE ss[y] # f
    BY <2>1, <2>4, <1>3, <1>7 DEF Own, Leads
  <2> QED
    BY <2>2, <2>3, <2>4
<1>8. \A j, k \in DOMAIN st : st[j] = st[k] => j = k \/ st[j] = -1
  BY <1>1, <1>7 DEF Own
<1>9. lt[n].index = i /\ lt[n].of = who
  BY DEF Adds
<1>10. \A k \in DOMAIN lt : lt[k].index # -1 => Leads(st, ot, lt[k].index, lt[k].of)
  BY <1>4, <1>5, <1>9 DEF Adds
<1>11. \A j, k \in DOMAIN lt : lt[j].index = lt[k].index => j = k \/ lt[j].index = -1
  BY <1>4, <1>9 DEF Adds, Own
<1>12. made => \A k \in DOMAIN lt : lt[k].index # ci
  BY <1>6, <1>9 DEF Adds, Own
<1>13. \A y \in DOMAIN st : (made /\ ci = y) \/ \E k \in DOMAIN lt : lt[k].index = y
  BY <1>1, <1>9 DEF Adds, Own
<1> QED
  BY <1>6, <1>8, <1>10, <1>11, <1>12, <1>13 DEF Own

\* A record added without a slot, whether or not it has a descriptor.
LEMMA OwnAddsNone ==
  ASSUME NEW l, NEW ss, NEW os, NEW made \in BOOLEAN, NEW ci, Own(l, ss, os, made, ci),
         NEW who, NEW f, NEW lt, NEW n, Adds(l, lt, [of |-> who, index |-> -1], n),
         NEW ot, ot = os \/ (f \notin DOMAIN os /\ ot = With(os, f, who)),
         DOMAIN ss \subseteq 1 .. NumSlots
  PROVE  Own(lt, ss, ot, made, ci)
<1>1. DOMAIN os \subseteq DOMAIN ot /\ \A y \in DOMAIN os : ot[y] = os[y]
  BY DEF With
<1>2. lt[n].index = -1 /\ -1 \notin DOMAIN ss
  BY DEF Adds
<1>3. \A i, w : Leads(ss, os, i, w) => Leads(ss, ot, i, w)
  BY <1>1 DEF Leads
<1>4. \A k \in DOMAIN lt : lt[k].index # -1 => Leads(ss, ot, lt[k].index, lt[k].of)
  BY <1>2, <1>3 DEF Adds, Own
<1>5. \A j, k \in DOMAIN lt : lt[j].index = lt[k].index => j = k \/ lt[j].index = -1
  BY <1>2 DEF Adds, Own
<1>6. made => ci \in DOMAIN ss
  BY DEF Own, Leads
<1>7. made => \A k \in DOMAIN lt : lt[k].index # ci
  BY <1>2, <1>6 DEF Adds, Own
<1>8. \A y \in DOMAIN ss : (made /\ ci = y) \/ \E k \in DOMAIN lt : lt[k].index = y
  BY DEF Adds, Own
<1> QED
  BY <1>3, <1>4, <1>5, <1>7, <1>8 DEF Own

\* The connection to the server gives back its slot and its descriptor.
LEMMA OwnDisconnects ==
  ASSUME NEW l, NEW ss, NEW os, NEW ci, Own(l, ss, os, TRUE, ci), NEW x,
         DOMAIN os \subseteq Fds, DOMAIN ss \subseteq 1 .. NumSlots,
         NEW st, st = Without(ss, ci), NEW ot, ot = Without(os, ss[ci])
  PROVE  Own(l, st, ot, FALSE, x)
<1>1. DOMAIN st = DOMAIN ss \ {ci} /\ \A y \in DOMAIN st : st[y] = ss[y]
  BY DEF Without
<1>2. DOMAIN ot = DOMAIN os \ {ss[ci]} /\ \A y \in DOMAIN ot : ot[y] = os[y]
  BY DEF Without
<1>3. /\ ci \in DOMAIN ss /\ ss[ci] \in DOMAIN os /\ ss[ci] # -1
  BY TableAssumption DEF Own, Leads, Fds
<1>4. ASSUME NEW k \in DOMAIN l, l[k].index # -1
      PROVE  Leads(st, ot, l[k].index, l[k].of)
  <2>1. Leads(ss, os, l[k].index, l[k].of) /\ l[k].index # ci
    BY <1>4 DEF Own
  <2>2. ss[l[k].index] # ss[ci]
    BY <2>1, <1>3 DEF Own, Leads
  <2> QED
    BY <2>1, <2>2, <1>1, <1>2 DEF Leads
<1>5. \A y \in DOMAIN st : \E k \in DOMAIN l : l[k].index = y
  BY <1>1 DEF Own
<1>6. \A i, j \in DOMAIN st : st[i] = st[j] => i = j \/ st[i] = -1
  BY <1>1 DEF Own
<1> QED
  BY <1>4, <1>5, <1>6 DEF Own

\* What is taken out of the list: record n, whose place g skips.
TakesOut(l, lt, n) ==
  \E g : /\ n \in DOMAIN l
         /\ \A k \in DOMAIN lt : g[k] \in DOMAIN l \ {n} /\ lt[k] = l[g[k]]
         /\ \A j, k \in DOMAIN lt : g[j] = g[k] => j = k
         /\ \A k \in DOMAIN l \ {n} : \E j \in DOMAIN lt : lt[j] = l[k]

\* A record that is deleted gives back its slot and its descriptor.
LEMMA OwnDeletes ==
  ASSUME NEW l, NEW ss, NEW os, NEW made \in BOOLEAN, NEW ci, Own(l, ss, os, made, ci),
         DOMAIN ss \subseteq 1 .. NumSlots,
         NEW lt, NEW n, TakesOut(l, lt, n), l[n].index \in DOMAIN ss,
         NEW f, f = ss[l[n].index], f # -1,
         NEW st, st = Without(ss, l[n].index), NEW ot, ot = Without(os, f)
  PROVE  Own(lt, st, ot, made, ci)
<1>0. PICK i : i = l[n].index
  OBVIOUS
<1>1. DOMAIN st = DOMAIN ss \ {i} /\ \A y \in DOMAIN st : st[y] = ss[y]
  BY <1>0 DEF Without
<1>2. DOMAIN ot = DOMAIN os \ {f} /\ \A y \in DOMAIN ot : ot[y] = os[y]
  BY DEF Without
<1>3. i \in DOMAIN ss /\ ss[i] = f /\ f # -1 /\ i # -1 /\ n \in DOMAIN l
  BY <1>0 DEF TakesOut
<1>4. PICK g :
         /\ \A k \in DOMAIN lt : g[k] \in DOMAIN l \ {n} /\ lt[k] = l[g[k]]
         /\ \A j, k \in DOMAIN lt : g[j] = g[k] => j = k
         /\ \A k \in DOMAIN l \ {n} : \E j \in DOMAIN lt : lt[j] = l[k]
  BY DEF TakesOut
<1>5. ASSUME NEW y, NEW w, Leads(ss, os, y, w), y # i
      PROVE  Leads(st, ot, y, w)
  <2>1. y \in DOMAIN ss /\ ss[y] # f
    BY <1>3, <1>5 DEF Own, Leads
  <2> QED
    BY <2>1, <1>1, <1>2, <1>5 DEF Leads
<1>6. \A k \in DOMAIN l \ {n} : l[k].index # i
  BY <1>0, <1>3 DEF Own
<1>7. \A k \in DOMAIN lt : lt[k].index # -1 => Leads(st, ot, lt[k].index, lt[k].of)
  BY <1>4, <1>5, <1>6 DEF Own
<1>8. made => ci # i /\ Leads(st, ot, ci, Server)
  BY <1>0, <1>3, <1>5 DEF Own
<1>9. \A j, k \in DOMAIN lt : lt[j].index = lt[k].index => j = k \/ lt[j].index = -1
  BY <1>4 DEF Own
<1>10. made => \A k \in DOMAIN lt : lt[k].index # ci
  BY <1>4 DEF Own
<1>11. ASSUME NEW y \in DOMAIN st
       PROVE  (made /\ ci = y) \/ \E k \in DOMAIN lt : lt[k].index = y
  <2>1. y \in DOMAIN ss /\ y # i
    BY <1>1
  <2>2. ASSUME NEW k \in DOMAIN l, l[k].index = y PROVE \E j \in DOMAIN lt : lt[j].index = y
    <3>1. k # n
      BY <2>1, <2>2, <1>0
    <3> QED
      BY <3>1, <2>2, <1>4
  <2> QED
    BY <2>1, <2>2 DEF Own
<1>12. \A j, k \in DOMAIN st : st[j] = st[k] => j = k \/ st[j] = -1
  BY <1>1 DEF Own
<1> QED
  BY <1>7, <1>8, <1>9, <1>10, <1>11, <1>12 DEF Own

-----------------------------------------------------------------------------
(* The steps of the table.                                                 *)

\* tcp_connect_to_server, whether it succeeds or fails.
LEMMA ReconnectsKeeps ==
  ASSUME NEW ss, NEW os, NEW x, DOMAIN os \subseteq Fds, DOMAIN ss \subseteq 1 .. NumSlots,
         Reconnects(os, ss)
  PROVE  /\ DOMAIN slots' \subseteq 1 .. NumSlots /\ DOMAIN open' \subseteq Fds
         /\ Own(list, ss, os, FALSE, x) => Own(list, slots', open', conn' = "up", connIndex')
<1>1. CASE Connects(os, ss)
  <2>1. PICK f : f = LowestFd(Fds \ DOMAIN os)
    OBVIOUS
  <2>2. PICK i \in (1 .. NumSlots) \ DOMAIN ss : connIndex' = i /\ slots' = With(ss, i, f)
    BY <1>1, <2>1 DEF Connects
  <2>3. f \in Fds \ DOMAIN os /\ open' = With(os, f, Server) /\ conn' = "up"
    BY <1>1, <2>1, LowestIsOne DEF Connects
  <2>4. i # -1
    OBVIOUS
  <2>5. DOMAIN slots' \subseteq 1 .. NumSlots /\ DOMAIN open' \subseteq Fds
    BY <2>2, <2>3 DEF With
  <2>6. Own(list, ss, os, FALSE, x) => Own(list, slots', open', TRUE, i)
    BY <2>2, <2>3, <2>4, OwnConnects
  <2> QED
    BY <2>2, <2>3, <2>5, <2>6
<1>2. CASE ConnectFails(os, ss)
  <2>1. slots' = ss /\ open' = os /\ conn' = "timer"
    BY <1>2 DEF ConnectFails
  <2>2. Own(list, ss, os, FALSE, x) => Own(list, ss, os, FALSE, connIndex')
    BY DEF Own
  <2> QED
    BY <2>1, <2>2
<1> QED
  BY <1>1, <1>2 DEF Reconnects

\* The first connection, and those the timer makes.
LEMMA ConnectKeeps ==
  ASSUME TableInv, NewClient \/ TimerFires
  PROVE  TableInv'
<1>1. /\ Reconnects(open, slots) /\ conn # "up"
      /\ UNCHANGED <<head, list, backlog, inFront>>
  BY DEF NewClient, TimerFires
<1>2. /\ DOMAIN slots' \subseteq 1 .. NumSlots /\ DOMAIN open' \subseteq Fds
      /\ Own(list, slots, open, FALSE, connIndex) =>
           Own(list, slots', open', conn' = "up", connIndex')
  BY <1>1, ReconnectsKeeps DEF TableInv, TableTypes
<1>3. TableTypes'
  BY <1>1, <1>2 DEF TableInv, TableTypes
<1>4. (conn = "up") = FALSE
  BY <1>1
<1>5. OwnInv'
  BY <1>1, <1>2, <1>4 DEF TableInv, OwnInv
<1> QED
  BY <1>3, <1>5 DEF TableInv

\* The server closes: the slot and the descriptor are given back, and the connection
\* is made again.
LEMMA ServerClosesKeeps ==
  ASSUME TableInv, ServerCloses
  PROVE  TableInv'
<1>1. PICK st, ot : st = Without(slots, connIndex) /\ ot = Without(open, FdAt(connIndex))
  OBVIOUS
<1>2. Reconnects(ot, st) /\ conn = "up" /\ UNCHANGED <<head, list, backlog, inFront>>
  BY <1>1 DEF ServerCloses
<1>3. DOMAIN st \subseteq 1 .. NumSlots /\ DOMAIN ot \subseteq Fds
  BY <1>1 DEF Without, TableInv, TableTypes
<1>4. /\ DOMAIN slots' \subseteq 1 .. NumSlots /\ DOMAIN open' \subseteq Fds
      /\ Own(list, st, ot, FALSE, connIndex) =>
           Own(list, slots', open', conn' = "up", connIndex')
  BY <1>2, <1>3, ReconnectsKeeps
<1>5. TableTypes'
  BY <1>2, <1>4 DEF TableInv, TableTypes
<1>6. inFront = -1 => Own(list, st, ot, FALSE, connIndex)
  <2> SUFFICES ASSUME inFront = -1 PROVE Own(list, st, ot, FALSE, connIndex)
    OBVIOUS
  <2>1. Own(list, slots, open, TRUE, connIndex)
    BY <1>2 DEF TableInv, OwnInv
  <2>2. FdAt(connIndex) = slots[connIndex]
    BY <2>1 DEF Own, Leads, FdAt
  <2> QED
    BY <1>1, <2>1, <2>2, OwnDisconnects DEF TableInv, TableTypes
<1>7. OwnInv'
  BY <1>2, <1>4, <1>6 DEF OwnInv
<1> QED
  BY <1>5, <1>7 DEF TableInv

\* The listening socket, in an empty list.
LEMMA NewServerKeeps ==
  ASSUME TableInv, NewServer
  PROVE  TableInv'
<1>1. PICK f : f = LowestFd(FreeFds)
  OBVIOUS
<1>2. PICK i \in FreeSlots : slots' = With(slots, i, f) /\ list' = <<[of |-> Listener, index |-> i]>>
  BY <1>1 DEF NewServer
<1>3. /\ head = "null" /\ FreeFds # {} /\ head' = "up" /\ open' = With(open, f, Listener)
      /\ UNCHANGED <<conn, connIndex, backlog, inFront>>
  BY <1>1 DEF NewServer
<1>4. f \in Fds /\ f \notin DOMAIN open
  BY <1>1, <1>3, LowestIsOne DEF FreeFds
<1>5. i \in 1 .. NumSlots /\ i \notin DOMAIN slots /\ i # -1
  BY DEF FreeSlots
<1>6. list = <<>>
  BY <1>3 DEF TableInv, TableTypes
<1>7. [of |-> Listener, index |-> i] \in TableRecords
  BY <1>5 DEF TableRecords, SlotIndices
<1>8. TableTypes'
  BY <1>2, <1>3, <1>4, <1>5, <1>7 DEF TableInv, TableTypes, With
<1>9. Adds(list, list', [of |-> Listener, index |-> i], 1)
  BY <1>2, <1>6 DEF Adds
<1>10. Listener # Nobody
  BY TableAssumption
<1>11. OwnInv'
  BY <1>2, <1>3, <1>4, <1>5, <1>9, <1>10, OwnAdds DEF TableInv, TableTypes, OwnInv
<1> QED
  BY <1>8, <1>11 DEF TableInv

\* A record more, at the end.
LEMMA AppendAdds ==
  ASSUME NEW l \in Seq(TableRecords), NEW r \in TableRecords
  PROVE  Append(l, r) \in Seq(TableRecords) /\ Adds(l, Append(l, r), r, Len(l) + 1)
BY DEF Adds

\* A remote is accepted.
LEMMA AcceptsKeeps ==
  ASSUME TableInv, Accepts
  PROVE  TableInv'
<1>1. PICK f : f = LowestFd(FreeFds)
  OBVIOUS
<1>2. PICK who : who = Head(backlog)
  OBVIOUS
<1>3. /\ head = "up" /\ FreeFds # {} /\ head' = "up" /\ open' = With(open, f, who)
      /\ AddRecord(who, f) /\ backlog # <<>> /\ backlog' = Tail(backlog)
      /\ UNCHANGED <<conn, connIndex, inFront>>
  BY <1>1, <1>2 DEF Accepts
<1>4. f \in Fds /\ f \notin DOMAIN open
  BY <1>1, <1>3, LowestIsOne DEF FreeFds
<1>5. who \in Callers /\ backlog' \in Seq(Callers) /\ who # Nobody
  BY <1>2, <1>3, TableAssumption DEF TableInv, TableTypes
<1>6. DOMAIN open' \subseteq Fds
  BY <1>3, <1>4 DEF With, TableInv, TableTypes
<1>7. ASSUME NEW i \in FreeSlots, slots' = With(slots, i, f),
             list' = Append(list, [of |-> who, index |-> i])
      PROVE  TableInv'
  <2>1. i \in 1 .. NumSlots /\ i \notin DOMAIN slots /\ i # -1
    BY DEF FreeSlots
  <2>2. [of |-> who, index |-> i] \in TableRecords
    BY <1>5, <2>1 DEF TableRecords, SlotIndices
  <2>3. list' \in Seq(TableRecords) /\ Adds(list, list', [of |-> who, index |-> i], Len(list) + 1)
    BY <1>7, <2>2, AppendAdds DEF TableInv, TableTypes
  <2>4. TableTypes'
    BY <1>3, <1>5, <1>6, <1>7, <2>1, <2>3 DEF TableInv, TableTypes, With
  <2>5. OwnInv'
    BY <1>3, <1>4, <1>5, <1>7, <2>1, <2>3, OwnAdds DEF TableInv, TableTypes, OwnInv
  <2> QED
    BY <2>4, <2>5 DEF TableInv
<1>8. ASSUME slots' = slots, list' = Append(list, [of |-> who, index |-> -1])
      PROVE  TableInv'
  <2>1. [of |-> who, index |-> -1] \in TableRecords
    BY <1>5 DEF TableRecords, SlotIndices
  <2>2. list' \in Seq(TableRecords) /\ Adds(list, list', [of |-> who, index |-> -1], Len(list) + 1)
    BY <1>8, <2>1, AppendAdds DEF TableInv, TableTypes
  <2>3. TableTypes'
    BY <1>3, <1>5, <1>6, <1>8, <2>2 DEF TableInv, TableTypes
  <2>4. OwnInv'
    BY <1>3, <1>4, <1>8, <2>2, OwnAddsNone DEF TableInv, TableTypes, OwnInv
  <2> QED
    BY <2>3, <2>4 DEF TableInv
<1> QED
  BY <1>3, <1>7, <1>8 DEF AddRecord

\* A record for a remote that could not be accepted.
LEMMA AcceptFailsKeeps ==
  ASSUME TableInv, AcceptFails
  PROVE  TableInv'
<1>1. /\ head = "up" /\ AddRecord(Nobody, -1)
      /\ UNCHANGED <<head, open, conn, connIndex, backlog, inFront>>
  BY DEF AcceptFails
<1>2. ASSUME NEW i \in FreeSlots, slots' = With(slots, i, -1),
             list' = Append(list, [of |-> Nobody, index |-> i])
      PROVE  TableInv'
  <2>1. i \in 1 .. NumSlots /\ i \notin DOMAIN slots /\ i # -1
    BY DEF FreeSlots
  <2>2. [of |-> Nobody, index |-> i] \in TableRecords
    BY <2>1 DEF TableRecords, SlotIndices
  <2>3. list' \in Seq(TableRecords) /\ Adds(list, list', [of |-> Nobody, index |-> i], Len(list) + 1)
    BY <1>2, <2>2, AppendAdds DEF TableInv, TableTypes
  <2>4. TableTypes'
    BY <1>1, <1>2, <2>1, <2>3 DEF TableInv, TableTypes, With
  <2>5. OwnInv'
    BY <1>1, <1>2, <2>1, <2>3, OwnAdds DEF TableInv, TableTypes, OwnInv
  <2> QED
    BY <2>4, <2>5 DEF TableInv
<1>3. ASSUME slots' = slots, list' = Append(list, [of |-> Nobody, index |-> -1])
      PROVE  TableInv'
  <2>1. [of |-> Nobody, index |-> -1] \in TableRecords
    BY DEF TableRecords, SlotIndices
  <2>2. list' \in Seq(TableRecords) /\ Adds(list, list', [of |-> Nobody, index |-> -1], Len(list) + 1)
    BY <1>3, <2>1, AppendAdds DEF TableInv, TableTypes
  <2>3. TableTypes'
    BY <1>1, <1>3, <2>2 DEF TableInv, TableTypes
  <2>4. OwnInv'
    BY <1>1, <1>3, <2>2, OwnAddsNone DEF TableInv, TableTypes, OwnInv
  <2> QED
    BY <2>3, <2>4 DEF TableInv
<1> QED
  BY <1>1, <1>2, <1>3 DEF AddRecord

\* What the search for a record by its descriptor finds.
FirstWith(f) == SelectInSeq(list, LAMBDA r : FdAt(r.index) = f)

LEMMA FoundRecord ==
  ASSUME NEW f, NEW k, k = FirstWith(f), list \in Seq(TableRecords)
  PROVE  k = 0 \/ (k \in 1 .. Len(list) /\ FdAt(list[k].index) = f)
<1>1. PICK I : I = {i \in 1 .. Len(list) : FdAt(list[i].index) = f}
  OBVIOUS
<1>2. PICK m : m = Min(I)
  OBVIOUS
<1>3. k = IF I # {} THEN m ELSE 0
  BY <1>1, <1>2 DEF FirstWith, SelectInSeq
<1>4. Len(list) \in Nat
  OBVIOUS
<1>5. I \subseteq Nat
  BY <1>1, <1>4
<1>6. ASSUME I # {} PROVE m \in I
  <2>1. PICK n \in I : \A j \in I : n <= j
    BY <1>5, <1>6, LeastNat
  <2> QED
    BY <2>1, <1>2 DEF Min
<1> QED
  BY <1>1, <1>3, <1>6

\* Taking out a record leaves the others as they are.
LEMMA RemoveTakesOut ==
  ASSUME NEW S, NEW l \in Seq(S), NEW n \in 1 .. Len(l), NEW lt, lt = RemoveAt(l, n)
  PROVE  lt \in Seq(S) /\ TakesOut(l, lt, n)
<1>1. /\ lt \in Seq(S) /\ DOMAIN lt = 1 .. (Len(l) - 1)
      /\ \A j \in DOMAIN lt : OldIndex(n, j) \in (1 .. Len(l)) \ {n} /\ lt[j] = l[OldIndex(n, j)]
  BY RemoveAtKeeps
<1>2. DOMAIN l = 1 .. Len(l) /\ Len(l) \in Nat
  OBVIOUS
<1>3. PICK g : g = [j \in DOMAIN lt |-> OldIndex(n, j)]
  OBVIOUS
<1>4. \A j, k \in DOMAIN lt : g[j] = g[k] => j = k
  BY <1>1, <1>3 DEF OldIndex
<1>5. \A k \in DOMAIN lt : g[k] \in DOMAIN l \ {n} /\ lt[k] = l[g[k]]
  BY <1>1, <1>2, <1>3
<1>6. ASSUME NEW k \in DOMAIN l \ {n} PROVE \E j \in DOMAIN lt : lt[j] = l[k]
  <2>1. PICK j : j = IF k < n THEN k ELSE k - 1
    OBVIOUS
  <2>2. j \in 1 .. (Len(l) - 1) /\ OldIndex(n, j) = k
    BY <1>2, <2>1 DEF OldIndex
  <2> QED
    BY <1>1, <2>2
<1> QED
  BY <1>1, <1>2, <1>4, <1>5, <1>6 DEF TakesOut

\* A remote has closed: its record is taken out.
LEMMA RemoteClosesKeeps ==
  ASSUME TableInv, NEW i \in 1 .. NumSlots, RemoteCloses(i)
  PROVE  TableInv'
<1>1. PICK f : f = slots[i]
  OBVIOUS
<1>2. /\ f \in DOMAIN open /\ f \in Fds /\ f # -1 /\ tcp_Server_deleteSocketRec(f)
      /\ UNCHANGED <<head, conn, connIndex, backlog, inFront>>
  BY <1>1 DEF RemoteCloses, TableInv, TableTypes, Fds
<1>3. PICK k : k = FirstWith(f)
  OBVIOUS
<1>4. list \in Seq(TableRecords)
  BY DEF TableInv, TableTypes
<1>5. k = 0 \/ (k \in 1 .. Len(list) /\ FdAt(list[k].index) = f)
  BY <1>3, <1>4, FoundRecord
<1>6. \/ UNCHANGED <<list, open, slots>>
      \/ k # 0 /\ list' = RemoveAt(list, k) /\ open' = Without(open, f)
         /\ slots' = Without(slots, list[k].index)
  BY <1>2, <1>3 DEF tcp_Server_deleteSocketRec, FirstWith
<1>7. CASE UNCHANGED <<list, open, slots>>
  BY <1>2, <1>7 DEF TableInv, TableTypes, OwnInv
<1>8. ASSUME k \in 1 .. Len(list), FdAt(list[k].index) = f, list' = RemoveAt(list, k),
             open' = Without(open, f), slots' = Without(slots, list[k].index)
      PROVE  TableInv'
  <2>1. list' \in Seq(TableRecords) /\ TakesOut(list, list', k)
    BY <1>4, <1>8, RemoveTakesOut
  <2>4. TableTypes'
    BY <1>2, <1>8, <2>1 DEF TableInv, TableTypes, Without
  <2>5. inFront = -1 => list[k].index \in DOMAIN slots /\ slots[list[k].index] = f
    BY <1>2, <1>8 DEF FdAt
  <2>6. OwnInv'
    BY <1>2, <1>8, <2>1, <2>5, OwnDeletes DEF TableInv, TableTypes, OwnInv
  <2> QED
    BY <2>4, <2>6 DEF TableInv
<1> QED
  BY <1>5, <1>6, <1>7, <1>8

\* The other ends, and a listening socket that could not be made.
LEMMA OthersKeep ==
  ASSUME TableInv,
         \/ NewServerFails
         \/ \E c \in Callers : RemoteConnects(c) \/ OtherEnds(c)
         \/ OtherEnds(Server)
  PROVE  TableInv'
<1>1. UNCHANGED <<list, slots, open, conn, connIndex, inFront>>
  BY DEF NewServerFails, RemoteConnects, OtherEnds
<1>2. /\ head' = head \/ head' = "freed"
      /\ backlog' = backlog \/ \E c \in Callers : backlog' = Append(backlog, c)
  BY DEF NewServerFails, RemoteConnects, OtherEnds
<1>3. TableTypes'
  BY <1>1, <1>2 DEF TableInv, TableTypes
<1> QED
  BY <1>1, <1>3 DEF TableInv, OwnInv

LEMMA TableInvInit == TableInit => TableInv
BY DEF TableInit, TableInv, TableTypes, OwnInv, Own

LEMMA TableInvNext == TableInv /\ [TableNext]_tableVars => TableInv'
<1> SUFFICES ASSUME TableInv, [TableNext]_tableVars PROVE TableInv'
  OBVIOUS
<1>1. CASE UNCHANGED tableVars
  BY <1>1 DEF tableVars, TableInv, TableTypes, OwnInv
<1>2. CASE NewClient \/ TimerFires
  BY <1>2, ConnectKeeps
<1>3. CASE ServerCloses
  BY <1>3, ServerClosesKeeps
<1>4. CASE NewServer
  BY <1>4, NewServerKeeps
<1>5. CASE Accepts
  BY <1>5, AcceptsKeeps
<1>6. CASE AcceptFails
  BY <1>6, AcceptFailsKeeps
<1>7. CASE \E i \in 1 .. NumSlots : RemoteCloses(i)
  BY <1>7, RemoteClosesKeeps
<1>8. CASE \/ NewServerFails
           \/ \E c \in Callers : RemoteConnects(c) \/ OtherEnds(c)
           \/ OtherEnds(Server)
  BY <1>8, OthersKeep
<1> QED
  BY <1>1, <1>2, <1>3, <1>4, <1>5, <1>6, <1>7, <1>8 DEF TableNext, HostMoves

\* Records, slots and descriptors belong together, in every state of Tcp_client.c.
THEOREM TableInvariant == TableSpec => []TableInv
BY TableInvInit, TableInvNext, PTL DEF TableSpec

\* The ownership of slots is what SlotsAreOwned says.
LEMMA OwnedFromInv == TableInv => SlotsAreOwned
<1> SUFFICES ASSUME TableInv, inFront = -1,
                    NEW made \in BOOLEAN, made = (conn = "up")
             PROVE  SlotsAreOwned
  BY DEF SlotsAreOwned
<1>1. Own(list, slots, open, made, connIndex)
  BY DEF TableInv, OwnInv
<1>2. \A o : o \in Owners <=>
        \/ \E k \in DOMAIN list : o = [of |-> list[k].of, index |-> list[k].index]
        \/ made /\ o = [of |-> Server, index |-> connIndex]
  <2>1. CASE conn = "up"
    BY <2>1 DEF Owners
  <2>2. CASE conn # "up"
    BY <2>2 DEF Owners
  <2> QED
    BY <2>1, <2>2
<1>3. ASSUME NEW o \in Owners
      PROVE  /\ o.index # -1 => Leads(slots, open, o.index, o.of)
             /\ \A p \in Owners : o.index = p.index => o = p \/ o.index = -1
  <2>1. CASE made /\ o = [of |-> Server, index |-> connIndex]
    BY <1>1, <1>2, <2>1 DEF Own
  <2>2. ASSUME NEW k \in DOMAIN list, o = [of |-> list[k].of, index |-> list[k].index]
        PROVE  /\ o.index # -1 => Leads(slots, open, o.index, o.of)
               /\ \A p \in Owners : o.index = p.index => o = p \/ o.index = -1
    BY <1>1, <1>2, <2>2 DEF Own
  <2> QED
    BY <1>2, <2>1, <2>2
<1>4. ASSUME NEW i \in DOMAIN slots
      PROVE  Cardinality({o \in Owners : o.index = i}) = 1
  <2>1. i # -1
    BY DEF TableInv, TableTypes
  <2>2. CASE made /\ connIndex = i
    <3>1. PICK o : o = [of |-> Server, index |-> connIndex]
      OBVIOUS
    <3>2. {p \in Owners : p.index = i} = {o}
      BY <1>2, <1>3, <2>1, <2>2, <3>1
    <3> QED
      BY <3>2, FS_Singleton
  <2>3. ASSUME NEW k \in DOMAIN list, list[k].index = i
        PROVE  Cardinality({p \in Owners : p.index = i}) = 1
    <3>1. PICK o : o = [of |-> list[k].of, index |-> list[k].index]
      OBVIOUS
    <3>2. {p \in Owners : p.index = i} = {o}
      BY <1>2, <1>3, <2>1, <2>3, <3>1
    <3> QED
      BY <3>2, FS_Singleton
  <2> QED
    BY <1>1, <2>2, <2>3 DEF Own
<1> QED
  BY <1>1, <1>3, <1>4 DEF SlotsAreOwned, Leads, Own

\* Every index of a record, and of the connection, leads to its owner's own
\* descriptor, and every slot has one owner (Tcp_client.c, tcp_send_packet and
\* tcp_Server_deleteSocketRec).
THEOREM SlotsStayOwned == TableSpec => []SlotsAreOwned
BY TableInvariant, OwnedFromInv, PTL

-----------------------------------------------------------------------------
(* The bytes of packets.                                                   *)

\* A byte of a packet, with the value that its place gives it.
Bytes == {b \in [pkt : Nat, pos : Nat, len : Lengths, val : Nat] :
            /\ b.pos \in 1 .. b.len + 4
            /\ b.pos = 1 => b.val = HEADER
            /\ b.pos = 2 => b.val = 0
            /\ b.pos = 3 => b.val = b.len}

\* x was sent before y, if they have the same sender.
Earlier(x, y) == IF x.pkt = y.pkt THEN x.pos < y.pos /\ x.len = y.len ELSE x.pkt < y.pkt

\* The bytes of each sender are in the order sent: in w, and from p to q.
InOrder(w, snd) ==
  \A i, j \in DOMAIN w : i < j /\ snd[w[i].pkt] = snd[w[j].pkt] => Earlier(w[i], w[j])
PairsInOrder(p, q, snd) ==
  \A x \in Range(p), y \in Range(q) : snd[x.pkt] = snd[y.pkt] => Earlier(x, y)

\* y may come next to x, if there are bytes of only one sender; w is such bytes, from
\* the first of a packet; and to the last of one.
After(x, y) ==
  IF IsEnd(x) THEN y.pos = 1 ELSE y.pkt = x.pkt /\ y.len = x.len /\ y.pos = x.pos + 1
IsRun(w) == /\ w # <<>> => w[1].pos = 1
            /\ \A i \in 1 .. Len(w) - 1 : After(w[i], w[i + 1])
Whole(w) == w # <<>> => IsEnd(w[Len(w)])
NoEnd(w) == \A x \in Range(w) : ~IsEnd(x)

\* The fields of a byte.
LEMMA ByteIs ==
  ASSUME NEW x \in Bytes
  PROVE  /\ x.pkt \in Nat /\ x.len \in Nat /\ x.pos \in 1 .. x.len + 4 /\ x.len \in Lengths
         /\ 1 <= x.len /\ x.len <= 255
         /\ MinCmdPacketLength <= x.len + 4 /\ x.len + 4 <= MaxCacheBufferLength
         /\ x.pos = 1 => x.val = HEADER
         /\ x.pos = 2 => x.val = 0
         /\ x.pos = 3 => x.val = x.len
<1>1. PICK n \in Lengths : n = x.len
  BY DEF Bytes
<1>2. n \in 1 .. 255 /\ n + 4 \in MinCmdPacketLength .. MaxCacheBufferLength
  BY ConstAssumption
<1> QED
  BY <1>1, <1>2 DEF Bytes

Regrouped(p, q, r) == (p \o q) \o r = p \o (q \o r) /\ p \o q \in Seq(Bytes)

LEMMA BytesConcat ==
  ASSUME NEW p \in Seq(Bytes), NEW q \in Seq(Bytes), NEW r \in Seq(Bytes)
  PROVE  Regrouped(p, q, r)
<1>1. (p \o q) \o r = p \o (q \o r)
  BY ConcatAssociative
<1>2. p \o q \in Seq(Bytes)
  BY ConcatProperties
<1> QED
  BY <1>1, <1>2 DEF Regrouped

\* What is in order in two parts of a sequence is so in all of it.
LEMMA InOrderConcat ==
  ASSUME NEW p \in Seq(Bytes), NEW q \in Seq(Bytes), NEW snd
  PROVE  InOrder(p \o q, snd) <=>
           InOrder(p, snd) /\ InOrder(q, snd) /\ PairsInOrder(p, q, snd)
<1>1. PICK w, m, e : w = p \o q /\ m = Len(p) /\ e = Len(q)
  OBVIOUS
<1>2. Parts(w, p, q, m, e)
  BY <1>1, PartsAre
<1>3. /\ m \in Nat /\ e \in Nat /\ DOMAIN w = 1 .. (m + e) /\ DOMAIN p = 1 .. m
      /\ \A i \in 1 .. m : w[i] = p[i] /\ i \in DOMAIN w
      /\ \A i \in 1 .. e : w[m + i] = q[i] /\ m + i \in DOMAIN w
      /\ DOMAIN q = 1 .. e
  BY <1>2 DEF Parts
<1>4. ASSUME InOrder(w, snd)
      PROVE  InOrder(p, snd) /\ InOrder(q, snd) /\ PairsInOrder(p, q, snd)
  <2>1. InOrder(p, snd)
    BY <1>3, <1>4 DEF InOrder
  <2>2. ASSUME NEW i \in 1 .. e, NEW j \in 1 .. e, i < j, snd[q[i].pkt] = snd[q[j].pkt]
        PROVE  Earlier(q[i], q[j])
    <3>1. m + i < m + j /\ m + i \in DOMAIN w /\ m + j \in DOMAIN w
          /\ w[m + i] = q[i] /\ w[m + j] = q[j]
      BY <1>3, <2>2
    <3> QED
      BY <1>4, <2>2, <3>1 DEF InOrder
  <2>3. ASSUME NEW i \in 1 .. m, NEW j \in 1 .. e, snd[p[i].pkt] = snd[q[j].pkt]
        PROVE  Earlier(p[i], q[j])
    <3>1. i < m + j /\ i \in DOMAIN w /\ m + j \in DOMAIN w
          /\ w[i] = p[i] /\ w[m + j] = q[j]
      BY <1>3, <2>3
    <3> QED
      BY <1>4, <2>3, <3>1 DEF InOrder
  <2> QED
    BY <1>3, <2>1, <2>2, <2>3 DEF InOrder, PairsInOrder, Range
<1>5. ASSUME InOrder(p, snd), InOrder(q, snd), PairsInOrder(p, q, snd)
      PROVE  InOrder(w, snd)
  <2>1. \A k \in DOMAIN w : k \in 1 .. m \/ \E i \in 1 .. e : k = m + i
    <3>1. ASSUME NEW k \in DOMAIN w, k \notin 1 .. m PROVE k - m \in 1 .. e /\ k = m + (k - m)
      BY <1>3, <3>1
    <3> QED
      BY <3>1
  <2> SUFFICES ASSUME NEW k \in DOMAIN w, NEW l \in DOMAIN w, k < l,
                      snd[w[k].pkt] = snd[w[l].pkt]
               PROVE  Earlier(w[k], w[l])
    BY DEF InOrder
  <2>2. CASE k \in 1 .. m /\ l \in 1 .. m
    BY <1>3, <1>5, <2>2 DEF InOrder
  <2>3. ASSUME k \in 1 .. m, NEW j \in 1 .. e, l = m + j PROVE Earlier(w[k], w[l])
    <3>1. w[k] = p[k] /\ w[l] = q[j] /\ p[k] \in Range(p) /\ q[j] \in Range(q)
      BY <1>3, <2>3 DEF Range
    <3> QED
      BY <1>5, <3>1 DEF PairsInOrder
  <2>4. ASSUME NEW i \in 1 .. e, NEW j \in 1 .. e, k = m + i, l = m + j
        PROVE  Earlier(w[k], w[l])
    <3>1. i < j
      BY <1>3, <2>4
    <3>2. w[k] = q[i] /\ w[l] = q[j] /\ i \in DOMAIN q /\ j \in DOMAIN q
      BY <1>3, <2>4
    <3> QED
      BY <1>5, <3>1, <3>2 DEF InOrder
  <2>5. ~(l \in 1 .. m /\ \E i \in 1 .. e : k = m + i)
    BY <1>3
  <2> QED
    BY <2>1, <2>2, <2>3, <2>4, <2>5
<1> QED
  BY <1>1, <1>4, <1>5

\* A run ends in a run, where a packet begins; it begins with a run; a run behind
\* whole packets is one with them; and the last packet is that of the last part.
LEMMA RunConcat ==
  ASSUME NEW p \in Seq(Bytes), NEW q \in Seq(Bytes)
  PROVE  /\ IsRun(p \o q) => IsRun(p)
         /\ IsRun(p \o q) /\ Whole(p) => IsRun(q)
         /\ IsRun(p) /\ IsRun(q) /\ Whole(p) => IsRun(p \o q)
         /\ Whole(p \o q) => Whole(q)
         /\ Whole(q) /\ q # <<>> => Whole(p \o q)
         /\ NoEnd(p \o q) <=> NoEnd(p) /\ NoEnd(q)
<1>1. PICK w, m, e : w = p \o q /\ m = Len(p) /\ e = Len(q)
  OBVIOUS
<1>2. Parts(w, p, q, m, e) /\ w \in Seq(Bytes)
  BY <1>1, PartsAre
<1>3. /\ m \in Nat /\ e \in Nat /\ Len(w) = m + e /\ DOMAIN w = 1 .. (m + e)
      /\ DOMAIN p = 1 .. m
      /\ \A i \in 1 .. m : w[i] = p[i] /\ i \in DOMAIN w
      /\ \A i \in 1 .. e : w[m + i] = q[i] /\ m + i \in DOMAIN w
      /\ DOMAIN q = 1 .. e
  BY <1>2 DEF Parts
<1>4. /\ p # <<>> <=> m >= 1
      /\ q # <<>> <=> e >= 1
      /\ w # <<>> <=> m + e >= 1
  <2>1. \A s \in Seq(Bytes) : s # <<>> <=> Len(s) # 0
    BY EmptySeq
  <2> QED
    BY <1>1, <1>2, <1>3, <2>1
<1>5. ASSUME IsRun(w) PROVE IsRun(p)
  <2>1. p # <<>> => p[1].pos = 1
    BY <1>3, <1>4, <1>5 DEF IsRun
  <2>2. ASSUME NEW i \in 1 .. m - 1 PROVE After(p[i], p[i + 1])
    <3>1. i \in 1 .. m /\ i + 1 \in 1 .. m /\ i \in 1 .. (m + e) - 1
      BY <1>3
    <3>2. w[i] = p[i] /\ w[i + 1] = p[i + 1]
      BY <1>3, <3>1
    <3> QED
      BY <1>3, <1>5, <3>1, <3>2 DEF IsRun
  <2> QED
    BY <1>1, <2>1, <2>2 DEF IsRun
<1>6. ASSUME IsRun(w), Whole(p) PROVE IsRun(q)
  <2>1. ASSUME e >= 1 PROVE q[1].pos = 1
    <3>1. CASE m = 0
      BY <1>3, <1>4, <1>6, <2>1, <3>1 DEF IsRun
    <3>2. CASE m >= 1
      <4>1. m \in 1 .. m /\ m \in 1 .. (m + e) - 1 /\ 1 \in 1 .. e
        BY <1>3, <2>1, <3>2
      <4>2. w[m] = p[m] /\ w[m + 1] = q[1]
        BY <1>3, <4>1
      <4>3. After(w[m], w[m + 1])
        BY <1>3, <1>6, <4>1 DEF IsRun
      <4> QED
        BY <1>1, <1>4, <1>6, <3>2, <4>2, <4>3 DEF After, Whole
    <3> QED
      BY <1>3, <3>1, <3>2
  <2>2. ASSUME NEW i \in 1 .. e - 1 PROVE After(q[i], q[i + 1])
    <3>1. i \in 1 .. e /\ i + 1 \in 1 .. e /\ m + i \in 1 .. (m + e) - 1 /\ m + (i + 1) = (m + i) + 1
      BY <1>3
    <3>2. w[m + i] = q[i] /\ w[m + (i + 1)] = q[i + 1]
      BY <1>3, <3>1
    <3>3. After(w[m + i], w[(m + i) + 1])
      BY <1>3, <1>6, <3>1 DEF IsRun
    <3> QED
      BY <3>1, <3>2, <3>3
  <2> QED
    BY <1>1, <1>4, <2>1, <2>2 DEF IsRun
<1>7. ASSUME IsRun(p), IsRun(q), Whole(p) PROVE IsRun(w)
  <2>1. w # <<>> => w[1].pos = 1
    <3>1. CASE m >= 1
      BY <1>3, <1>4, <1>7, <3>1 DEF IsRun
    <3>2. CASE m = 0 /\ e >= 1
      BY <1>3, <1>4, <1>7, <3>2 DEF IsRun
    <3> QED
      BY <1>3, <1>4, <3>1, <3>2
  <2>2. ASSUME NEW i \in 1 .. (m + e) - 1 PROVE After(w[i], w[i + 1])
    <3>1. CASE i < m
      <4>1. i \in 1 .. m /\ i + 1 \in 1 .. m /\ i \in 1 .. m - 1
        BY <1>3, <3>1
      <4> QED
        BY <1>1, <1>3, <1>7, <4>1 DEF IsRun
    <3>2. CASE i = m
      <4>1. m \in 1 .. m /\ 1 \in 1 .. e /\ m >= 1 /\ e >= 1
        BY <1>3, <3>2
      <4>2. w[m] = p[m] /\ w[m + 1] = q[1]
        BY <1>3, <4>1
      <4> QED
        BY <1>1, <1>4, <1>7, <3>2, <4>1, <4>2 DEF After, Whole, IsRun
    <3>3. CASE i > m
      <4>1. PICK j \in 1 .. e - 1 : i = m + j /\ i + 1 = m + (j + 1)
        <5>1. i - m \in 1 .. e - 1 /\ i = m + (i - m) /\ i + 1 = m + ((i - m) + 1)
          BY <1>3, <3>3
        <5> QED
          BY <5>1
      <4>2. j \in 1 .. e /\ j + 1 \in 1 .. e
        BY <1>3
      <4>3. w[i] = q[j] /\ w[i + 1] = q[j + 1]
        BY <1>3, <4>1, <4>2
      <4> QED
        BY <1>1, <1>7, <4>3 DEF IsRun
    <3> QED
      BY <1>3, <3>1, <3>2, <3>3
  <2> QED
    BY <1>3, <2>1, <2>2 DEF IsRun
<1>8. e >= 1 => w # <<>> /\ w[Len(w)] = q[Len(q)]
  <2>1. e >= 1 => e \in 1 .. e
    BY <1>3
  <2> QED
    BY <1>1, <1>3, <1>4, <2>1
<1>9. NoEnd(w) <=> NoEnd(p) /\ NoEnd(q)
  BY <1>1, RangeConcatenation DEF NoEnd
<1> QED
  BY <1>1, <1>4, <1>5, <1>6, <1>7, <1>8, <1>9 DEF Whole

-----------------------------------------------------------------------------
(* The first packet of a run.                                              *)

\* The bytes of w, up to the length of the packet that the first is of.
FirstPacket(w, m) ==
  \A i \in 1 .. m : w[i].pkt = w[1].pkt /\ w[i].len = w[1].len /\ w[i].pos = i

LEMMA RunBegins ==
  ASSUME NEW w \in Seq(Bytes), w # <<>>, IsRun(w), NEW m \in 1 .. Len(w),
         m <= w[1].len + 4
  PROVE  FirstPacket(w, m)
<1>1. PICK l \in Nat : l = Len(w)
  BY LenProperties
<1>2. PICK x \in Bytes : x = w[1]
  BY ElementOfSeq
<1>3. x.len \in Nat /\ x.pos = 1 /\ m \in Nat /\ m <= l /\ m <= x.len + 4
  BY <1>1, <1>2, ByteIs DEF IsRun
<1> DEFINE E == {i \in Nat : i # 0 => w[i].pkt = x.pkt /\ w[i].len = x.len /\ w[i].pos = i}
<1>4. 0 \in E
  OBVIOUS
<1>5. ASSUME NEW i \in 0 .. (m - 1), i \in E PROVE i + 1 \in E
  <2>1. CASE i = 0
    BY <1>2, <1>3, <2>1
  <2>2. CASE i # 0
    <3>1. i \in 1 .. l - 1 /\ i \in Nat /\ i # x.len + 4
      BY <1>3, <2>2
    <3>2. After(w[i], w[i + 1])
      BY <1>1, <3>1 DEF IsRun
    <3>3. w[i].pkt = x.pkt /\ w[i].len = x.len /\ w[i].pos = i
      BY <1>5, <2>2
    <3> QED
      BY <3>1, <3>2, <3>3 DEF After, IsEnd
  <2> QED
    BY <2>1, <2>2
<1> HIDE DEF E
<1>6. 0 .. m \subseteq E
  BY <1>3, <1>4, <1>5, UpTo
<1> QED
  BY <1>2, <1>6 DEF E, FirstPacket

\* While the packet is not complete, no packet ends.
LEMMA NotComplete ==
  ASSUME NEW w \in Seq(Bytes), w # <<>> => IsRun(w) /\ Len(w) < w[1].len + 4
  PROVE  NoEnd(w)
<1>1. PICK l \in Nat : l = Len(w)
  BY LenProperties
<1>2. DOMAIN w = 1 .. l
  BY <1>1, LenProperties
<1>3. SUFFICES ASSUME NEW i \in 1 .. l PROVE ~IsEnd(w[i])
  BY <1>2 DEF NoEnd, Range
<1>4. w # <<>> /\ 1 \in 1 .. l /\ l \in 1 .. l
  BY <1>1, EmptySeq
<1>5. w[1].len \in Nat
  <2>1. w[1] \in Bytes
    BY <1>1, <1>4, ElementOfSeq
  <2> QED
    BY <2>1, ByteIs
<1>6. FirstPacket(w, l)
  BY <1>1, <1>4, <1>5, RunBegins
<1> QED
  BY <1>1, <1>4, <1>5, <1>6 DEF FirstPacket, IsEnd

\* A run in which no packet ends is shorter than any packet.
LEMMA ShortRun ==
  ASSUME NEW w \in Seq(Bytes), IsRun(w), NoEnd(w)
  PROVE  Len(w) < MaxCacheBufferLength
<1>1. PICK l \in Nat : l = Len(w)
  BY LenProperties
<1>2. CASE w = <<>>
  BY <1>2, ConstAssumption
<1>3. CASE w # <<>>
  <2>1. 1 \in 1 .. l /\ DOMAIN w = 1 .. l
    BY <1>1, <1>3, EmptySeq, LenProperties
  <2>2. PICK n \in Lengths : n = w[1].len
    BY <1>1, <2>1, ElementOfSeq DEF Bytes
  <2>3. n \in Nat /\ n + 4 <= MaxCacheBufferLength
    BY ConstAssumption
  <2>4. CASE n + 4 <= l
    <3>1. n + 4 \in 1 .. l
      BY <2>3, <2>4
    <3>2. FirstPacket(w, n + 4)
      BY <1>1, <1>3, <2>2, <2>3, <3>1, RunBegins
    <3>3. IsEnd(w[n + 4]) /\ w[n + 4] \in Range(w)
      BY <2>1, <2>2, <2>3, <3>1, <3>2 DEF FirstPacket, IsEnd, Range
    <3> QED
      BY <3>3 DEF NoEnd
  <2> QED
    BY <1>1, <2>3, <2>4, ConstAssumption
<1> QED
  BY <1>2, <1>3

-----------------------------------------------------------------------------
(* The packets that end.                                                   *)

LEMMA EndedFacts ==
  ASSUME NEW p \in Seq(Bytes), NEW q \in Seq(Bytes)
  PROVE  /\ Ended(p) \in Seq(Nat)
         /\ Ended(p \o q) = Ended(p) \o Ended(q)
         /\ NoEnd(p) => Ended(p) = <<>>
<1>1. PICK a \in Seq(Bytes), b \in Seq(Bytes) : a = Only(p, LastBytes) /\ b = Only(q, LastBytes)
  BY OnlyFacts
<1>2. Only(p \o q, LastBytes) = a \o b
  <2>1. PICK T : T = LastBytes
    OBVIOUS
  <2>2. Only(p \o q, T) = Only(p, T) \o Only(q, T)
    BY OnlyConcat
  <2> QED
    BY <1>1, <2>1, <2>2
<1>3. /\ Ended(p) = [i \in DOMAIN a |-> a[i].pkt]
      /\ Ended(q) = [i \in DOMAIN b |-> b[i].pkt]
      /\ Ended(p \o q) = [i \in DOMAIN (a \o b) |-> (a \o b)[i].pkt]
  BY <1>1, <1>2 DEF Ended
<1>4. PICK w, m, e : w = a \o b /\ m = Len(a) /\ e = Len(b)
  OBVIOUS
<1>5. Parts(w, a, b, m, e) /\ w \in Seq(Bytes)
  BY <1>4, PartsAre
<1>6. \A s \in Seq(Bytes) : \A i \in DOMAIN s : s[i].pkt \in Nat
  BY LenProperties, ElementOfSeq DEF Bytes
<1>7. PICK ep, eq : ep = Ended(p) /\ eq = Ended(q)
  OBVIOUS
<1>8. /\ ep \in Seq(Nat) /\ Len(ep) = m /\ \A i \in 1 .. m : ep[i] = a[i].pkt
      /\ eq \in Seq(Nat) /\ Len(eq) = e /\ \A i \in 1 .. e : eq[i] = b[i].pkt
  BY <1>3, <1>5, <1>6, <1>7 DEF Parts
<1>9. PICK u : u = Ended(p \o q)
  OBVIOUS
<1>10. /\ u \in Seq(Nat) /\ Len(u) = m + e /\ m \in Nat /\ e \in Nat
       /\ \A i \in 1 .. m + e : u[i] = w[i].pkt
  BY <1>3, <1>4, <1>5, <1>6, <1>9 DEF Parts
<1>11. u = ep \o eq
  <2>1. ASSUME NEW i \in 1 .. m + e PROVE u[i] = (ep \o eq)[i]
    <3>1. (ep \o eq)[i] = IF i <= m THEN ep[i] ELSE eq[i - m]
      BY <1>8, ConcatProperties
    <3>2. CASE i <= m
      <4>1. i \in 1 .. m
        BY <1>10, <3>2
      <4>2. w[i] = a[i] /\ ep[i] = a[i].pkt /\ u[i] = w[i].pkt
        BY <1>5, <1>8, <1>10, <4>1 DEF Parts
      <4> QED
        BY <3>1, <3>2, <4>2
    <3>3. CASE ~(i <= m)
      <4>1. PICK j \in 1 .. e : j = i - m /\ m + j = i
        <5>1. i - m \in 1 .. e /\ m + (i - m) = i
          BY <1>10, <3>3
        <5> QED
          BY <5>1
      <4>2. w[i] = b[j] /\ eq[j] = b[j].pkt
        BY <1>5, <1>8, <4>1 DEF Parts
      <4> QED
        BY <1>10, <3>1, <3>3, <4>1, <4>2
    <3> QED
      BY <3>2, <3>3
  <2>2. ep \o eq \in Seq(Nat) /\ Len(ep \o eq) = m + e
    BY <1>8, ConcatProperties
  <2> QED
    BY <1>10, <2>1, <2>2, SeqEqual
<1>12. ASSUME NoEnd(p) PROVE ep = <<>>
  <2>1. ASSUME NEW i \in 1 .. m PROVE FALSE
    <3>1. Has(a, a[i])
      BY <1>5 DEF Has, Parts
    <3>2. Has(p, a[i]) /\ a[i] \in LastBytes
      BY <1>1, <3>1, OnlyFacts
    <3> QED
      BY <1>12, <3>2, RangeHas DEF NoEnd, LastBytes
  <2>2. m = 0
    <3>1. m \in 1 .. m \/ m = 0
      BY <1>10
    <3> QED
      BY <2>1, <3>1
  <2> QED
    BY <1>8, <2>2, EmptySeq
<1> QED
  BY <1>7, <1>8, <1>9, <1>11, <1>12

\* Of a packet, its last byte alone.
LEMMA OnePacketEnds ==
  ASSUME NEW q \in Seq(Bytes), q # <<>>, FirstPacket(q, Len(q)), Len(q) = q[1].len + 4
  PROVE  Ended(q) = <<q[1].pkt>> /\ Whole(q)
<1>1. PICK l \in Nat : l = Len(q)
  BY LenProperties
<1>2. l \in 1 .. l /\ l # 0 /\ 1 \in 1 .. l /\ DOMAIN q = 1 .. l
  BY <1>1, EmptySeq, LenProperties
<1>3. PICK h \in Seq(Bytes), x \in Bytes : q = Append(h, x)
  BY SequenceEmptyOrAppend
<1>4. /\ Len(h) \in Nat /\ l = Len(h) + 1 /\ q[l] = x /\ DOMAIN h = 1 .. Len(h)
      /\ \A i \in 1 .. Len(h) : q[i] = h[i]
  BY <1>1, <1>3, AppendProperties, LenProperties
<1>5. \A i \in 1 .. l : q[i].len = q[1].len /\ q[i].pos = i /\ q[i].pkt = q[1].pkt
  BY <1>1 DEF FirstPacket
<1>6. ASSUME NEW i \in 1 .. Len(h) PROVE ~IsEnd(h[i])
  <2>1. q[i] = h[i] /\ i \in 1 .. l /\ i # l
    BY <1>4
  <2> QED
    BY <1>1, <1>5, <2>1 DEF IsEnd
<1>7. NoEnd(h)
  BY <1>4, <1>6 DEF NoEnd, Range
<1>8. IsEnd(x) /\ x.pkt = q[1].pkt
  BY <1>1, <1>2, <1>4, <1>5 DEF IsEnd
<1>9. x \in LastBytes
  <2>1. Lengths \subseteq Nat
    BY ConstAssumption
  <2> QED
    BY <1>8, <2>1 DEF LastBytes, Bytes
<1>10. Only(h, LastBytes) = <<>>
  <2>1. PICK a \in Seq(Bytes) : a = Only(h, LastBytes)
    BY OnlyFacts
  <2>2. ASSUME NEW i \in 1 .. Len(a) PROVE FALSE
    <3>1. Has(a, a[i])
      BY LenProperties DEF Has
    <3>2. Has(h, a[i]) /\ a[i] \in LastBytes
      BY <2>1, <3>1, OnlyFacts
    <3> QED
      BY <1>7, <3>2, RangeHas DEF NoEnd, LastBytes
  <2>3. Len(a) = 0
    <3>1. Len(a) \in 1 .. Len(a) \/ Len(a) = 0
      BY LenProperties
    <3> QED
      BY <2>2, <3>1
  <2> QED
    BY <2>1, <2>3, EmptySeq
<1>11. Only(q, LastBytes) = <<x>>
  <2>1. PICK T : T = LastBytes
    OBVIOUS
  <2>2. PICK t : t = Append(h, x)
    OBVIOUS
  <2>3. Only(t, T) = IF x \in T THEN Append(Only(h, T), x) ELSE Only(h, T)
    BY <2>2, OnlyAppend
  <2> QED
    BY <1>3, <1>9, <1>10, <2>1, <2>2, <2>3
<1>12. Ended(q) = <<x.pkt>>
  BY <1>11 DEF Ended
<1> QED
  BY <1>1, <1>4, <1>8, <1>12 DEF Whole

-----------------------------------------------------------------------------
(* One round of the cutting.                                               *)

CutStates == [buf : Seq(Bytes), out : Seq(Nat), go : BOOLEAN]

\* Where the first header is.
LEMMA HeaderIs ==
  ASSUME NEW buf \in Seq(Bytes), NEW h, h = lookupFirstPacketHeader(buf)
  PROVE  \/ h = 0 /\ \A i \in DOMAIN buf : buf[i].val # HEADER
         \/ h \in 1 .. Len(buf) /\ \A i \in 1 .. h - 1 : buf[i].val # HEADER
<1>1. PICK I : I = {i \in 1 .. Len(buf) : buf[i].val = HEADER}
  OBVIOUS
<1>2. PICK m : m = Min(I)
  OBVIOUS
<1>3. h = IF I # {} THEN m ELSE 0
  BY <1>1, <1>2 DEF lookupFirstPacketHeader, SelectInSeq
<1>4. Len(buf) \in Nat /\ DOMAIN buf = 1 .. Len(buf)
  BY LenProperties
<1>5. I \subseteq Nat
  BY <1>1, <1>4
<1>6. ASSUME I # {} PROVE m \in I /\ \A i \in I : m <= i
  <2>1. PICK n \in I : \A j \in I : n <= j
    BY <1>5, <1>6, LeastNat
  <2> QED
    BY <2>1, <1>2 DEF Min
<1>7. CASE I = {}
  BY <1>1, <1>3, <1>4, <1>7
<1>8. CASE I # {}
  <2>1. h \in 1 .. Len(buf) /\ h \in Nat
    BY <1>1, <1>3, <1>4, <1>6, <1>8
  <2>2. ASSUME NEW i \in 1 .. h - 1, buf[i].val = HEADER PROVE FALSE
    <3>1. i \in 1 .. Len(buf) /\ ~(h <= i)
      BY <1>4, <2>1
    <3>2. i \in I
      BY <1>1, <2>2, <3>1
    <3> QED
      BY <1>3, <1>6, <1>8, <3>1, <3>2
  <2> QED
    BY <2>1, <2>2
<1> QED
  BY <1>7, <1>8

\* The length that the header of b announces.
SizeOf(b) == IF Len(b) < 3 THEN Len(b) + 1 ELSE b[2].val * 256 + b[3].val + 4

\* What a round leaves of [buf, out, go]: it stops; there is no header; the packet is
\* not complete; or it is taken, and handled if its FCS holds.
Stopped(st, t) ==
  /\ ~st.go \/ Len(st.buf) < MinCmdPacketLength
  /\ t = [buf |-> st.buf, out |-> st.out, go |-> FALSE]
Emptied(st, t) ==
  /\ st.go /\ MinCmdPacketLength <= Len(st.buf)
  /\ \A i \in DOMAIN st.buf : st.buf[i].val # HEADER
  /\ t = [buf |-> <<>>, out |-> st.out, go |-> FALSE]
FromHeader(buf, a, b) == buf = a \o b /\ (buf[1].val = HEADER => a = <<>>)
Waits(st, t) ==
  /\ st.go /\ MinCmdPacketLength <= Len(st.buf)
  /\ \E a, b \in Seq(Bytes) :
       /\ FromHeader(st.buf, a, b) /\ SizeOf(b) > Len(b)
       /\ t = [buf |-> b, out |-> st.out, go |-> FALSE]
Taken(st, t) ==
  /\ st.go /\ MinCmdPacketLength <= Len(st.buf)
  /\ \E a, b, q, r \in Seq(Bytes) :
       /\ FromHeader(st.buf, a, b) /\ b = q \o r /\ Len(q) = SizeOf(b) /\ q # <<>>
       /\ t = [buf |-> r, go |-> TRUE,
               out |-> IF checkPacketFCS(q) THEN Append(st.out, q[1].pkt) ELSE st.out]

LEMMA CutOneIs ==
  ASSUME NEW st \in CutStates, NEW t, t = CutOne(st)
  PROVE  t \in CutStates /\ (Stopped(st, t) \/ Emptied(st, t) \/ Waits(st, t) \/ Taken(st, t))
<1>1. PICK buf \in Seq(Bytes), out \in Seq(Nat), go \in BOOLEAN :
        st = [buf |-> buf, out |-> out, go |-> go]
  BY DEF CutStates
<1>2. PICK h : h = lookupFirstPacketHeader(buf)
  OBVIOUS
<1>3. PICK l \in Nat : l = Len(buf)
  BY LenProperties
<1>4. PICK b : b = SubSeq(buf, h, l)
  OBVIOUS
<1>5. PICK size : size = SizeOf(b)
  OBVIOUS
<1>6. PICK q, r : q = SubSeq(b, 1, size) /\ r = SubSeq(b, size + 1, Len(b))
  OBVIOUS
<1>13. st.buf = buf /\ st.out = out /\ st.go = go
  BY <1>1
<1>7. t = IF ~go \/ l < MinCmdPacketLength THEN [buf |-> buf, out |-> out, go |-> FALSE]
          ELSE IF h = 0 THEN [buf |-> <<>>, out |-> out, go |-> FALSE]
          ELSE IF size > Len(b) THEN [buf |-> b, out |-> out, go |-> FALSE]
          ELSE [buf |-> r, out |-> IF checkPacketFCS(q) THEN Append(out, b[1].pkt) ELSE out,
                go |-> TRUE]
  BY <1>2, <1>3, <1>4, <1>5, <1>6, <1>13 DEF CutOne, SizeOf, CutPacket, Cut
<1>8. \/ h = 0 /\ \A i \in DOMAIN buf : buf[i].val # HEADER
      \/ h \in 1 .. l /\ \A i \in 1 .. h - 1 : buf[i].val # HEADER
  BY <1>2, <1>3, HeaderIs
<1>9. MinCmdPacketLength \in Nat
  BY ConstAssumption
<1>10. CASE ~go \/ l < MinCmdPacketLength
  <2>1. t = [buf |-> buf, out |-> out, go |-> FALSE]
    BY <1>7, <1>10
  <2> QED
    BY <1>3, <1>10, <1>13, <2>1 DEF CutStates, Stopped
<1>11. CASE go /\ ~(l < MinCmdPacketLength) /\ h = 0
  <2>1. t = [buf |-> <<>>, out |-> out, go |-> FALSE]
    BY <1>7, <1>11
  <2>2. \A i \in DOMAIN buf : buf[i].val # HEADER
    BY <1>8, <1>11
  <2>3. <<>> \in Seq(Bytes)
    BY EmptySeq
  <2> QED
    BY <1>3, <1>9, <1>11, <1>13, <2>1, <2>2, <2>3 DEF CutStates, Emptied
<1>12. CASE go /\ ~(l < MinCmdPacketLength) /\ h # 0
  <2>1. h \in 1 .. l /\ h - 1 \in 0 .. l /\ (h - 1) + 1 = h
    BY <1>8, <1>12
  <2>2. PICK a \in Seq(Bytes), b1 \in Seq(Bytes) : CutAt(buf, h - 1, a, b1)
    BY <1>3, <2>1, CutFacts
  <2>3. b1 = b /\ buf = a \o b /\ Len(a) = h - 1 /\ b \in Seq(Bytes) /\ Len(b) = l - (h - 1)
    BY <1>3, <1>4, <2>1, <2>2 DEF CutAt
  <2>4. buf[1].val = HEADER => a = <<>>
    <3>1. ASSUME buf[1].val = HEADER PROVE h - 1 = 0
      <4>1. 1 \in 1 .. h - 1 \/ h - 1 = 0
        BY <2>1
      <4> QED
        BY <1>8, <1>12, <3>1, <4>1
    <3> QED
      BY <2>3, <3>1, EmptySeq
  <2>5. FromHeader(buf, a, b)
    BY <2>3, <2>4 DEF FromHeader
  <2>6. CASE size > Len(b)
    <3>1. t = [buf |-> b, out |-> out, go |-> FALSE]
      BY <1>7, <1>12, <2>6
    <3>2. Waits(st, t)
      <4>1. t = [buf |-> b, out |-> st.out, go |-> FALSE] /\ SizeOf(b) > Len(b)
        BY <1>5, <1>13, <2>6, <3>1
      <4>2. st.go /\ MinCmdPacketLength <= Len(st.buf) /\ FromHeader(st.buf, a, b)
        BY <1>3, <1>9, <1>12, <1>13, <2>5
      <4> QED
        BY <2>3, <4>1, <4>2, Zenon DEF Waits
    <3> QED
      BY <2>3, <3>1, <3>2 DEF CutStates
  <2>7. CASE ~(size > Len(b))
    <3>1. Len(b) \in Nat /\ Len(b) >= 3
      BY <1>5, <2>3, <2>7, LenProperties DEF SizeOf
    <3>2. b[1] \in Bytes /\ b[2] \in Bytes /\ b[3] \in Bytes
      BY <2>3, <3>1, ElementOfSeq
    <3>3. b[2].val \in Nat /\ b[3].val \in Nat
      BY <3>2 DEF Bytes
    <3>4. size = b[2].val * 256 + b[3].val + 4
      BY <1>5, <3>1 DEF SizeOf
    <3>5. PICK v \in Nat, w \in Nat : size = v * 256 + w + 4
      BY <3>3, <3>4
    <3>6. size \in 0 .. Len(b) /\ size # 0 /\ 1 \in 1 .. size
      BY <2>7, <3>1, <3>5
    <3>7. PICK q1 \in Seq(Bytes), r1 \in Seq(Bytes) : CutAt(b, size, q1, r1)
      BY <2>3, <3>6, CutFacts
    <3>8. /\ q \in Seq(Bytes) /\ r \in Seq(Bytes) /\ b = q \o r /\ Len(q) = size
      BY <1>6, <3>7 DEF CutAt
    <3>9. q # <<>>
      BY <3>6, <3>8, EmptySeq
    <3>10. b[1] = q[1]
      BY <3>6, <3>8, PartsAre DEF Parts
    <3>11. PICK o : o = IF checkPacketFCS(q) THEN Append(out, q[1].pkt) ELSE out
      OBVIOUS
    <3>12. t = [buf |-> r, out |-> o, go |-> TRUE]
      BY <1>7, <1>12, <2>7, <3>10, <3>11
    <3>13. o \in Seq(Nat)
      <4>1. b[1].pkt \in Nat
        BY <3>2, ByteIs
      <4> QED
        BY <3>10, <3>11, <4>1, AppendProperties
    <3>14. Taken(st, t)
      <4>1. t = [buf |-> r, go |-> TRUE,
                 out |-> IF checkPacketFCS(q) THEN Append(st.out, q[1].pkt) ELSE st.out]
        BY <1>13, <3>11, <3>12
      <4>2. st.go /\ MinCmdPacketLength <= Len(st.buf) /\ FromHeader(st.buf, a, b)
        BY <1>3, <1>9, <1>12, <1>13, <2>5
      <4>3. Len(q) = SizeOf(b)
        BY <1>5, <3>8
      <4> QED
        BY <2>3, <3>8, <3>9, <4>1, <4>2, <4>3, Zenon DEF Taken
    <3> QED
      BY <3>8, <3>12, <3>13, <3>14 DEF CutStates
  <2> QED
    BY <2>6, <2>7
<1> QED
  BY <1>10, <1>11, <1>12

-----------------------------------------------------------------------------
(* All rounds, of any bytes.                                               *)

\* out is packets that end in p, in that order.
Picks(out, p) ==
  \E at : /\ \A i \in DOMAIN out : /\ at[i] \in DOMAIN p /\ IsEnd(p[at[i]])
                                   /\ out[i] = p[at[i]].pkt
          /\ \A i, j \in DOMAIN out : i < j => at[i] < at[j]

LEMMA PicksNone ==
  ASSUME NEW p
  PROVE  Picks(<<>>, p)
BY DEF Picks

\* They do so in more bytes, and so does the packet that these end with.
LEMMA PicksMore ==
  ASSUME NEW out \in Seq(Nat), NEW p \in Seq(Bytes), NEW q \in Seq(Bytes), Picks(out, p)
  PROVE  /\ Picks(out, p \o q)
         /\ q # <<>> /\ Whole(q) => Picks(Append(out, q[Len(q)].pkt), p \o q)
<1>1. PICK w, m, e : w = p \o q /\ m = Len(p) /\ e = Len(q)
  OBVIOUS
<1>2. Parts(w, p, q, m, e)
  BY <1>1, PartsAre
<1>3. PICK at : /\ \A i \in DOMAIN out : /\ at[i] \in DOMAIN p /\ IsEnd(p[at[i]])
                                         /\ out[i] = p[at[i]].pkt
                /\ \A i, j \in DOMAIN out : i < j => at[i] < at[j]
  BY DEF Picks
<1>4. \A i \in DOMAIN out : at[i] \in DOMAIN w /\ w[at[i]] = p[at[i]] /\ at[i] \in 1 .. m
  BY <1>2, <1>3 DEF Parts
<1>5. Picks(out, w)
  BY <1>3, <1>4 DEF Picks
<1>6. ASSUME q # <<>>, Whole(q) PROVE Picks(Append(out, q[Len(q)].pkt), w)
  <2>1. e \in 1 .. e /\ IsEnd(q[e])
    BY <1>1, <1>6, EmptySeq DEF Whole
  <2>2. w[m + e] = q[e] /\ m + e \in DOMAIN w /\ m \in Nat /\ m < m + e
    BY <1>2, <2>1 DEF Parts
  <2>3. PICK x \in Nat : x = q[e].pkt
    BY <1>1, <2>1, ElementOfSeq, ByteIs
  <2>4. PICK l \in Nat : l = Len(out) /\ DOMAIN out = 1 .. l
    BY LenProperties
  <2>5. PICK o : o = Append(out, x)
    OBVIOUS
  <2>6. DOMAIN o = 1 .. (l + 1) /\ o[l + 1] = x /\ \A i \in 1 .. l : o[i] = out[i]
    BY <2>4, <2>5, AppendProperties, LenProperties
  <2>7. PICK f : f = [i \in 1 .. (l + 1) |-> IF i = l + 1 THEN m + e ELSE at[i]]
    OBVIOUS
  <2>8. f[l + 1] = m + e /\ \A i \in 1 .. l : f[i] = at[i] /\ f[i] < m + e
    <3>1. f[l + 1] = m + e /\ \A i \in 1 .. l : f[i] = at[i]
      BY <2>7
    <3>2. \A i \in 1 .. l : at[i] \in 1 .. m
      BY <1>4, <2>4
    <3>3. m \in Nat /\ e \in Nat /\ m < m + e /\ \A j \in 1 .. m : j < m + e
      BY <1>2, <2>2 DEF Parts
    <3> QED
      BY <3>1, <3>2, <3>3
  <2>9. \A i \in DOMAIN o : i \in 1 .. l \/ i = l + 1
    BY <2>6
  <2>10. \A i \in DOMAIN o : f[i] \in DOMAIN w /\ IsEnd(w[f[i]]) /\ o[i] = w[f[i]].pkt
    <3>1. ASSUME NEW i \in 1 .. l
          PROVE  f[i] \in DOMAIN w /\ IsEnd(w[f[i]]) /\ o[i] = w[f[i]].pkt
      BY <1>3, <1>4, <2>4, <2>6, <2>8
    <3>2. f[l + 1] \in DOMAIN w /\ IsEnd(w[f[l + 1]]) /\ o[l + 1] = w[f[l + 1]].pkt
      BY <2>1, <2>2, <2>3, <2>6, <2>8
    <3> QED
      BY <2>9, <3>1, <3>2
  <2>11. ASSUME NEW i \in DOMAIN o, NEW j \in DOMAIN o, i < j PROVE f[i] < f[j]
    <3>1. i \in 1 .. l
      BY <2>6, <2>11
    <3>2. j \in 1 .. l \/ j = l + 1
      BY <2>9
    <3> QED
      BY <1>3, <2>4, <2>8, <2>11, <3>1, <3>2
  <2>12. Picks(o, w)
    BY <2>10, <2>11 DEF Picks
  <2> QED
    BY <1>1, <2>3, <2>5, <2>12
<1> QED
  BY <1>1, <1>5, <1>6

\* Whatever is in the buffer, the rounds leave its end, and handle packets that end
\* before it.
CutOf(w, st) == \E p \in Seq(Bytes) : w = p \o st.buf /\ Picks(st.out, p)

LEMMA CutOfKept ==
  ASSUME NEW w \in Seq(Bytes), NEW st \in CutStates, CutOf(w, st), NEW t, t = CutOne(st)
  PROVE  CutOf(w, t)
<1>1. PICK p \in Seq(Bytes) : w = p \o st.buf /\ Picks(st.out, p)
  BY DEF CutOf
<1>2. st.buf \in Seq(Bytes) /\ st.out \in Seq(Nat) /\ t.buf \in Seq(Bytes) /\ t \in CutStates
  BY CutOneIs DEF CutStates
<1>3. ASSUME NEW a \in Seq(Bytes), st.buf = a \o t.buf,
             t.out = st.out \/ (a # <<>> /\ Whole(a) /\ t.out = Append(st.out, a[Len(a)].pkt))
      PROVE  CutOf(w, t)
  <2>1. p \o a \in Seq(Bytes) /\ w = (p \o a) \o t.buf
    <3>1. PICK b \in Seq(Bytes) : b = t.buf
      BY <1>2
    <3>2. Regrouped(p, a, b)
      BY BytesConcat
    <3> QED
      BY <1>1, <1>3, <3>1, <3>2 DEF Regrouped
  <2>2. Picks(t.out, p \o a)
    BY <1>1, <1>2, <1>3, PicksMore
  <2> QED
    BY <2>1, <2>2 DEF CutOf
<1>4. CASE Stopped(st, t)
  <2>1. t.buf = st.buf /\ t.out = st.out
    BY <1>4 DEF Stopped
  <2>2. <<>> \in Seq(Bytes) /\ st.buf = <<>> \o t.buf
    BY <1>2, <2>1, EmptySeq, ConcatEmptySeq
  <2> QED
    BY <1>3, <2>1, <2>2
<1>5. CASE Emptied(st, t)
  <2>1. t.buf = <<>> /\ t.out = st.out
    BY <1>5 DEF Emptied
  <2>2. st.buf = st.buf \o t.buf
    BY <1>2, <2>1, ConcatEmptySeq
  <2> QED
    BY <1>2, <1>3, <2>1, <2>2
<1>6. CASE Waits(st, t)
  <2>1. PICK a \in Seq(Bytes), b \in Seq(Bytes) :
          FromHeader(st.buf, a, b) /\ t = [buf |-> b, out |-> st.out, go |-> FALSE]
    BY <1>6 DEF Waits
  <2>2. t.buf = b /\ t.out = st.out /\ st.buf = a \o t.buf
    BY <2>1 DEF FromHeader
  <2> QED
    BY <1>3, <2>2
<1>7. CASE Taken(st, t)
  <2>1. PICK a \in Seq(Bytes), b \in Seq(Bytes), q \in Seq(Bytes), r \in Seq(Bytes) :
          /\ FromHeader(st.buf, a, b) /\ b = q \o r /\ q # <<>>
          /\ t = [buf |-> r, go |-> TRUE,
                  out |-> IF checkPacketFCS(q) THEN Append(st.out, q[1].pkt) ELSE st.out]
    BY <1>7 DEF Taken
  <2>2. PICK d \in Seq(Bytes) : d = a \o q
    BY ConcatProperties
  <2>3. t.buf = r /\ st.buf = d \o t.buf
    <3>1. Regrouped(a, q, r)
      BY BytesConcat
    <3> QED
      BY <2>1, <2>2, <3>1 DEF FromHeader, Regrouped
  <2>4. CASE ~checkPacketFCS(q)
    <3>1. t.out = st.out
      BY <2>1, <2>4
    <3> QED
      BY <1>3, <2>3, <3>1
  <2>5. CASE checkPacketFCS(q)
    <3>1. t.out = Append(st.out, q[1].pkt)
      BY <2>1, <2>5
    <3>2. Len(q) \in DOMAIN q
      BY <2>1, EmptySeq, LenProperties
    <3>3. IsEnd(q[Len(q)]) /\ q[Len(q)].pkt = q[1].pkt
      BY <2>5, <3>2 DEF checkPacketFCS
    <3>4. d # <<>> /\ d[Len(d)] = q[Len(q)]
      <4>1. Parts(d, a, q, Len(a), Len(q))
        BY <2>2, PartsAre
      <4>2. Len(q) \in 1 .. Len(q) /\ Len(d) = Len(a) + Len(q) /\ Len(a) \in Nat
        BY <3>2, <4>1 DEF Parts
      <4> QED
        BY <4>1, <4>2, EmptySeq DEF Parts
    <3>5. Whole(d) /\ t.out = Append(st.out, d[Len(d)].pkt)
      BY <3>1, <3>3, <3>4 DEF Whole
    <3> QED
      BY <1>3, <2>3, <3>4, <3>5
  <2> QED
    BY <2>4, <2>5
<1> QED
  BY <1>4, <1>5, <1>6, <1>7, CutOneIs

\* Of a run, the rounds leave the end where no packet ends, and handle all before it.
CutOfRun(w, st, k) ==
  /\ \E p \in Seq(Bytes) : w = p \o st.buf /\ Whole(p) /\ st.out = Ended(p)
  /\ IF st.go THEN Len(st.buf) <= k ELSE NoEnd(st.buf)

LEMMA CutOfRunKept ==
  ASSUME NEW w \in Seq(Bytes), IsRun(w), NEW k \in Nat, NEW st \in CutStates,
         CutOfRun(w, st, k), NEW t, t = CutOne(st)
  PROVE  CutOfRun(w, t, k - 1)
<1>1. PICK p \in Seq(Bytes) : w = p \o st.buf /\ Whole(p) /\ st.out = Ended(p)
  BY DEF CutOfRun
<1>2. PICK buf \in Seq(Bytes) : buf = st.buf
  BY DEF CutStates
<1>3. PICK l \in Nat : l = Len(buf) /\ DOMAIN buf = 1 .. l
  BY LenProperties
<1>4. IsRun(buf)
  BY <1>1, <1>2, RunConcat
<1>5. MinCmdPacketLength \in Nat /\ 4 <= MinCmdPacketLength
  BY ConstAssumption
<1>6. ASSUME t.buf = buf, t.out = st.out, t.go = FALSE, NoEnd(buf)
      PROVE  CutOfRun(w, t, k - 1)
  BY <1>1, <1>2, <1>6 DEF CutOfRun
<1>7. ASSUME buf # <<>>
      PROVE  /\ 1 \in 1 .. l /\ buf[1] \in Bytes /\ buf[1].val = HEADER
             /\ buf[1].len + 4 \in Nat /\ MinCmdPacketLength <= buf[1].len + 4
  <2>1. 1 \in 1 .. l /\ buf[1] \in Bytes
    BY <1>3, <1>7, EmptySeq, ElementOfSeq
  <2>2. buf[1].pos = 1
    BY <1>4, <1>7 DEF IsRun
  <2> QED
    BY <2>1, <2>2, ByteIs
<1>8. CASE Stopped(st, t)
  <2>1. t.buf = buf /\ t.out = st.out /\ t.go = FALSE
    BY <1>2, <1>8 DEF Stopped
  <2>2. NoEnd(buf)
    <3>1. CASE ~st.go
      BY <1>2, <3>1 DEF CutOfRun
    <3>2. CASE l < MinCmdPacketLength
      BY <1>3, <1>4, <1>5, <1>7, <3>2, NotComplete
    <3> QED
      BY <1>2, <1>3, <1>8, <3>1, <3>2 DEF Stopped
  <2> QED
    BY <1>6, <2>1, <2>2
<1>9. CASE Emptied(st, t)
  <2>1. MinCmdPacketLength <= l /\ \A i \in DOMAIN buf : buf[i].val # HEADER
    BY <1>2, <1>3, <1>9 DEF Emptied
  <2>2. buf # <<>> /\ 1 \in DOMAIN buf
    BY <1>3, <1>5, <2>1, EmptySeq
  <2> QED
    BY <1>7, <2>1, <2>2
<1>10. CASE Waits(st, t) \/ Taken(st, t)
  <2>1. MinCmdPacketLength <= l /\ st.go
    BY <1>2, <1>3, <1>10 DEF Waits, Taken
  <2>2. buf # <<>> /\ l >= 4
    BY <1>3, <1>5, <2>1, EmptySeq
  <2>3. \A a, b \in Seq(Bytes) : FromHeader(st.buf, a, b) => b = buf
    BY <1>2, <1>7, <2>2, ConcatEmptySeq DEF FromHeader
  <2>4. PICK x \in Bytes : x = buf[1]
    BY <1>7, <2>2
  <2>5. x.len \in Nat /\ 1 <= x.len
    BY ByteIs
  <2>6. SizeOf(buf) = x.len + 4
    <3>1. 3 \in 1 .. l /\ 3 <= x.len + 4 /\ 2 \in 1 .. 3 /\ 3 \in 1 .. 3
      BY <2>2, <2>5
    <3>2. FirstPacket(buf, 3)
      BY <1>3, <1>4, <2>2, <2>4, <3>1, RunBegins
    <3>3. buf[2] \in Bytes /\ buf[3] \in Bytes
      BY <1>3, <2>2, ElementOfSeq
    <3>4. buf[2].val = 0 /\ buf[3].val = x.len
      BY <2>4, <3>1, <3>2, <3>3, ByteIs DEF FirstPacket
    <3> QED
      BY <1>3, <2>2, <2>5, <3>4 DEF SizeOf
  <2>7. CASE Waits(st, t)
    <3>1. PICK a \in Seq(Bytes), b \in Seq(Bytes) :
            FromHeader(st.buf, a, b) /\ SizeOf(b) > Len(b)
            /\ t = [buf |-> b, out |-> st.out, go |-> FALSE]
      BY <2>7 DEF Waits
    <3>2. t.buf = buf /\ t.out = st.out /\ t.go = FALSE /\ l < x.len + 4
      BY <1>3, <2>3, <2>5, <2>6, <3>1
    <3>3. NoEnd(buf)
      BY <1>3, <1>4, <2>4, <3>2, NotComplete
    <3> QED
      BY <1>6, <3>2, <3>3
  <2>8. CASE Taken(st, t)
    <3>1. PICK a \in Seq(Bytes), b \in Seq(Bytes), q \in Seq(Bytes), r \in Seq(Bytes) :
            /\ FromHeader(st.buf, a, b) /\ b = q \o r /\ Len(q) = SizeOf(b) /\ q # <<>>
            /\ t = [buf |-> r, go |-> TRUE,
                    out |-> IF checkPacketFCS(q) THEN Append(st.out, q[1].pkt) ELSE st.out]
      BY <2>8 DEF Taken
    <3>2. PICK m \in Nat : m = x.len + 4
      BY <2>5
    <3>3. buf = q \o r /\ Len(q) = m
      BY <2>3, <2>6, <3>1, <3>2
    <3>4. /\ l = m + Len(r) /\ Len(r) \in Nat /\ DOMAIN q = 1 .. m
          /\ \A i \in 1 .. m : buf[i] = q[i]
      BY <1>3, <3>3, PartsAre DEF Parts
    <3>5. m \in 1 .. l /\ 1 \in 1 .. m /\ m \in 1 .. m
      BY <2>5, <3>2, <3>4
    <3>6. FirstPacket(buf, m)
      BY <1>3, <1>4, <2>2, <2>4, <3>2, <3>5, RunBegins
    <3>7. q[1] = x /\ FirstPacket(q, m)
      BY <2>4, <3>4, <3>5, <3>6 DEF FirstPacket
    <3>8. checkPacketFCS(q)
      BY <3>2, <3>3, <3>4, <3>5, <3>7 DEF checkPacketFCS, FirstPacket, IsEnd
    <3>9. Ended(q) = <<q[1].pkt>> /\ Whole(q)
      BY <3>1, <3>2, <3>3, <3>7, OnePacketEnds
    <3>10. t.buf = r /\ t.go = TRUE /\ t.out = Append(st.out, x.pkt)
      BY <3>1, <3>7, <3>8
    <3>11. PICK d \in Seq(Bytes) : d = p \o q
      BY ConcatProperties
    <3>12. w = d \o r
      <4>1. Regrouped(p, q, r)
        BY BytesConcat
      <4> QED
        BY <1>1, <1>2, <3>3, <3>11, <4>1 DEF Regrouped
    <3>13. Whole(d)
      BY <3>1, <3>9, <3>11, RunConcat
    <3>14. Ended(d) = Append(st.out, x.pkt)
      <4>1. st.out \in Seq(Nat) /\ x.pkt \in Nat
        BY ByteIs DEF CutStates
      <4>2. Ended(d) = Ended(p) \o Ended(q)
        BY <3>11, EndedFacts
      <4> QED
        BY <1>1, <3>7, <3>9, <4>1, <4>2, AppendIsConcat
    <3>15. Len(r) <= k - 1
      <4>1. l <= k
        BY <1>2, <1>3, <2>1 DEF CutOfRun
      <4>2. 1 <= m
        BY <2>5, <3>2
      <4> QED
        BY <3>4, <4>1, <4>2
    <3> QED
      BY <3>10, <3>12, <3>13, <3>14, <3>15 DEF CutOfRun
  <2> QED
    BY <1>10, <2>7, <2>8
<1> QED
  BY <1>8, <1>9, <1>10, CutOneIs

\* The loop: the last of its rounds.
LEMMA RoundsAre ==
  ASSUME NEW w \in Seq(Bytes)
  PROVE  \E f : /\ \A n \in 0 .. MaxCacheBufferLength :
                     /\ f[n] \in CutStates
                     /\ f[n] = IF n = 0 THEN Cut(w, <<>>, TRUE) ELSE CutOne(f[n - 1])
                /\ CutPackets(w) = f[MaxCacheBufferLength]
<1>1. PICK N \in Nat : N = MaxCacheBufferLength
  BY ConstAssumption
<1>2. PICK G : G = [st \in CutStates |-> CutOne(st)]
  OBVIOUS
<1>3. G \in [CutStates -> CutStates]
  BY <1>2, CutOneIs
<1>4. PICK x \in CutStates : x = Cut(w, <<>>, TRUE)
  <2>1. <<>> \in Seq(Nat)
    BY EmptySeq
  <2> QED
    BY <2>1 DEF Cut, CutStates
<1>5. PICK f : /\ Steps(f, x, G, N) /\ f = [n \in 0 .. N |-> f[n]]
               /\ \A n \in 0 .. N : f[n] \in CutStates
  BY <1>3, StepsExist
<1>6. \A n \in 0 .. N : n # 0 => n - 1 \in 0 .. N /\ f[n - 1] \in CutStates
  BY <1>5
<1>7. \A n \in 0 .. N : f[n] = IF n = 0 THEN Cut(w, <<>>, TRUE) ELSE CutOne(f[n - 1])
  BY <1>2, <1>4, <1>5, <1>6 DEF Steps
<1>8. f = [n \in 0 .. N |-> IF n = 0 THEN Cut(w, <<>>, TRUE) ELSE CutOne(f[n - 1])]
  BY <1>5, <1>7
<1> DEFINE r == CHOOSE r : r = [n \in 0 .. N |->
                                  IF n = 0 THEN Cut(w, <<>>, TRUE) ELSE CutOne(r[n - 1])]
<1>9. r = [n \in 0 .. N |-> IF n = 0 THEN Cut(w, <<>>, TRUE) ELSE CutOne(r[n - 1])]
  BY <1>8, Zenon
<1>10. CutPackets(w) = r[N]
  BY <1>1, Zenon DEF CutPackets
<1> HIDE DEF r
<1> DEFINE E == {n \in Nat : n \in 0 .. N => r[n] = f[n]}
<1>11. 0 \in E
  BY <1>7, <1>9
<1>12. ASSUME NEW n \in 0 .. (N - 1), n \in E PROVE n + 1 \in E
  <2>1. n + 1 \in 0 .. N /\ n \in 0 .. N /\ n + 1 # 0 /\ (n + 1) - 1 = n /\ n + 1 \in Nat
    OBVIOUS
  <2>2. r[n + 1] = CutOne(r[n]) /\ f[n + 1] = CutOne(f[n])
    BY <1>7, <1>9, <2>1
  <2> QED
    BY <1>12, <2>1, <2>2
<1> HIDE DEF E
<1>13. r[N] = f[N]
  <2>1. 0 .. N \subseteq E
    BY <1>11, <1>12, UpTo
  <2> QED
    BY <2>1 DEF E
<1> QED
  BY <1>1, <1>5, <1>7, <1>10, <1>13

\* What the loop makes of any bytes, and of a run that fits into the buffer.
LEMMA CutPacketsAre ==
  ASSUME NEW w \in Seq(Bytes), NEW t, t = CutPackets(w)
  PROVE  /\ t \in CutStates /\ CutOf(w, t)
         /\ IsRun(w) /\ Len(w) <= MaxCacheBufferLength =>
              /\ NoEnd(t.buf)
              /\ \E p \in Seq(Bytes) : w = p \o t.buf /\ Whole(p) /\ t.out = Ended(p)
<1>1. PICK N \in Nat : N = MaxCacheBufferLength
  BY ConstAssumption
<1>2. PICK f : /\ \A n \in 0 .. N : /\ f[n] \in CutStates
                                    /\ f[n] = IF n = 0 THEN Cut(w, <<>>, TRUE)
                                              ELSE CutOne(f[n - 1])
               /\ t = f[N]
  BY <1>1, RoundsAre
<1>3. f[0].buf = w /\ f[0].out = <<>> /\ f[0].go = TRUE
  BY <1>2 DEF Cut
<1>4. <<>> \in Seq(Bytes) /\ w = <<>> \o w
  BY EmptySeq, ConcatEmptySeq
<1>5. CutOf(w, f[0])
  BY <1>3, <1>4, PicksNone DEF CutOf
<1>6. ASSUME Len(w) <= N PROVE CutOfRun(w, f[0], N)
  <2>1. Whole(<<>>) /\ NoEnd(<<>>)
    BY DEF Whole, NoEnd, Range
  <2>2. Ended(<<>>) = <<>>
    BY <1>4, <2>1, EndedFacts
  <2> QED
    BY <1>3, <1>4, <1>6, <2>1, <2>2 DEF CutOfRun
<1> DEFINE E == {n \in Nat : /\ n \in 0 .. N => CutOf(w, f[n])
                             /\ n \in 0 .. N /\ IsRun(w) /\ Len(w) <= N => CutOfRun(w, f[n], N - n)}
<1>7. 0 \in E
  BY <1>5, <1>6
<1>8. ASSUME NEW n \in 0 .. (N - 1), n \in E PROVE n + 1 \in E
  <2>1. PICK s, u : s = f[n] /\ u = f[n + 1]
    OBVIOUS
  <2>2. n \in 0 .. N /\ n + 1 \in 0 .. N /\ n + 1 # 0 /\ (n + 1) - 1 = n /\ n + 1 \in Nat
    OBVIOUS
  <2>3. s \in CutStates /\ u = CutOne(s)
    BY <1>2, <2>1, <2>2
  <2>4. CutOf(w, u)
    BY <1>8, <2>1, <2>2, <2>3, CutOfKept
  <2>5. ASSUME IsRun(w), Len(w) <= N PROVE CutOfRun(w, u, N - (n + 1))
    <3>1. PICK k \in Nat : k = N - n /\ k - 1 = N - (n + 1)
      <4>1. N - n \in Nat /\ (N - n) - 1 = N - (n + 1)
        OBVIOUS
      <4> QED
        BY <4>1
    <3>2. CutOfRun(w, s, k)
      BY <1>8, <2>1, <2>2, <2>5, <3>1
    <3>3. CutOfRun(w, u, k - 1)
      BY <2>3, <2>5, <3>2, CutOfRunKept
    <3> QED
      BY <3>1, <3>3
  <2> QED
    BY <2>1, <2>2, <2>4, <2>5
<1>9. N \in E
  <2> HIDE DEF E
  <2>1. 0 .. N \subseteq E
    BY <1>7, <1>8, UpTo
  <2> QED
    BY <2>1
<1>10. t \in CutStates /\ CutOf(w, t)
  <2>1. N \in 0 .. N
    OBVIOUS
  <2>2. CutOf(w, f[N])
    BY <1>9, <2>1
  <2>3. f[N] \in CutStates /\ t = f[N]
    BY <1>2, <2>1
  <2> QED
    BY <2>2, <2>3
<1>11. ASSUME IsRun(w), Len(w) <= N
       PROVE  /\ NoEnd(t.buf)
              /\ \E p \in Seq(Bytes) : w = p \o t.buf /\ Whole(p) /\ t.out = Ended(p)
  <2>1. PICK k \in Nat : k = 0 /\ N - N = k
    OBVIOUS
  <2>2. CutOfRun(w, t, k)
    BY <1>2, <1>9, <1>11, <2>1
  <2>3. CASE ~t.go
    BY <2>2, <2>3 DEF CutOfRun
  <2>4. CASE t.go
    <3>1. t.buf \in Seq(Bytes) /\ Len(t.buf) <= 0
      BY <1>10, <2>1, <2>2, <2>4 DEF CutOfRun, CutStates
    <3>2. t.buf = <<>>
      BY <3>1, EmptySeq
    <3>3. NoEnd(<<>>)
      BY DEF NoEnd, Range
    <3> QED
      BY <2>2, <3>2, <3>3 DEF CutOfRun
  <2> QED
    BY <2>3, <2>4
<1> QED
  BY <1>1, <1>10, <1>11

-----------------------------------------------------------------------------
(* The order of bytes and packets of each sender.                          *)

\* The packets hd come before what w is part of, and are in order.
Done(hd, w, snd) ==
  \A i \in DOMAIN hd, y \in Range(w) : snd[hd[i]] = snd[y.pkt] => hd[i] < y.pkt
Rising(hd, snd) ==
  \A i, j \in DOMAIN hd : i < j /\ snd[hd[i]] = snd[hd[j]] => hd[i] < hd[j]

\* Of the bytes in the buffer, those un of each connection that are not yet read, and
\* the packets handled: all were sent, and they are in the order sent.
Sent(buf, un, hd, snd) ==
  /\ \A c \in Conns : \A y \in Range(un[c]) : y.pkt \in DOMAIN snd /\ snd[y.pkt] = c
  /\ \A y \in Range(buf) : y.pkt \in DOMAIN snd
  /\ \A i \in DOMAIN hd : hd[i] \in DOMAIN snd
Order(buf, un, hd, snd) ==
  /\ Sent(buf, un, hd, snd)
  /\ InOrder(buf, snd) /\ Done(hd, buf, snd) /\ Rising(hd, snd)
  /\ \A c \in Conns : /\ InOrder(un[c], snd) /\ PairsInOrder(buf, un[c], snd)
                      /\ Done(hd, un[c], snd)

\* A last byte that comes before another byte is of another packet.
LEMMA EndIsBefore ==
  ASSUME NEW x \in Bytes, NEW y \in Bytes, IsEnd(x), Earlier(x, y)
  PROVE  x.pkt < y.pkt
<1>1. x.pkt = y.pkt => x.pos < y.pos /\ x.len = y.len
  BY DEF Earlier
<1>2. y.pos <= y.len + 4 /\ x.pos = x.len + 4 /\ x.len \in Nat /\ y.len \in Nat
      /\ x.pos \in Nat /\ y.pos \in Nat
  BY ByteIs DEF IsEnd
<1>3. x.pkt # y.pkt
  BY <1>1, <1>2
<1> QED
  BY <1>3 DEF Earlier

\* What is put behind the packets handled.
LEMMA DoneConcat ==
  ASSUME NEW hd \in Seq(Nat), NEW out \in Seq(Nat), NEW snd
  PROVE  /\ \A w : Done(hd, w, snd) /\ Done(out, w, snd) => Done(hd \o out, w, snd)
         /\ Rising(hd, snd) /\ Rising(out, snd)
            /\ (\A i \in DOMAIN hd, j \in DOMAIN out : snd[hd[i]] = snd[out[j]] => hd[i] < out[j])
              => Rising(hd \o out, snd)
<1>1. PICK u, m, e : u = hd \o out /\ m = Len(hd) /\ e = Len(out)
  OBVIOUS
<1>2. Parts(u, hd, out, m, e)
  BY <1>1, PartsAre
<1>3. /\ m \in Nat /\ e \in Nat /\ DOMAIN u = 1 .. (m + e) /\ DOMAIN hd = 1 .. m
      /\ DOMAIN out = 1 .. e
      /\ \A i \in 1 .. m : u[i] = hd[i]
      /\ \A i \in 1 .. e : u[m + i] = out[i]
  BY <1>2 DEF Parts
<1>4. \A k \in DOMAIN u : k \in 1 .. m \/ \E i \in 1 .. e : k = m + i
  <2>1. ASSUME NEW k \in DOMAIN u, k \notin 1 .. m PROVE k - m \in 1 .. e /\ k = m + (k - m)
    BY <1>3, <2>1
  <2> QED
    BY <2>1
<1>5. ASSUME NEW w, Done(hd, w, snd), Done(out, w, snd) PROVE Done(u, w, snd)
  <2> SUFFICES ASSUME NEW k \in DOMAIN u, NEW y \in Range(w), snd[u[k]] = snd[y.pkt]
               PROVE  u[k] < y.pkt
    BY DEF Done
  <2>1. CASE k \in 1 .. m
    BY <1>3, <1>5, <2>1 DEF Done
  <2>2. ASSUME NEW i \in 1 .. e, k = m + i PROVE u[k] < y.pkt
    <3>1. u[k] = out[i] /\ i \in DOMAIN out
      BY <1>3, <2>2
    <3> QED
      BY <1>5, <3>1 DEF Done
  <2> QED
    BY <1>4, <2>1, <2>2
<1>6. ASSUME Rising(hd, snd), Rising(out, snd),
             \A i \in DOMAIN hd, j \in DOMAIN out : snd[hd[i]] = snd[out[j]] => hd[i] < out[j]
      PROVE  Rising(u, snd)
  <2> SUFFICES ASSUME NEW k \in DOMAIN u, NEW l \in DOMAIN u, k < l, snd[u[k]] = snd[u[l]]
               PROVE  u[k] < u[l]
    BY DEF Rising
  <2>1. CASE k \in 1 .. m /\ l \in 1 .. m
    BY <1>3, <1>6, <2>1 DEF Rising
  <2>2. ASSUME k \in 1 .. m, NEW j \in 1 .. e, l = m + j PROVE u[k] < u[l]
    <3>1. u[k] = hd[k] /\ u[l] = out[j] /\ k \in DOMAIN hd /\ j \in DOMAIN out
      BY <1>3, <2>2
    <3> QED
      BY <1>6, <3>1
  <2>3. ASSUME NEW i \in 1 .. e, NEW j \in 1 .. e, k = m + i, l = m + j PROVE u[k] < u[l]
    <3>1. i < j
      BY <1>3, <2>3
    <3>2. u[k] = out[i] /\ u[l] = out[j] /\ i \in DOMAIN out /\ j \in DOMAIN out
      BY <1>3, <2>3
    <3> QED
      BY <1>6, <3>1, <3>2 DEF Rising
  <2>4. ~(l \in 1 .. m /\ \E i \in 1 .. e : k = m + i)
    BY <1>3
  <2> QED
    BY <1>4, <2>1, <2>2, <2>3, <2>4
<1> QED
  BY <1>1, <1>5, <1>6

\* un, of which all but the first bytes of c are left.
IsRest(un, c, new, rest, ut) ==
  /\ un[c] = new \o rest /\ ut[c] = rest
  /\ \A d \in Conns : d # c => ut[d] = un[d]

\* Reading new bytes of c, and cutting out the packets that are handled.
LEMMA OrderReceives ==
  ASSUME NEW buf \in Seq(Bytes), NEW un \in [Conns -> Seq(Bytes)], NEW hd \in Seq(Nat),
         NEW snd, Order(buf, un, hd, snd),
         NEW c \in Conns, NEW new \in Seq(Bytes), NEW rest \in Seq(Bytes),
         NEW ut, IsRest(un, c, new, rest, ut),
         NEW w, w = buf \o new, NEW t \in CutStates, CutOf(w, t)
  PROVE  Order(t.buf, ut, hd \o t.out, snd)
<1>1. PICK buf2 \in Seq(Bytes), out \in Seq(Nat) : buf2 = t.buf /\ out = t.out
  BY DEF CutStates
<1>2. PICK p \in Seq(Bytes) : w = p \o buf2 /\ Picks(out, p)
  BY <1>1 DEF CutOf
<1>3. /\ Range(w) = Range(buf) \cup Range(new)
      /\ Range(w) = Range(p) \cup Range(buf2)
      /\ Range(un[c]) = Range(new) \cup Range(rest)
  <2>1. Range(buf \o new) = Range(buf) \cup Range(new)
    BY RangeConcatenation
  <2>2. Range(p \o buf2) = Range(p) \cup Range(buf2)
    BY RangeConcatenation
  <2>3. Range(new \o rest) = Range(new) \cup Range(rest)
    BY RangeConcatenation
  <2> QED
    BY <1>2, <2>1, <2>2, <2>3 DEF IsRest
<1>4. /\ \A s \in Seq(Bytes) : Range(s) \subseteq Bytes
      /\ \A d \in Conns : un[d] \in Seq(Bytes)
  BY RangeOfSeq
<1>5. InOrder(new, snd) /\ InOrder(rest, snd) /\ PairsInOrder(new, rest, snd)
  <2>1. InOrder(new \o rest, snd)
    BY DEF Order, IsRest
  <2> QED
    BY <2>1, InOrderConcat
<1>6. InOrder(w, snd)
  <2>1. PairsInOrder(buf, new, snd)
    BY <1>3 DEF Order, PairsInOrder
  <2> QED
    BY <1>5, <2>1, InOrderConcat DEF Order
<1>7. InOrder(p, snd) /\ InOrder(buf2, snd) /\ PairsInOrder(p, buf2, snd)
  BY <1>2, <1>6, InOrderConcat
<1>8. ASSUME NEW d \in Conns
      PROVE  /\ InOrder(ut[d], snd) /\ PairsInOrder(w, ut[d], snd)
             /\ Range(ut[d]) \subseteq Range(un[d])
  <2>1. CASE d = c
    BY <1>3, <1>5, <2>1 DEF Order, PairsInOrder, IsRest
  <2>2. CASE d # c
    <3>1. ut[d] = un[d]
      BY <2>2 DEF IsRest
    <3>2. \A x \in Range(new), y \in Range(un[d]) : snd[x.pkt] # snd[y.pkt]
      BY <1>3, <2>2 DEF Order, Sent
    <3> QED
      BY <1>3, <3>1, <3>2 DEF Order, PairsInOrder
  <2> QED
    BY <2>1, <2>2
<1>9. Done(hd, w, snd)
  BY <1>3 DEF Order, Done
<1>10. PICK at : /\ \A i \in DOMAIN out : /\ at[i] \in DOMAIN p /\ IsEnd(p[at[i]])
                                          /\ out[i] = p[at[i]].pkt
                 /\ \A i, j \in DOMAIN out : i < j => at[i] < at[j]
  BY <1>2 DEF Picks
<1>11. ASSUME NEW i \in DOMAIN out
       PROVE  \E x \in Range(p) : x \in Bytes /\ IsEnd(x) /\ out[i] = x.pkt /\ x = p[at[i]]
  <2>1. p[at[i]] \in Range(p)
    BY <1>10 DEF Range
  <2> QED
    BY <1>4, <1>10, <2>1
<1>12. ASSUME NEW z \in Seq(Bytes), PairsInOrder(p, z, snd)
       PROVE  Done(out, z, snd)
  <2> SUFFICES ASSUME NEW i \in DOMAIN out, NEW y \in Range(z), snd[out[i]] = snd[y.pkt]
               PROVE  out[i] < y.pkt
    BY DEF Done
  <2>1. PICK x \in Range(p) : x \in Bytes /\ IsEnd(x) /\ out[i] = x.pkt
    BY <1>11
  <2>2. Earlier(x, y) /\ y \in Bytes
    BY <1>4, <1>12, <2>1 DEF PairsInOrder
  <2> QED
    BY <2>1, <2>2, EndIsBefore
<1>13. Rising(out, snd)
  <2> SUFFICES ASSUME NEW i \in DOMAIN out, NEW j \in DOMAIN out, i < j,
                      snd[out[i]] = snd[out[j]]
               PROVE  out[i] < out[j]
    BY DEF Rising
  <2>1. PICK x \in Range(p) : x \in Bytes /\ IsEnd(x) /\ out[i] = x.pkt /\ x = p[at[i]]
    BY <1>11
  <2>2. PICK y \in Range(p) : y \in Bytes /\ IsEnd(y) /\ out[j] = y.pkt /\ y = p[at[j]]
    BY <1>11
  <2>3. Earlier(x, y)
    BY <1>7, <1>10, <2>1, <2>2 DEF InOrder
  <2> QED
    BY <2>1, <2>2, <2>3, EndIsBefore
<1>14. \A i \in DOMAIN hd, j \in DOMAIN out : snd[hd[i]] = snd[out[j]] => hd[i] < out[j]
  <2> SUFFICES ASSUME NEW i \in DOMAIN hd, NEW j \in DOMAIN out, snd[hd[i]] = snd[out[j]]
               PROVE  hd[i] < out[j]
    OBVIOUS
  <2>1. PICK x \in Range(p) : out[j] = x.pkt
    BY <1>11
  <2>2. x \in Range(w) /\ snd[hd[i]] = snd[x.pkt]
    BY <1>3, <2>1
  <2>3. hd[i] < x.pkt
    BY <1>9, <2>2 DEF Done
  <2> QED
    BY <2>1, <2>3
<1>15. Rising(hd \o out, snd)
  BY <1>13, <1>14, DoneConcat DEF Order
<1>16. Done(hd \o out, buf2, snd)
  <2>1. Done(hd, buf2, snd)
    BY <1>3, <1>9 DEF Done
  <2> QED
    BY <1>7, <1>12, <2>1, DoneConcat
<1>17. ASSUME NEW d \in Conns
       PROVE  /\ InOrder(ut[d], snd) /\ PairsInOrder(buf2, ut[d], snd)
              /\ Done(hd \o out, ut[d], snd)
  <2>1. PairsInOrder(buf2, ut[d], snd) /\ PairsInOrder(p, ut[d], snd)
    BY <1>3, <1>8 DEF PairsInOrder
  <2>2. ut[d] \in Seq(Bytes)
    BY <1>4 DEF IsRest
  <2>3. Done(hd, ut[d], snd)
    BY <1>8 DEF Order, Done
  <2>4. Done(out, ut[d], snd)
    BY <1>12, <2>1, <2>2
  <2> QED
    BY <1>8, <2>1, <2>3, <2>4, DoneConcat
<1>18. Sent(buf2, ut, hd \o out, snd)
  <2>1. \A y \in Range(w) : y.pkt \in DOMAIN snd
    BY <1>3 DEF Order, Sent
  <2>2. \A i \in DOMAIN out : out[i] \in DOMAIN snd
    BY <1>3, <1>11, <2>1
  <2>3. ASSUME NEW i \in DOMAIN (hd \o out) PROVE (hd \o out)[i] \in DOMAIN snd
    <3>1. (hd \o out)[i] \in Range(hd) \cup Range(out)
      BY RangeConcatenation DEF Range
    <3> QED
      BY <2>2, <3>1 DEF Order, Sent, Range
  <2>4. \A d \in Conns : \A y \in Range(ut[d]) : y.pkt \in DOMAIN snd /\ snd[y.pkt] = d
    BY <1>8 DEF Order, Sent
  <2> QED
    BY <1>3, <2>1, <2>3, <2>4 DEF Sent
<1> QED
  BY <1>1, <1>7, <1>15, <1>16, <1>17, <1>18 DEF Order

\* un, of which c loses its last bytes.
Shrinks(un, c, ut) ==
  /\ \E q \in Seq(Bytes) : un[c] = ut[c] \o q
  /\ \A d \in Conns : d # c => ut[d] = un[d]

LEMMA OrderShrinks ==
  ASSUME NEW buf \in Seq(Bytes), NEW un, NEW hd, NEW snd, Order(buf, un, hd, snd),
         NEW c \in Conns, NEW ut \in [Conns -> Seq(Bytes)], Shrinks(un, c, ut)
  PROVE  Order(buf, ut, hd, snd)
<1>1. ASSUME NEW d \in Conns
      PROVE  InOrder(ut[d], snd) /\ Range(ut[d]) \subseteq Range(un[d])
  <2>1. CASE d = c
    <3>1. PICK p \in Seq(Bytes), q \in Seq(Bytes) : p = ut[c] /\ un[c] = p \o q
      BY DEF Shrinks
    <3>2. Range(un[c]) = Range(p) \cup Range(q)
      BY <3>1, RangeConcatenation
    <3>3. InOrder(p, snd)
      BY <3>1, InOrderConcat DEF Order
    <3> QED
      BY <2>1, <3>1, <3>2, <3>3
  <2>2. CASE d # c
    BY <2>2 DEF Shrinks, Order
  <2> QED
    BY <2>1, <2>2
<1>2. Sent(buf, ut, hd, snd)
  BY <1>1 DEF Order, Sent
<1> QED
  BY <1>1, <1>2 DEF Order, PairsInOrder, Done

\* A packet: its bytes are in order, and are one run.
LEMMA PacketIs ==
  ASSUME NEW id \in Nat, NEW len \in Lengths, NEW p, p = Packet(id, len)
  PROVE  /\ p \in Seq(Bytes) /\ p # <<>>
         /\ \A x \in Range(p) : x.pkt = id
         /\ \A snd : InOrder(p, snd)
         /\ IsRun(p) /\ Whole(p)
<1>1. len \in 1 .. 255
  BY ConstAssumption
<1>2. PICK m \in Nat : m = len + 4 /\ m >= 4
  BY <1>1
<1>3. PICK v : v = [i \in 1 .. m |-> CASE i = 1 -> HEADER [] i = 2 -> 0 [] i = 3 -> len [] OTHER -> 1]
  OBVIOUS
<1>4. \A i \in 1 .. m : /\ v[i] \in Nat /\ (i = 1 => v[i] = HEADER)
                        /\ (i = 2 => v[i] = 0) /\ (i = 3 => v[i] = len)
  <2> SUFFICES ASSUME NEW i \in 1 .. m
               PROVE  /\ v[i] \in Nat /\ (i = 1 => v[i] = HEADER)
                      /\ (i = 2 => v[i] = 0) /\ (i = 3 => v[i] = len)
    OBVIOUS
  <2>1. HEADER \in Nat /\ len \in Nat
    BY <1>1 DEF HEADER
  <2>2. CASE i = 1
    BY <1>3, <2>1, <2>2
  <2>3. CASE i = 2
    BY <1>3, <2>3
  <2>4. CASE i = 3
    BY <1>3, <2>1, <2>4
  <2>5. CASE i # 1 /\ i # 2 /\ i # 3
    BY <1>3, <2>5
  <2> QED
    BY <2>2, <2>3, <2>4, <2>5
<1>5. p = [i \in 1 .. m |-> [pkt |-> id, pos |-> i, len |-> len, val |-> v[i]]]
  BY <1>2, <1>3 DEF Packet
<1>6. ASSUME NEW i \in 1 .. m
      PROVE  p[i] \in Bytes /\ p[i].pkt = id /\ p[i].pos = i /\ p[i].len = len
  BY <1>1, <1>2, <1>4, <1>5 DEF Bytes
<1>7. p \in Seq(Bytes) /\ Len(p) = m /\ DOMAIN p = 1 .. m
  BY <1>5, <1>6
<1>8. p # <<>>
  BY <1>2, <1>7, EmptySeq
<1>9. \A x \in Range(p) : x.pkt = id
  BY <1>6, <1>7 DEF Range
<1>10. ASSUME NEW snd PROVE InOrder(p, snd)
  BY <1>6, <1>7 DEF InOrder, Earlier
<1>11. IsRun(p)
  <2>1. 1 \in 1 .. m
    BY <1>2
  <2>2. ASSUME NEW i \in 1 .. m - 1 PROVE After(p[i], p[i + 1])
    <3>1. i \in 1 .. m /\ i + 1 \in 1 .. m /\ i # m
      BY <1>2
    <3> QED
      BY <1>2, <1>6, <3>1 DEF After, IsEnd
  <2> QED
    BY <1>6, <1>7, <2>1, <2>2 DEF IsRun
<1>12. Whole(p)
  <2>1. m \in 1 .. m
    BY <1>2
  <2> QED
    BY <1>2, <1>6, <1>7, <2>1 DEF Whole, IsEnd
<1> QED
  BY <1>7, <1>8, <1>9, <1>10, <1>11, <1>12

\* un, to which c adds p.
Grows(un, c, p, ut) ==
  /\ ut[c] = un[c] \o p
  /\ \A d \in Conns : d # c => ut[d] = un[d]

\* A packet sent is of a number that none had before.
LEMMA OrderSends ==
  ASSUME NEW buf \in Seq(Bytes), NEW un \in [Conns -> Seq(Bytes)], NEW hd \in Seq(Nat),
         NEW snd \in Seq(Conns), Order(buf, un, hd, snd),
         NEW c \in Conns, NEW len \in Lengths, NEW p, p = Packet(Len(snd) + 1, len),
         NEW ut, Grows(un, c, p, ut), NEW s2, s2 = Append(snd, c)
  PROVE  Order(buf, ut, hd, s2)
<1>1. PICK n \in Nat : n = Len(snd) /\ DOMAIN snd = 1 .. n
  BY LenProperties
<1>2. /\ DOMAIN s2 = 1 .. (n + 1) /\ s2[n + 1] = c
      /\ \A i \in 1 .. n : s2[i] = snd[i]
  BY <1>1, AppendProperties, LenProperties
<1>3. /\ p \in Seq(Bytes) /\ \A x \in Range(p) : x.pkt = n + 1
      /\ InOrder(p, s2)
  <2>1. PICK id \in Nat : id = n + 1
    OBVIOUS
  <2>2. p = Packet(id, len)
    BY <1>1, <2>1
  <2> QED
    BY <2>1, <2>2, PacketIs
<1>4. /\ \A s \in Seq(Bytes) : Range(s) \subseteq Bytes
      /\ \A d \in Conns : un[d] \in Seq(Bytes)
  BY RangeOfSeq
<1>5. \A d \in Conns : \A y \in Range(un[d]) : y.pkt \in 1 .. n /\ s2[y.pkt] = snd[y.pkt]
  BY <1>1, <1>2 DEF Order, Sent
<1>6. \A y \in Range(buf) : y.pkt \in 1 .. n /\ s2[y.pkt] = snd[y.pkt]
  BY <1>1, <1>2 DEF Order, Sent
<1>7. \A i \in DOMAIN hd : hd[i] \in 1 .. n /\ s2[hd[i]] = snd[hd[i]]
  BY <1>1, <1>2 DEF Order, Sent
<1>8. Range(ut[c]) = Range(un[c]) \cup Range(p)
  BY <1>3, <1>4, RangeConcatenation DEF Grows
<1>9. \A x \in Range(p), k \in 1 .. n : k < x.pkt /\ k # x.pkt
  BY <1>3
<1>10. Sent(buf, ut, hd, s2)
  <2>1. ASSUME NEW d \in Conns, NEW y \in Range(ut[d]) PROVE y.pkt \in DOMAIN s2 /\ s2[y.pkt] = d
    <3>1. CASE y \in Range(un[d])
      BY <1>1, <1>2, <1>5, <3>1 DEF Order, Sent
    <3>2. CASE d = c /\ y \in Range(p)
      BY <1>2, <1>3, <3>2
    <3> QED
      BY <1>8, <3>1, <3>2 DEF Grows
  <2> QED
    BY <1>2, <1>6, <1>7, <2>1 DEF Sent
<1>11. /\ InOrder(buf, s2) /\ Done(hd, buf, s2) /\ Rising(hd, s2)
  <2>1. \A i \in DOMAIN buf : buf[i] \in Range(buf)
    BY DEF Range
  <2>2. InOrder(buf, s2)
    BY <1>6, <2>1 DEF Order, InOrder
  <2>3. Done(hd, buf, s2)
    BY <1>6, <1>7 DEF Order, Done
  <2>4. Rising(hd, s2)
    BY <1>7 DEF Order, Rising
  <2> QED
    BY <2>2, <2>3, <2>4
<1>12. ASSUME NEW d \in Conns
       PROVE  InOrder(un[d], s2) /\ PairsInOrder(buf, un[d], s2) /\ Done(hd, un[d], s2)
  <2>1. \A i \in DOMAIN un[d] : un[d][i] \in Range(un[d])
    BY DEF Range
  <2>2. InOrder(un[d], s2)
    BY <1>5, <2>1 DEF Order, InOrder
  <2>3. PairsInOrder(buf, un[d], s2)
    BY <1>5, <1>6 DEF Order, PairsInOrder
  <2>4. Done(hd, un[d], s2)
    BY <1>5, <1>7 DEF Order, Done
  <2> QED
    BY <2>2, <2>3, <2>4
<1>13. PairsInOrder(un[c], p, s2) /\ PairsInOrder(buf, p, s2) /\ Done(hd, p, s2)
  BY <1>5, <1>6, <1>7, <1>9 DEF PairsInOrder, Done, Earlier
<1>14. InOrder(ut[c], s2)
  BY <1>3, <1>4, <1>12, <1>13, InOrderConcat DEF Grows
<1>15. PairsInOrder(buf, ut[c], s2) /\ Done(hd, ut[c], s2)
  BY <1>8, <1>12, <1>13 DEF PairsInOrder, Done
<1>16. \A d \in Conns : /\ InOrder(ut[d], s2) /\ PairsInOrder(buf, ut[d], s2)
                        /\ Done(hd, ut[d], s2)
  BY <1>12, <1>14, <1>15 DEF Grows
<1> QED
  BY <1>10, <1>11, <1>16 DEF Order

-----------------------------------------------------------------------------
(* What is read while bytes are not mixed.                                 *)

\* The buffer is the beginning of a packet; what is behind it of the connection lst
\* goes on with it, what is to come of the others begins with a packet, and that of
\* those that are up ends with one.
Behind(buf, un, lst, c) == IF c = lst THEN buf \o un[c] ELSE un[c]
Unmixed(buf, un, lst, up) ==
  /\ IsRun(buf) /\ NoEnd(buf)
  /\ \A c \in Conns : /\ IsRun(Behind(buf, un, lst, c))
                      /\ c \in up => Whole(Behind(buf, un, lst, c))

\* No bytes of c come behind another's.
Follows(buf, lst, c) == buf = <<>> \/ lst = c

\* t is made of the bytes in the buffer and those read.
IsCut(buf, new, w, t) ==
  w = buf \o new /\ Len(w) <= MaxCacheBufferLength /\ t = CutPackets(w)

\* What is read follows what is in the buffer.
LEMMA UnmixedReceives ==
  ASSUME NEW buf \in Seq(Bytes), NEW un \in [Conns -> Seq(Bytes)], NEW lst, NEW up,
         Unmixed(buf, un, lst, up),
         NEW c \in Conns, Follows(buf, lst, c),
         NEW new \in Seq(Bytes), NEW rest \in Seq(Bytes),
         NEW ut, IsRest(un, c, new, rest, ut),
         NEW w, NEW t, IsCut(buf, new, w, t)
  PROVE  Unmixed(t.buf, ut, c, up) /\ t.out = Ended(new)
<1>0. w = buf \o new /\ Len(w) <= MaxCacheBufferLength /\ t = CutPackets(w)
  BY DEF IsCut
<1>1. w \in Seq(Bytes) /\ \A d \in Conns : un[d] \in Seq(Bytes)
  BY <1>0, ConcatProperties
<1>2. PICK v \in Seq(Bytes) : v = w \o rest
  BY <1>1, ConcatProperties
<1>3. v = Behind(buf, un, lst, c)
  <2>1. v = buf \o un[c]
    <3>1. Regrouped(buf, new, rest)
      BY BytesConcat
    <3> QED
      BY <1>0, <1>2, <3>1 DEF Regrouped, IsRest
  <2>2. CASE lst = c
    BY <2>1, <2>2 DEF Behind
  <2>3. CASE lst # c
    BY <1>1, <2>1, <2>3, ConcatEmptySeq DEF Behind, Follows
  <2> QED
    BY <2>2, <2>3
<1>4. IsRun(v) /\ (c \in up => Whole(v))
  BY <1>3 DEF Unmixed
<1>5. IsRun(w)
  BY <1>1, <1>2, <1>4, RunConcat
<1>6. t \in CutStates /\ NoEnd(t.buf)
  BY <1>0, <1>1, <1>5, CutPacketsAre
<1>7. PICK p \in Seq(Bytes) : w = p \o t.buf /\ Whole(p) /\ t.out = Ended(p)
  BY <1>0, <1>1, <1>5, CutPacketsAre
<1>8. PICK b \in Seq(Bytes) : b = t.buf
  BY <1>6 DEF CutStates
<1>9. IsRun(b)
  BY <1>5, <1>7, <1>8, RunConcat
<1>10. PICK z \in Seq(Bytes) : z = b \o rest
  BY ConcatProperties
<1>11. v = p \o z
  <2>1. Regrouped(p, b, rest)
    BY BytesConcat
  <2> QED
    BY <1>2, <1>7, <1>8, <1>10, <2>1 DEF Regrouped
<1>12. IsRun(z) /\ (c \in up => Whole(z))
  BY <1>4, <1>7, <1>11, RunConcat
<1>13. Behind(b, ut, c, c) = z
  BY <1>10 DEF Behind, IsRest
<1>14. ASSUME NEW d \in Conns, d # c
       PROVE  Behind(b, ut, c, d) = Behind(buf, un, lst, d)
  <2>1. Behind(b, ut, c, d) = un[d]
    BY <1>14 DEF Behind, IsRest
  <2>2. CASE d = lst
    BY <1>1, <1>14, <2>1, <2>2, ConcatEmptySeq DEF Behind, Follows
  <2>3. CASE d # lst
    BY <2>1, <2>3 DEF Behind
  <2> QED
    BY <2>2, <2>3
<1>15. Unmixed(b, ut, c, up)
  BY <1>6, <1>8, <1>9, <1>12, <1>13, <1>14 DEF Unmixed
<1>16. t.out = Ended(new)
  <2>1. PICK ep \in Seq(Nat) : ep = Ended(p)
    BY EndedFacts
  <2>2. PICK en \in Seq(Nat) : en = Ended(new)
    BY EndedFacts
  <2>3. Ended(w) = ep
    <3>1. Ended(p \o b) = Ended(p) \o Ended(b) /\ Ended(b) = <<>>
      BY <1>6, <1>8, EndedFacts
    <3> QED
      BY <1>7, <1>8, <2>1, <3>1, ConcatEmptySeq
  <2>4. Ended(w) = en
    <3>1. Ended(w) = Ended(buf) \o Ended(new) /\ Ended(buf) = <<>>
      BY <1>0, EndedFacts DEF Unmixed
    <3> QED
      BY <2>2, <3>1, ConcatEmptySeq
  <2> QED
    BY <1>7, <2>1, <2>2, <2>3, <2>4
<1> QED
  BY <1>8, <1>15, <1>16

\* A connection that is not up loses its last bytes.
LEMMA UnmixedShrinks ==
  ASSUME NEW buf \in Seq(Bytes), NEW un, NEW lst, NEW up,
         Unmixed(buf, un, lst, up),
         NEW c \in Conns, NEW ut \in [Conns -> Seq(Bytes)], Shrinks(un, c, ut)
  PROVE  Unmixed(buf, ut, lst, up \ {c})
<1>1. PICK p \in Seq(Bytes), q \in Seq(Bytes) : p = ut[c] /\ un[c] = p \o q
  BY DEF Shrinks
<1>2. IsRun(Behind(buf, ut, lst, c))
  <2>1. CASE c = lst
    <3>1. Regrouped(buf, p, q)
      BY BytesConcat
    <3>2. IsRun((buf \o p) \o q) /\ buf \o p \in Seq(Bytes)
      BY <1>1, <2>1, <3>1 DEF Regrouped, Unmixed, Behind
    <3> QED
      BY <1>1, <2>1, <3>2, RunConcat DEF Behind
  <2>2. CASE c # lst
    <3>1. IsRun(p \o q)
      BY <1>1, <2>2 DEF Unmixed, Behind
    <3>2. IsRun(p)
      BY <3>1, RunConcat
    <3> QED
      BY <1>1, <2>2, <3>2 DEF Behind
  <2> QED
    BY <2>1, <2>2
<1>3. \A d \in Conns : d # c => Behind(buf, ut, lst, d) = Behind(buf, un, lst, d)
  BY DEF Behind, Shrinks
<1> QED
  BY <1>2, <1>3 DEF Unmixed

\* A connection ends: what follows begins with a packet, and not in the buffer.
LEMMA UnmixedEnds ==
  ASSUME NEW buf \in Seq(Bytes), NEW un, NEW lst, NEW up,
         Unmixed(buf, un, lst, up),
         NEW c \in Conns, NEW ut, ut[c] = <<>>, \A d \in Conns : d # c => ut[d] = un[d],
         NEW l2, l2 = IF lst = c THEN NoConn ELSE lst
  PROVE  Unmixed(buf, ut, l2, up \cup {c})
<1>1. l2 # c
  BY ConstAssumption
<1>2. Behind(buf, ut, l2, c) = <<>>
  BY <1>1 DEF Behind
<1>3. IsRun(<<>>) /\ Whole(<<>>)
  BY DEF IsRun, Whole
<1>4. \A d \in Conns : d # c => Behind(buf, ut, l2, d) = Behind(buf, un, lst, d)
  BY ConstAssumption DEF Behind
<1> QED
  BY <1>2, <1>3, <1>4 DEF Unmixed

\* A packet sent follows whole packets.
LEMMA UnmixedSends ==
  ASSUME NEW buf \in Seq(Bytes), NEW un \in [Conns -> Seq(Bytes)], NEW lst, NEW up,
         Unmixed(buf, un, lst, up),
         NEW c \in Conns, c \in up, NEW id \in Nat, NEW len \in Lengths,
         NEW p, p = Packet(id, len), NEW ut, Grows(un, c, p, ut)
  PROVE  Unmixed(buf, ut, lst, up)
<1>1. p \in Seq(Bytes) /\ p # <<>> /\ IsRun(p) /\ Whole(p)
  BY PacketIs
<1>2. PICK v \in Seq(Bytes) : v = Behind(buf, un, lst, c)
  BY ConcatProperties DEF Behind
<1>3. IsRun(v) /\ Whole(v)
  BY <1>2 DEF Unmixed
<1>4. IsRun(v \o p) /\ Whole(v \o p)
  BY <1>1, <1>3, RunConcat
<1>5. Behind(buf, ut, lst, c) = v \o p
  <2>1. PICK u \in Seq(Bytes) : u = un[c]
    OBVIOUS
  <2>2. Regrouped(buf, u, p)
    BY <1>1, BytesConcat
  <2> QED
    BY <1>2, <2>1, <2>2 DEF Behind, Grows, Regrouped
<1>6. \A d \in Conns : d # c => Behind(buf, ut, lst, d) = Behind(buf, un, lst, d)
  BY DEF Behind, Grows
<1> QED
  BY <1>4, <1>5, <1>6 DEF Unmixed

-----------------------------------------------------------------------------
(* The invariant.                                                          *)

\* What each connection has sent and this host has not read; those whose peer is up.
Unread == [c \in Conns |-> rcv[c] \o flight[c]]
UpConns == {c \in Conns : peer[c] = "up"}

PacketTypes ==
  /\ DOMAIN link = Conns /\ DOMAIN peer = Conns
  /\ buffer \in Seq(Bytes) /\ Len(buffer) <= MaxCacheBufferLength
  /\ rcv \in [Conns -> Seq(Bytes)] /\ flight \in [Conns -> Seq(Bytes)]
  /\ sender \in Seq(Conns) /\ handled \in Seq(Nat)

OrderInv == Order(buffer, Unread, handled, sender)
UnmixedInv == mixed \/ (handled = read /\ Unmixed(buffer, Unread, last, UpConns))

PacketInv == PacketTypes /\ OrderInv /\ UnmixedInv

LEMMA UnreadTypes ==
  ASSUME NEW f \in [Conns -> Seq(Bytes)], NEW g \in [Conns -> Seq(Bytes)]
  PROVE  [c \in Conns |-> f[c] \o g[c]] \in [Conns -> Seq(Bytes)]
<1>1. ASSUME NEW c \in Conns PROVE f[c] \o g[c] \in Seq(Bytes)
  <2>1. f[c] \in Seq(Bytes) /\ g[c] \in Seq(Bytes)
    OBVIOUS
  <2> QED
    BY <2>1, ConcatProperties
<1> QED
  BY <1>1

\* Fewer peers are up.
LEMMA FewerUp ==
  ASSUME NEW buf, NEW un, NEW lst, NEW up, Unmixed(buf, un, lst, up),
         NEW u2, u2 \subseteq up
  PROVE  Unmixed(buf, un, lst, u2)
BY DEF Unmixed

\* What is left of the unread bytes after recv().
RestOf(c) == SubSeq(rcv[c], RecvCount(c) + 1, Len(rcv[c]))
Left(c) == [Unread EXCEPT ![c] = RestOf(c) \o flight[c]]
NewLast(c) == IF RecvCount(c) > 0 THEN c ELSE last

LEMMA ReceiveKeeps ==
  ASSUME PacketInv, NEW c \in Conns, Receive(c)
  PROVE  /\ RestOf(c) \in Seq(Bytes) /\ Left(c) \in [Conns -> Seq(Bytes)]
         /\ buffer' \in Seq(Bytes) /\ Len(buffer') <= MaxCacheBufferLength
         /\ handled' \in Seq(Nat)
         /\ Order(buffer', Left(c), handled', sender)
         /\ mixed' \/ (handled' = read' /\ Unmixed(buffer', Left(c), NewLast(c), UpConns))
<1>1. PICK r \in Seq(Bytes), fl \in Seq(Bytes) : r = rcv[c] /\ fl = flight[c]
  BY DEF PacketInv, PacketTypes
<1>2. PICK buf \in Seq(Bytes), l \in Nat : buf = buffer /\ l = Len(buf)
                                         /\ l <= MaxCacheBufferLength
  BY LenProperties DEF PacketInv, PacketTypes
<1>3. PICK n \in 0 .. Len(r) : n = RecvCount(c) /\ l + n <= MaxCacheBufferLength
  <2>1. Len(r) \in Nat /\ MaxCacheBufferLength \in Nat
    BY LenProperties, ConstAssumption
  <2>2. RecvCount(c) \in 0 .. Len(r) /\ l + RecvCount(c) <= MaxCacheBufferLength
    BY <1>1, <1>2, <2>1 DEF RecvCount, Smaller
  <2> QED
    BY <2>2
<1>4. PICK new \in Seq(Bytes), s \in Seq(Bytes) : CutAt(r, n, new, s)
  BY CutFacts
<1>5. /\ s = RestOf(c) /\ r = new \o s /\ Len(new) = n
      /\ new = SubSeq(rcv[c], 1, RecvCount(c))
  BY <1>1, <1>3, <1>4 DEF CutAt, RestOf
<1>6. PICK un \in [Conns -> Seq(Bytes)] : un = Unread
  BY UnreadTypes DEF PacketInv, PacketTypes, Unread
<1>7. PICK rest \in Seq(Bytes) : rest = s \o fl
  BY ConcatProperties
<1>8. PICK ut \in [Conns -> Seq(Bytes)] : ut = Left(c)
  BY <1>1, <1>5, <1>6, <1>7 DEF Left
<1>9. IsRest(un, c, new, rest, ut)
  <2>1. un[c] = (new \o s) \o fl
    BY <1>1, <1>5, <1>6 DEF Unread
  <2>2. Regrouped(new, s, fl)
    BY BytesConcat
  <2>3. ut[c] = rest /\ \A d \in Conns : d # c => ut[d] = un[d]
    BY <1>1, <1>5, <1>6, <1>7, <1>8 DEF Left
  <2> QED
    BY <1>7, <2>1, <2>2, <2>3 DEF Regrouped, IsRest
<1>10. CASE n = 0
  <2>1. UNCHANGED <<buffer, handled, read, mixed>> /\ NewLast(c) = last
    BY <1>3, <1>10 DEF Receive, NewLast
  <2>2. new = <<>>
    BY <1>5, <1>10, EmptySeq
  <2>3. un[c] = rest
    BY <1>9, <2>2, ConcatEmptySeq DEF IsRest
  <2>4. \A d \in Conns : ut[d] = un[d]
    BY <1>9, <2>3 DEF IsRest
  <2>5. ut = un
    BY <2>4
  <2> QED
    BY <1>5, <1>6, <1>8, <2>1, <2>5 DEF PacketInv, PacketTypes, OrderInv, UnmixedInv
<1>11. CASE n # 0
  <2>1. n > 0 /\ NewLast(c) = c
    BY <1>3, <1>11 DEF NewLast
  <2>2. PICK w \in Seq(Bytes) : w = buf \o new
    BY ConcatProperties
  <2>3. PICK t : t = CutPackets(w)
    OBVIOUS
  <2>4. /\ buffer' = t.buf /\ handled' = handled \o t.out
        /\ read' = read \o Ended(new)
        /\ mixed' = (mixed \/ (buffer # <<>> /\ last # c))
    BY <1>2, <1>3, <1>5, <1>11, <2>2, <2>3 DEF Receive
  <2>5. t \in CutStates /\ CutOf(w, t)
    BY <2>3, CutPacketsAre
  <2>6. PICK b \in Seq(Bytes), o \in Seq(Nat) : b = t.buf /\ o = t.out
    BY <2>5 DEF CutStates
  <2>7. Len(w) = l + n /\ Len(w) <= MaxCacheBufferLength
    BY <1>2, <1>3, <1>5, <2>2, ConcatProperties
  <2>8. Len(b) <= MaxCacheBufferLength
    <3>1. PICK p \in Seq(Bytes) : w = p \o b
      BY <2>5, <2>6 DEF CutOf
    <3>2. Len(w) = Len(p) + Len(b) /\ Len(p) \in Nat /\ Len(b) \in Nat
      BY <3>1, ConcatProperties, LenProperties
    <3> QED
      BY <2>7, <3>2, ConstAssumption
  <2>9. PICK hd \in Seq(Nat) : hd = handled
    BY DEF PacketInv, PacketTypes
  <2>10. Order(t.buf, ut, hd \o t.out, sender)
    BY <1>2, <1>6, <1>9, <2>2, <2>5, <2>9, OrderReceives DEF PacketInv, OrderInv
  <2>11. handled' \in Seq(Nat)
    BY <2>4, <2>6, <2>9, ConcatProperties
  <2>12. ASSUME ~mixed' PROVE handled' = read' /\ Unmixed(t.buf, ut, c, UpConns)
    <3>1. ~mixed /\ (buf = <<>> \/ last = c)
      BY <1>2, <2>4, <2>12
    <3>2. handled = read /\ Unmixed(buf, un, last, UpConns)
      BY <1>2, <1>6, <3>1 DEF PacketInv, UnmixedInv
    <3>3. Unmixed(t.buf, ut, c, UpConns) /\ t.out = Ended(new)
      <4>1. PICK lst, up : lst = last /\ up = UpConns
        OBVIOUS
      <4>2. Unmixed(buf, un, lst, up) /\ Follows(buf, lst, c)
        BY <3>1, <3>2, <4>1 DEF Follows
      <4>3. Unmixed(t.buf, ut, c, up) /\ t.out = Ended(new)
        <5>1. IsCut(buf, new, w, t)
          BY <2>2, <2>3, <2>7 DEF IsCut
        <5> QED
          BY <1>9, <4>2, <5>1, UnmixedReceives
      <4> QED
        BY <4>1, <4>3
    <3> QED
      BY <2>4, <3>2, <3>3
  <2> QED
    BY <1>5, <1>8, <2>1, <2>4, <2>6, <2>8, <2>9, <2>10, <2>11, <2>12
<1> QED
  BY <1>10, <1>11

\* The connection stays.
LEMMA StaysKeeps ==
  ASSUME PacketInv, NEW c \in Conns, Receive(c), Stays(c)
  PROVE  PacketInv'
<1>1. /\ RestOf(c) \in Seq(Bytes) /\ Left(c) \in [Conns -> Seq(Bytes)]
      /\ buffer' \in Seq(Bytes) /\ Len(buffer') <= MaxCacheBufferLength
      /\ handled' \in Seq(Nat)
      /\ Order(buffer', Left(c), handled', sender)
      /\ mixed' \/ (handled' = read' /\ Unmixed(buffer', Left(c), NewLast(c), UpConns))
  BY ReceiveKeeps
<1>2. /\ rcv' = [rcv EXCEPT ![c] = RestOf(c)] /\ last' = NewLast(c)
      /\ peer' = IF RecvFails(c) THEN [peer EXCEPT ![c] = "fin"] ELSE peer
      /\ UNCHANGED <<link, flight, sender>>
  BY DEF Stays, RestOf, NewLast
<1>3. PacketTypes'
  BY <1>1, <1>2 DEF PacketInv, PacketTypes
<1>4. Unread' = Left(c)
  <2>1. Unread' = [d \in Conns |-> rcv'[d] \o flight[d]]
    BY <1>2 DEF Unread
  <2>2. \A d \in Conns : rcv'[d] = IF d = c THEN RestOf(c) ELSE rcv[d]
    BY <1>2 DEF PacketInv, PacketTypes
  <2>3. Left(c) = [d \in Conns |-> IF d = c THEN RestOf(c) \o flight[c] ELSE rcv[d] \o flight[d]]
    BY DEF Left, Unread
  <2> QED
    BY <2>1, <2>2, <2>3
<1>5. UpConns' \subseteq UpConns
  BY <1>2 DEF UpConns, PacketInv, PacketTypes
<1>6. UnmixedInv'
  <2>1. mixed' \/ (handled' = read' /\ Unmixed(buffer', Left(c), NewLast(c), UpConns'))
    BY <1>1, <1>5, FewerUp
  <2> QED
    BY <1>2, <1>4, <2>1 DEF UnmixedInv
<1>7. OrderInv'
  BY <1>1, <1>2, <1>4 DEF OrderInv
<1> QED
  BY <1>3, <1>6, <1>7 DEF PacketInv

\* The connection ends.
LEMMA EndsKeeps ==
  ASSUME PacketInv, NEW c \in Conns, Receive(c), NEW state, Ends(c, state)
  PROVE  PacketInv'
<1>1. /\ RestOf(c) \in Seq(Bytes) /\ Left(c) \in [Conns -> Seq(Bytes)]
      /\ buffer' \in Seq(Bytes) /\ Len(buffer') <= MaxCacheBufferLength
      /\ handled' \in Seq(Nat)
      /\ Order(buffer', Left(c), handled', sender)
      /\ mixed' \/ (handled' = read' /\ Unmixed(buffer', Left(c), NewLast(c), UpConns))
  BY ReceiveKeeps
<1>2. /\ link' = [link EXCEPT ![c] = state]
      /\ rcv' = [rcv EXCEPT ![c] = <<>>] /\ flight' = [flight EXCEPT ![c] = <<>>]
      /\ peer' = [peer EXCEPT ![c] = "up"]
      /\ last' = IF last = c \/ RecvCount(c) > 0 THEN NoConn ELSE last
      /\ sender' = sender
  BY DEF Ends
<1>3. <<>> \in Seq(Bytes) /\ <<>> \o <<>> = <<>>
  BY EmptySeq, ConcatEmptySeq
<1>4. PacketTypes'
  BY <1>1, <1>2, <1>3 DEF PacketInv, PacketTypes
<1>5. PICK un \in [Conns -> Seq(Bytes)] : un = Left(c)
  BY <1>1
<1>6. PICK ut \in [Conns -> Seq(Bytes)] : ut = Unread'
  <2>1. PICK f \in [Conns -> Seq(Bytes)], g \in [Conns -> Seq(Bytes)] : f = rcv' /\ g = flight'
    BY <1>4 DEF PacketTypes, Bytes
  <2>2. Unread' = [d \in Conns |-> f[d] \o g[d]]
    BY <2>1 DEF Unread
  <2> QED
    BY <2>2, UnreadTypes
<1>7. /\ ut[c] = <<>>
      /\ \A d \in Conns : d # c => ut[d] = un[d]
  <2>1. Unread' = [d \in Conns |-> rcv'[d] \o flight'[d]]
    BY DEF Unread
  <2>2. \A d \in Conns : /\ rcv'[d] = IF d = c THEN <<>> ELSE rcv[d]
                         /\ flight'[d] = IF d = c THEN <<>> ELSE flight[d]
    BY <1>2 DEF PacketInv, PacketTypes
  <2>3. \A d \in Conns : d # c => un[d] = rcv[d] \o flight[d]
    BY <1>5 DEF Left, Unread
  <2> QED
    BY <1>3, <1>6, <2>1, <2>2, <2>3
<1>8. Shrinks(un, c, ut)
  <2>1. un[c] = ut[c] \o un[c]
    BY <1>7, ConcatEmptySeq
  <2> QED
    BY <1>7, <2>1 DEF Shrinks
<1>9. OrderInv'
  <2>1. PICK hd, snd : hd = handled' /\ snd = sender
    OBVIOUS
  <2>3. PICK buf \in Seq(Bytes) : buf = buffer'
    BY <1>1
  <2>2. Order(buf, ut, hd, snd)
    BY <1>1, <1>5, <1>8, <2>1, <2>3, OrderShrinks
  <2> QED
    BY <1>2, <1>6, <2>1, <2>2, <2>3 DEF OrderInv
<1>10. UpConns' \subseteq UpConns \cup {c}
  BY <1>2 DEF UpConns, PacketInv, PacketTypes
<1>11. UnmixedInv'
  <2> SUFFICES ASSUME ~mixed' PROVE UnmixedInv'
    BY DEF UnmixedInv
  <2>1. PICK lst, l2, up, u2 : lst = NewLast(c) /\ l2 = last' /\ up = UpConns /\ u2 = UpConns'
    OBVIOUS
  <2>6. PICK buf \in Seq(Bytes) : buf = buffer'
    BY <1>1
  <2>2. l2 = IF lst = c THEN NoConn ELSE lst
    BY <1>2, <2>1 DEF NewLast
  <2>3. Unmixed(buf, un, lst, up)
    BY <1>1, <1>5, <2>1, <2>6
  <2>4. Unmixed(buf, ut, l2, up \cup {c})
    BY <1>7, <2>2, <2>3, UnmixedEnds
  <2>5. Unmixed(buf, ut, l2, u2)
    BY <1>10, <2>1, <2>4, FewerUp
  <2> QED
    BY <1>1, <1>6, <2>1, <2>5, <2>6 DEF UnmixedInv
<1> QED
  BY <1>4, <1>9, <1>11 DEF PacketInv

\* The steps of the host that only change the state of a link.
LEMMA LinkKeeps ==
  ASSUME PacketInv, DOMAIN link' = DOMAIN link,
         UNCHANGED <<buffer, rcv, envVars, read, handled, last, mixed>>
  PROVE  PacketInv'
<1>1. PacketTypes'
  BY DEF PacketInv, PacketTypes, envVars
<1>2. Unread' = Unread /\ UpConns' = UpConns
  BY DEF Unread, UpConns, envVars
<1>3. OrderInv'
  BY <1>2 DEF PacketInv, OrderInv, envVars
<1>4. UnmixedInv'
  BY <1>2 DEF PacketInv, UnmixedInv
<1> QED
  BY <1>1, <1>3, <1>4 DEF PacketInv

LEMMA HostKeeps ==
  ASSUME PacketInv, HostStep
  PROVE  PacketInv'
<1>1. ASSUME NEW c \in Servers, ServerEvent(c) PROVE PacketInv'
  <2>1. c \in Conns /\ Receive(c)
    BY <1>1 DEF ServerEvent, Conns
  <2>2. CASE Stays(c)
    BY <2>1, <2>2, StaysKeeps
  <2>3. CASE \E state \in {"up", "retry"} : Ends(c, state)
    <3>1. PICK state \in {"up", "retry"} : Ends(c, state)
      BY <2>3
    <3> QED
      BY <2>1, <3>1, EndsKeeps
  <2> QED
    BY <1>1, <2>2, <2>3 DEF ServerEvent
<1>2. ASSUME NEW c \in Servers, Reconnect(c) PROVE PacketInv'
  BY <1>2, LinkKeeps DEF Reconnect
<1>3. ASSUME NEW c \in Remotes, RemoteEvent(c) PROVE PacketInv'
  <2>1. c \in Conns /\ Receive(c)
    BY <1>3 DEF RemoteEvent, Conns
  <2>2. CASE Stays(c)
    BY <2>1, <2>2, StaysKeeps
  <2>3. CASE Ends(c, "closed")
    <3>1. PICK state : state = "closed"
      OBVIOUS
    <3> QED
      BY <2>1, <2>3, <3>1, EndsKeeps
  <2> QED
    BY <1>3, <2>2, <2>3 DEF RemoteEvent
<1>4. ASSUME NEW c \in Remotes, Accept(c) PROVE PacketInv'
  BY <1>4, LinkKeeps DEF Accept
<1> QED
  BY <1>1, <1>2, <1>3, <1>4 DEF HostStep

\* A packet is sent.
LEMMA SendKeeps ==
  ASSUME PacketInv, NEW c \in Conns, SendPacket(c)
  PROVE  PacketInv'
<1>1. PICK len \in Lengths : flight' = [flight EXCEPT ![c] = @ \o Packet(Len(sender) + 1, len)]
  BY DEF SendPacket
<1>2. PICK snd \in Seq(Conns), hd \in Seq(Nat), buf \in Seq(Bytes) :
        snd = sender /\ hd = handled /\ buf = buffer
  BY DEF PacketInv, PacketTypes
<1>3. PICK id \in Nat : id = Len(snd) + 1
  BY LenProperties
<1>4. PICK p \in Seq(Bytes) : p = Packet(id, len)
  BY PacketIs
<1>5. /\ UNCHANGED <<link, buffer, read, handled, last, mixed, rcv, peer>>
      /\ flight' = [flight EXCEPT ![c] = @ \o p]
      /\ sender' = Append(snd, c) /\ peer[c] = "up"
  BY <1>1, <1>2, <1>3, <1>4 DEF SendPacket, hostVars
<1>6. PICK un \in [Conns -> Seq(Bytes)] : un = Unread
  BY UnreadTypes DEF PacketInv, PacketTypes, Unread
<1>7. flight' \in [Conns -> Seq(Bytes)]
  <2>1. flight[c] \o p \in Seq(Bytes)
    BY ConcatProperties DEF PacketInv, PacketTypes
  <2> QED
    BY <1>5, <2>1 DEF PacketInv, PacketTypes
<1>8. PacketTypes'
  <2>1. sender' \in Seq(Conns)
    BY <1>5, AppendProperties
  <2> QED
    BY <1>5, <1>7, <2>1 DEF PacketInv, PacketTypes
<1>9. PICK ut : ut = Unread'
  OBVIOUS
<1>10. Grows(un, c, p, ut)
  <2>1. ut = [d \in Conns |-> rcv[d] \o flight'[d]]
    BY <1>5, <1>9 DEF Unread
  <2>2. \A d \in Conns : flight'[d] = IF d = c THEN flight[c] \o p ELSE flight[d]
    BY <1>5 DEF PacketInv, PacketTypes
  <2>3. PICK r \in Seq(Bytes), f \in Seq(Bytes) : r = rcv[c] /\ f = flight[c]
    BY DEF PacketInv, PacketTypes
  <2>4. Regrouped(r, f, p)
    BY BytesConcat
  <2> QED
    BY <1>6, <2>1, <2>2, <2>3, <2>4 DEF Grows, Unread, Regrouped
<1>11. OrderInv'
  <2>1. Order(buf, un, hd, snd)
    BY <1>2, <1>6 DEF PacketInv, OrderInv
  <2>2. PICK s2 : s2 = Append(snd, c)
    OBVIOUS
  <2>3. p = Packet(Len(snd) + 1, len)
    BY <1>3, <1>4
  <2>4. Order(buf, ut, hd, s2)
    BY <1>10, <2>1, <2>2, <2>3, OrderSends
  <2> QED
    BY <1>2, <1>5, <1>9, <2>2, <2>4 DEF OrderInv
<1>12. UnmixedInv'
  <2>1. PICK lst, up : lst = last /\ up = UpConns
    OBVIOUS
  <2>2. c \in up
    BY <1>5, <2>1 DEF UpConns
  <2>3. UpConns' = up
    BY <1>5, <2>1 DEF UpConns
  <2>4. CASE mixed
    BY <1>5, <2>4 DEF UnmixedInv
  <2>5. CASE ~mixed
    <3>1. handled = read /\ Unmixed(buf, un, lst, up)
      BY <1>2, <1>6, <2>1, <2>5 DEF PacketInv, UnmixedInv
    <3>2. Unmixed(buf, ut, lst, up)
      BY <1>4, <1>10, <2>2, <3>1, UnmixedSends
    <3> QED
      BY <1>2, <1>5, <1>9, <2>1, <2>3, <3>1, <3>2 DEF UnmixedInv
  <2> QED
    BY <2>4, <2>5
<1> QED
  BY <1>8, <1>11, <1>12 DEF PacketInv

\* A byte arrives.
LEMMA ArriveKeeps ==
  ASSUME PacketInv, NEW c \in Conns, Arrive(c)
  PROVE  PacketInv'
<1>1. PICK r \in Seq(Bytes), f \in Seq(Bytes) : r = rcv[c] /\ f = flight[c]
  BY DEF PacketInv, PacketTypes
<1>2. /\ f # <<>>
      /\ rcv' = [rcv EXCEPT ![c] = Append(r, Head(f))]
      /\ flight' = [flight EXCEPT ![c] = Tail(f)]
      /\ UNCHANGED <<link, buffer, read, handled, last, mixed, peer, sender>>
  BY <1>1 DEF Arrive, hostVars, PacketInv, PacketTypes
<1>3. /\ Append(r, Head(f)) \in Seq(Bytes) /\ Tail(f) \in Seq(Bytes)
      /\ Append(r, Head(f)) \o Tail(f) = r \o f
  BY <1>2, HeadGoesOver
<1>4. PacketTypes'
  BY <1>2, <1>3 DEF PacketInv, PacketTypes
<1>5. Unread' = Unread /\ UpConns' = UpConns
  <2>1. \A d \in Conns : rcv'[d] \o flight'[d] = rcv[d] \o flight[d]
    BY <1>1, <1>2, <1>3 DEF PacketInv, PacketTypes
  <2> QED
    BY <1>2, <2>1 DEF Unread, UpConns
<1>6. OrderInv'
  BY <1>2, <1>5 DEF PacketInv, OrderInv
<1>7. UnmixedInv'
  BY <1>2, <1>5 DEF PacketInv, UnmixedInv
<1> QED
  BY <1>4, <1>6, <1>7 DEF PacketInv

\* A peer ends, and may lose what is on the way.
LEMMA PeerKeeps ==
  ASSUME PacketInv, NEW c \in Conns, PeerEnds(c)
  PROVE  PacketInv'
<1>1. /\ UNCHANGED <<link, buffer, read, handled, last, mixed, rcv, sender>>
      /\ DOMAIN peer' = DOMAIN peer /\ UpConns' \subseteq UpConns \ {c}
      /\ flight' = flight \/ flight' = [flight EXCEPT ![c] = <<>>]
  BY DEF PeerEnds, hostVars, UpConns, PacketInv, PacketTypes
<1>2. PICK r \in Seq(Bytes), f \in Seq(Bytes) : r = rcv[c] /\ f = flight[c]
  BY DEF PacketInv, PacketTypes
<1>3. flight' \in [Conns -> Seq(Bytes)]
  BY <1>1, EmptySeq DEF PacketInv, PacketTypes
<1>4. PacketTypes'
  BY <1>1, <1>3 DEF PacketInv, PacketTypes
<1>5. PICK ut \in [Conns -> Seq(Bytes)] : ut = Unread'
  <2>1. PICK g \in [Conns -> Seq(Bytes)], h \in [Conns -> Seq(Bytes)] : g = rcv' /\ h = flight'
    BY <1>4 DEF PacketTypes, Bytes
  <2>2. Unread' = [d \in Conns |-> g[d] \o h[d]]
    BY <2>1 DEF Unread
  <2> QED
    BY <2>2, UnreadTypes
<1>6. PICK un \in [Conns -> Seq(Bytes)] : un = Unread
  BY UnreadTypes DEF PacketInv, PacketTypes, Unread
<1>7. Shrinks(un, c, ut)
  <2>1. \A d \in Conns : d # c => ut[d] = un[d]
    BY <1>1, <1>5, <1>6 DEF Unread, PacketInv, PacketTypes
  <2>2. un[c] = r \o f
    BY <1>2, <1>6 DEF Unread
  <2>3. ut[c] = r \o flight'[c]
    BY <1>1, <1>2, <1>5 DEF Unread
  <2>4. CASE flight' = flight
    <3>1. un[c] = ut[c] \o <<>> /\ <<>> \in Seq(Bytes)
      BY <1>2, <2>2, <2>3, <2>4, ConcatEmptySeq, EmptySeq
    <3> QED
      BY <2>1, <3>1 DEF Shrinks
  <2>5. CASE flight' = [flight EXCEPT ![c] = <<>>]
    <3>1. flight'[c] = <<>>
      BY <2>5 DEF PacketInv, PacketTypes
    <3>2. ut[c] = r
      BY <2>3, <3>1, ConcatEmptySeq
    <3> QED
      BY <2>1, <2>2, <3>2 DEF Shrinks
  <2> QED
    BY <1>1, <2>4, <2>5
<1>8. PICK buf \in Seq(Bytes) : buf = buffer
  BY DEF PacketInv, PacketTypes
<1>9. OrderInv'
  <2>1. PICK hd, snd : hd = handled /\ snd = sender
    OBVIOUS
  <2>2. Order(buf, un, hd, snd)
    BY <1>6, <1>8, <2>1 DEF PacketInv, OrderInv
  <2>3. Order(buf, ut, hd, snd)
    BY <1>7, <2>2, OrderShrinks
  <2> QED
    BY <1>1, <1>5, <1>8, <2>1, <2>3 DEF OrderInv
<1>10. UnmixedInv'
  <2> SUFFICES ASSUME ~mixed PROVE UnmixedInv'
    BY <1>1 DEF UnmixedInv
  <2>1. PICK lst, up, u2 : lst = last /\ up = UpConns /\ u2 = UpConns'
    OBVIOUS
  <2>2. handled = read /\ Unmixed(buf, un, lst, up)
    BY <1>6, <1>8, <2>1 DEF PacketInv, UnmixedInv
  <2>3. Unmixed(buf, ut, lst, up \ {c})
    BY <1>7, <2>2, UnmixedShrinks
  <2>4. Unmixed(buf, ut, lst, u2)
    BY <1>1, <2>1, <2>3, FewerUp
  <2> QED
    BY <1>1, <1>5, <1>8, <2>1, <2>2, <2>4 DEF UnmixedInv
<1> QED
  BY <1>4, <1>9, <1>10 DEF PacketInv

LEMMA PacketInvInit == Init => PacketInv
<1> SUFFICES ASSUME Init PROVE PacketInv
  OBVIOUS
<1>1. <<>> \in Seq(Bytes) /\ <<>> \in Seq(Nat) /\ <<>> \in Seq(Conns) /\ Len(<<>>) = 0
      /\ <<>> \o <<>> = <<>>
  BY EmptySeq, ConcatEmptySeq
<1>2. PacketTypes
  BY <1>1, ConstAssumption DEF Init, PacketTypes
<1>3. \A c \in Conns : Unread[c] = <<>>
  BY <1>1 DEF Init, Unread
<1>4. DOMAIN <<>> = {} /\ Range(<<>>) = {}
  BY DEF Range
<1>5. buffer = <<>> /\ handled = <<>> /\ read = <<>> /\ last = NoConn
  BY DEF Init
<1>6. OrderInv
  BY <1>3, <1>4, <1>5 DEF OrderInv, Order, Sent, InOrder, PairsInOrder, Done, Rising
<1>7. UnmixedInv
  <2>1. \A c \in Conns : Behind(buffer, Unread, last, c) = <<>>
    BY <1>1, <1>3, <1>5 DEF Behind
  <2> QED
    BY <1>1, <1>4, <1>5, <2>1 DEF UnmixedInv, Unmixed, IsRun, Whole, NoEnd
<1> QED
  BY <1>2, <1>6, <1>7 DEF PacketInv

LEMMA PacketInvNext == PacketInv /\ [Next]_vars => PacketInv'
<1> SUFFICES ASSUME PacketInv, [Next]_vars PROVE PacketInv'
  OBVIOUS
<1>1. CASE HostStep
  BY <1>1, HostKeeps
<1>2. ASSUME NEW c \in Conns, SendPacket(c) PROVE PacketInv'
  BY <1>2, SendKeeps
<1>3. ASSUME NEW c \in Conns, Arrive(c) PROVE PacketInv'
  BY <1>3, ArriveKeeps
<1>4. ASSUME NEW c \in Conns, PeerEnds(c) PROVE PacketInv'
  BY <1>4, PeerKeeps
<1>5. CASE UNCHANGED vars
  BY <1>5, LinkKeeps DEF vars
<1> QED
  BY <1>1, <1>2, <1>3, <1>4, <1>5 DEF Next

\* What each connection has sent and this host has not read is in order and behind what
\* is in the buffer and what was handled; and as long as no bytes of one connection have
\* come behind another's, the buffer is the beginning of one packet, which the unread
\* bytes of its connection go on with.
THEOREM PacketInvariant == Spec => []PacketInv
BY PacketInvInit, PacketInvNext, PTL DEF Spec

\* tcp_socket_event_handler and tcp_ServerClient_handler: each packet is handled when its
\* last byte is read, unless bytes are mixed; never twice, and in the order sent.
THEOREM EachPacketOnce == Spec => []PacketsHandledOnce
<1>1. PacketInv => PacketsHandledOnce
  <2> SUFFICES ASSUME PacketInv PROVE PacketsHandledOnce
    OBVIOUS
  <2>1. mixed \/ handled = read
    BY DEF PacketInv, UnmixedInv
  <2>2. ASSUME NEW i \in DOMAIN handled, NEW j \in DOMAIN handled, i < j
        PROVE  handled[i] # handled[j]
               /\ (sender[handled[i]] = sender[handled[j]] => handled[i] < handled[j])
    <3>1. handled[i] \in Nat /\ handled[j] \in Nat
      BY ElementOfSeq DEF PacketInv, PacketTypes
    <3>2. sender[handled[i]] = sender[handled[j]] => handled[i] < handled[j]
      BY <2>2 DEF PacketInv, OrderInv, Order, Rising
    <3> QED
      BY <3>1, <3>2
  <2> QED
    BY <2>1, <2>2 DEF PacketsHandledOnce
<1> QED
  BY <1>1, PacketInvariant, PTL

\* tcp_socket_event_handler: recv() is never offered an empty buffer, and so returns 0 only
\* at the end of the stream, unless bytes were mixed.
THEOREM OnlyPeersClose == Spec => ClosedByPeer
<1>1. ASSUME PacketInv, [Next]_vars
      PROVE  [\A c \in Conns : link[c] = "up" /\ link'[c] # "up" => peer[c] # "up" \/ mixed]_vars
  <2> SUFFICES ASSUME Next, NEW c \in Conns, link[c] = "up", link'[c] # "up", ~mixed
               PROVE  peer[c] # "up"
    BY <1>1
  <2>1. Len(buffer) < MaxCacheBufferLength
    <3>1. PICK buf \in Seq(Bytes) : buf = buffer
      BY <1>1 DEF PacketInv, PacketTypes
    <3>2. IsRun(buf) /\ NoEnd(buf)
      BY <1>1, <3>1 DEF PacketInv, UnmixedInv, Unmixed
    <3> QED
      BY <3>1, <3>2, ShortRun
  <2>2. ASSUME NEW d \in Conns, NEW state, Ends(d, state) PROVE d = c
    BY <1>1, <2>2 DEF Ends, PacketInv, PacketTypes
  <2>3. ASSUME NEW d \in Conns, Stays(d) PROVE FALSE
    BY <2>3 DEF Stays
  <2>4. ASSUME NEW d \in Servers, ServerEvent(d) PROVE peer[c] # "up"
    <3>1. d = c /\ RecvCount(c) = 0 /\ Readable(c)
      <4>1. d \in Conns
        BY DEF Conns
      <4>2. PICK state \in {"up", "retry"} : ~(RecvCount(d) > 0 \/ RecvFails(d)) /\ Ends(d, state)
        BY <2>3, <2>4, <4>1 DEF ServerEvent
      <4>3. PICK r \in Seq(Bytes), buf \in Seq(Bytes) : r = rcv[d] /\ buf = buffer
        BY <1>1, <4>1 DEF PacketInv, PacketTypes
      <4>4. Len(r) \in Nat /\ Len(buf) \in Nat /\ MaxCacheBufferLength \in Nat
        BY LenProperties, ConstAssumption
      <4>5. RecvCount(d) = 0
        BY <2>1, <4>2, <4>3, <4>4 DEF RecvCount, Smaller
      <4> QED
        BY <2>2, <2>4, <4>1, <4>2, <4>5 DEF ServerEvent
    <3>2. rcv[c] = <<>>
      <4>1. PICK r \in Seq(Bytes), buf \in Seq(Bytes) : r = rcv[c] /\ buf = buffer
        BY <1>1 DEF PacketInv, PacketTypes
      <4>2. Len(r) \in Nat /\ Len(buf) \in Nat /\ MaxCacheBufferLength \in Nat
        BY LenProperties, ConstAssumption
      <4>3. Len(r) = 0
        BY <2>1, <3>1, <4>1, <4>2 DEF RecvCount, Smaller
      <4> QED
        BY <4>1, <4>3, EmptySeq
    <3> QED
      BY <3>1, <3>2 DEF Readable, EndCame
  <2>5. ASSUME NEW d \in Remotes, RemoteEvent(d) PROVE peer[c] # "up"
    <3>1. d \in Conns
      BY DEF Conns
    <3>2. EndCame(d) /\ Ends(d, "closed")
      BY <2>3, <2>5, <3>1 DEF RemoteEvent
    <3>3. PICK state : state = "closed"
      OBVIOUS
    <3>4. d = c
      BY <2>2, <3>1, <3>2, <3>3
    <3> QED
      BY <3>2, <3>4 DEF EndCame
  <2>6. ASSUME NEW d \in Conns,
               Reconnect(d) \/ Accept(d) \/ SendPacket(d) \/ Arrive(d) \/ PeerEnds(d)
        PROVE  FALSE
    BY <1>1, <2>6 DEF Reconnect, Accept, SendPacket, Arrive, PeerEnds, hostVars,
                      PacketInv, PacketTypes
  <2> QED
    BY <2>4, <2>5, <2>6 DEF Next, HostStep, Conns
<1> QED
  BY <1>1, PacketInvariant, PTL DEF Spec, ClosedByPeer
=============================================================================
