---------------------------- MODULE GatewayProofs ----------------------------
(***************************************************************************)
(* Proofs about Gateway, for every number of clients and descriptors, every *)
(* set of slow clients and every value of the bounds.                      *)
(*                                                                         *)
(* The list of records and the kernel's table are related by RecordInv; a  *)
(* client's place (backlog, table, or neither) and its history by          *)
(* ClientInv.  Each action changes the list in one of three ways: not at   *)
(* all, by deleteSocketRec or by createSocketRec.  EntryInv, DrainInv and  *)
(* ReportInv are about the entries poll() filled: which owner of the       *)
(* descriptor they are of, and what may have changed since.                *)
(***************************************************************************)
EXTENDS GatewayHub, SequenceFacts, SequenceTheorems, TLAPS

\* The loop turns to the serial port only when there is something to read, and
\* to the reads and the close of an entry only when there is one.
SerialInv ==
  /\ pc = "serial" => serial # <<>>
  /\ pc \in {"rest", "close"} => pollFds # <<>>

RecordInv == TypeOK /\ SerialInv /\ HeadIsListener /\ RecordsAreOpenFds

-----------------------------------------------------------------------------
(* The list and the table.                                                 *)

\* Deleting the record of any descriptor keeps the list and the table in step.
LEMMA DeleteKeepsRecords ==
  ASSUME RecordInv, NEW fd, deleteSocketRec(fd)
  PROVE  /\ records' \in Seq(Fds \cup {NoFd})
         /\ fdTable' \in [Fds -> Conns \cup {Listener, NoConn}]
         /\ HeadIsListener' /\ RecordsAreOpenFds'
<1> DEFINE n == Len(records)
<1>1. /\ records \in Seq(Fds \cup {NoFd}) /\ n \in Nat /\ DOMAIN records = 1 .. n
      /\ fdTable \in [Fds -> Conns \cup {Listener, NoConn}]
  BY LenProperties DEF RecordInv, TypeOK
<1>2. NoFd \notin Fds /\ ListenFd \in Fds
  BY ConstAssumption DEF NoFd, Fds, ListenFd
<1>3. CASE KeepRec(fd)
  BY <1>1, <1>3 DEF KeepRec, RecordInv, HeadIsListener, RecordsAreOpenFds, Open, Range
<1>4. ASSUME NEW i \in DOMAIN records, UnlinkRec(fd, i)
      PROVE  /\ records' \in Seq(Fds \cup {NoFd})
             /\ fdTable' \in [Fds -> Conns \cup {Listener, NoConn}]
             /\ HeadIsListener' /\ RecordsAreOpenFds'
  <2>1. /\ i \in 1 .. n /\ i # 1 /\ records[i] = fd
        /\ records' = RemoveAt(records, i)
        /\ fdTable' = [f \in Fds |-> IF f = fd THEN NoConn ELSE fdTable[f]]
    BY <1>1, <1>4 DEF UnlinkRec, FirstWith
  <2>2. /\ records' \in Seq(Fds \cup {NoFd}) /\ DOMAIN records' = 1 .. (n - 1)
        /\ \A j \in DOMAIN records' : /\ OldIndex(i, j) \in (1 .. n) \ {i}
                                      /\ records'[j] = records[OldIndex(i, j)]
        /\ \A j, k \in DOMAIN records' : j < k <=> OldIndex(i, j) < OldIndex(i, k)
        /\ \A k \in (1 .. n) \ {i} : \E j \in DOMAIN records' : records'[j] = records[k]
    <3> DEFINE S == Fds \cup {NoFd}
    <3>1. records \in Seq(S) /\ i \in 1 .. Len(records) /\ records' = RemoveAt(records, i)
      BY <1>1, <2>1
    <3> HIDE DEF S
    <3>2. /\ records' \in Seq(S) /\ DOMAIN records' = 1 .. (Len(records) - 1)
          /\ \A j \in DOMAIN records' : /\ OldIndex(i, j) \in (1 .. Len(records)) \ {i}
                                        /\ records'[j] = records[OldIndex(i, j)]
          /\ \A j, k \in DOMAIN records' : j < k <=> OldIndex(i, j) < OldIndex(i, k)
          /\ \A k \in (1 .. Len(records)) \ {i} : \E j \in DOMAIN records' : records'[j] = records[k]
      BY <3>1, RemoveAtKeeps, Z3
    <3> QED
      BY <3>2 DEF S
  <2>3. fdTable' \in [Fds -> Conns \cup {Listener, NoConn}]
    BY <1>1, <2>1
  <2>4. fd # ListenFd
    BY <1>1, <1>2, <2>1 DEF RecordInv, HeadIsListener, RecordsAreOpenFds
  <2>5. HeadIsListener'
    <3>1. 1 \in DOMAIN records' /\ OldIndex(i, 1) = 1
      BY <1>1, <2>1, <2>2 DEF OldIndex
    <3>2. records'[1] = records[1]
      <4>1. \A j \in DOMAIN records' : records'[j] = records[OldIndex(i, j)]
        BY <2>2
      <4> QED
        BY <3>1, <4>1
    <3>3. records' # <<>>
      <4>1. DOMAIN records' = 1 .. Len(records') /\ Len(<<>>) = 0
        BY <2>2, LenProperties, EmptySeq
      <4> QED
        BY <3>1, <4>1
    <3> QED
      BY <1>2, <2>1, <2>4, <3>2, <3>3 DEF RecordInv, HeadIsListener
  <2>6. ASSUME NEW f \in Fds PROVE Open(f)' <=> f \in Range(records')
    <3>1. Open(f)' <=> f # fd /\ Open(f)
      BY <2>1 DEF Open
    <3>2. CASE f \in Range(records')
      <4>1. PICK j \in DOMAIN records' : records'[j] = f
        BY <3>2 DEF Range
      <4>2. records[OldIndex(i, j)] = f /\ OldIndex(i, j) \in DOMAIN records /\ OldIndex(i, j) # i
        BY <1>1, <2>2, <4>1
      <4>3. f # fd
        BY <1>1, <1>2, <2>1, <4>2 DEF RecordInv, RecordsAreOpenFds
      <4> QED
        BY <3>1, <3>2, <4>2, <4>3 DEF RecordInv, RecordsAreOpenFds, Range
    <3>3. CASE f # fd /\ Open(f)
      <4>1. PICK k \in DOMAIN records : records[k] = f
        BY <3>3 DEF RecordInv, RecordsAreOpenFds, Range
      <4>2. k \in (1 .. n) \ {i}
        BY <1>1, <2>1, <3>3, <4>1
      <4> QED
        BY <2>2, <3>1, <3>3, <4>1, <4>2 DEF Range
    <3> QED
      BY <3>1, <3>2, <3>3
  <2>7. ASSUME NEW j \in DOMAIN records', NEW k \in DOMAIN records', j # k,
               records'[j] = records'[k]
        PROVE  records'[j] = NoFd
    <3>1. OldIndex(i, j) # OldIndex(i, k)
      BY <1>1, <2>2, <2>7
    <3> QED
      BY <1>1, <2>2, <2>7, <3>1 DEF RecordInv, RecordsAreOpenFds
  <2> QED
    BY <2>2, <2>3, <2>5, <2>6, <2>7 DEF RecordsAreOpenFds
<1> QED
  BY <1>3, <1>4, deleteSocketRec(fd) DEF deleteSocketRec

\* Accepting a connection, or failing to, keeps the list and the table in step.
LEMMA CreateKeepsRecords ==
  ASSUME RecordInv, createSocketRec
  PROVE  /\ records' \in Seq(Fds \cup {NoFd})
         /\ fdTable' \in [Fds -> Conns \cup {Listener, NoConn}]
         /\ backlog' \in Seq(Conns)
         /\ joinedAt' \in [Conns -> Nat \cup {-1}]
         /\ HeadIsListener' /\ RecordsAreOpenFds'
<1> DEFINE n == Len(records)
           S == Fds \cup {NoFd}
<1>1. /\ records \in Seq(S) /\ n \in Nat /\ DOMAIN records = 1 .. n
      /\ fdTable \in [Fds -> Conns \cup {Listener, NoConn}]
      /\ backlog \in Seq(Conns) /\ joinedAt \in [Conns -> Nat \cup {-1}] /\ bcast \in Nat
  BY LenProperties DEF RecordInv, TypeOK
<1>2. NoFd \notin Fds /\ ListenFd \in Fds
  BY ConstAssumption DEF NoFd, Fds, ListenFd
<1>3. n >= 1 /\ records[1] = ListenFd
  <2>1. n \in Nat \ {0}
    BY <1>1, EmptySeq, Zenon DEF RecordInv, HeadIsListener
  <2> QED
    BY <2>1 DEF RecordInv, HeadIsListener
<1>4. PICK e \in S :
        /\ records' = Append(records, e)
        /\ e \in Fds => fdTable[e] = NoConn
        /\ e # NoFd => /\ backlog # <<>> /\ backlog' = Tail(backlog)
                       /\ fdTable' = [fdTable EXCEPT ![e] = Head(backlog)]
                       /\ joinedAt' = [joinedAt EXCEPT ![Head(backlog)] = bcast]
        /\ e = NoFd => UNCHANGED <<fdTable, joinedAt, backlog>>
  BY <1>2 DEF createSocketRec, FreeFds
<1>5. /\ records' \in Seq(S) /\ DOMAIN records' = 1 .. (n + 1)
      /\ \A j \in 1 .. n : records'[j] = records[j]
      /\ records'[n + 1] = e /\ records' # <<>>
  BY <1>1, <1>4, AppendKeeps, Z3
<1>6. e # NoFd => Head(backlog) \in Conns /\ Tail(backlog) \in Seq(Conns)
  BY <1>1, <1>4, HeadTailProperties
<1>7. /\ fdTable' \in [Fds -> Conns \cup {Listener, NoConn}]
      /\ backlog' \in Seq(Conns)
      /\ joinedAt' \in [Conns -> Nat \cup {-1}]
  BY <1>1, <1>4, <1>6
<1>8. HeadIsListener'
  <2>1. records'[1] = ListenFd
    BY <1>3, <1>5, 1 \in 1 .. n
  <2>2. e # ListenFd
    BY <1>2, <1>4, ConstAssumption DEF RecordInv, HeadIsListener
  <2>3. fdTable'[ListenFd] = Listener
    BY <1>1, <1>2, <1>4, <2>2 DEF RecordInv, HeadIsListener
  <2> QED
    BY <1>5, <2>1, <2>3 DEF HeadIsListener
<1>9. RecordsAreOpenFds'
  <2>1. e \in Fds => ~Open(e) /\ e \notin Range(records)
    BY <1>4 DEF RecordInv, RecordsAreOpenFds, Open
  <2>2. Range(records') = Range(records) \cup {e}
    <3>1. \A j \in 1 .. (n + 1) : j \in 1 .. n \/ j = n + 1
      BY <1>1
    <3>2. 1 .. n \subseteq 1 .. (n + 1) /\ n + 1 \in 1 .. (n + 1)
      BY <1>1
    <3> HIDE DEF n, S
    <3> QED
      BY <1>1, <1>5, <3>1, <3>2 DEF Range
  <2>3. ASSUME NEW f \in Fds PROVE Open(f)' <=> f \in Range(records')
    <3>1. f # e => (Open(f)' <=> Open(f))
      BY <1>1, <1>4 DEF Open
    <3>2. f = e => Open(f)'
      BY <1>1, <1>2, <1>4, <1>6, ConstAssumption DEF Open
    <3> QED
      BY <2>1, <2>2, <3>1, <3>2 DEF RecordInv, RecordsAreOpenFds
  <2>4. ASSUME NEW j \in DOMAIN records', NEW k \in DOMAIN records', j # k,
               records'[j] = records'[k]
        PROVE  records'[j] = NoFd
    <3>1. CASE j \in 1 .. n /\ k \in 1 .. n
      BY <1>1, <1>5, <2>4, <3>1 DEF RecordInv, RecordsAreOpenFds
    <3>2. CASE j = n + 1 \/ k = n + 1
      <4>1. e \in Range(records)
        BY <1>1, <1>5, <2>4, <3>2 DEF Range
      <4> QED
        BY <1>5, <2>1, <2>4, <3>2, <4>1
    <3> QED
      BY <1>1, <1>5, <3>1, <3>2
  <2> QED
    BY <2>3, <2>4 DEF RecordsAreOpenFds
<1> QED
  BY <1>5, <1>7, <1>8, <1>9

-----------------------------------------------------------------------------
(* The steps of the gateway.                                               *)

\* What a step does to the list, the table and the backlog.
ListUnchanged == UNCHANGED <<records, fdTable, joinedAt, backlog>>
ListDelete == UNCHANGED <<joinedAt, backlog>> /\ \E fd : deleteSocketRec(fd)
ListConnect(c) == UNCHANGED <<records, fdTable, joinedAt>> /\ backlog' = Append(backlog, c)

\* Every step leaves the list alone, deletes a record, creates one, or is a
\* connect.
LEMMA StepOfList ==
  ASSUME [Next]_vars
  PROVE  \/ ListUnchanged \/ ListDelete \/ createSocketRec
         \/ \E c \in Conns : Connect(c) /\ ListConnect(c)
<1> USE DEF ListUnchanged, histVars, loopVars
<1>1. CASE PollReturns \/ ServeNoise \/ SkipIdle \/ LoopAgain
  BY <1>1 DEF PollReturns, ServeNoise, SkipIdle, LoopAgain
<1>2. CASE SendAllClients
  BY <1>2 DEF SendAllClients, TakeFrame
<1>3. ASSUME NEW k \in 2 .. Len(records), SendStopsAtError(k) PROVE ListDelete
  BY <1>3 DEF SendStopsAtError, TakeFrame, ListDelete
<1>4. ASSUME NEW k \in 2 .. Len(records), SendIsKilled(k) PROVE ListUnchanged
  BY <1>4 DEF SendIsKilled, TakeFrame
<1>5. CASE ServeListener
  BY <1>5 DEF ServeListener
<1>6. CASE ReadClient \/ ReadMore \/ ReadEnds \/ CloseClient
  BY <1>6 DEF ReadClient, ReadMore, ReadEnds, CloseClient, ListDelete
<1>7. CASE Environment
  <2>1. ASSUME NEW c \in Conns, Connect(c) PROVE ListConnect(c)
    BY <2>1 DEF Connect, EnvKeeps, ListConnect
  <2>2. ASSUME NEW c \in Conns, ClientStep(c), ~Connect(c)
        PROVE  ListUnchanged
    BY <2>2 DEF ClientStep, SendCommand, SendStart, SendRest, Shutdown, ResetArrives, EnvKeeps
  <2>3. CASE SocSends \/ SocFinishes
    BY <2>3 DEF SocSends, SocFinishes, EnvKeeps
  <2> QED
    BY <1>7, <2>1, <2>2, <2>3 DEF Environment
<1>8. CASE UNCHANGED vars
  BY <1>8 DEF vars
<1> QED
  BY <1>1, <1>2, <1>3, <1>4, <1>5, <1>6, <1>7, <1>8 DEF Next, GatewayStep

\* The types of the variables that are not part of the list.
LoopTypes ==
  /\ pc \in {"poll", "serial", "sweep", "rest", "close", "print", "dead"}
  /\ pollFds \in Seq(PollEntry)
  /\ peer \in [Conns -> PeerStates]
  /\ unread \in [Conns -> Nat]
  /\ split \in [Conns -> SplitStates]
  /\ serial \in Seq(SerialItem)
  /\ got \in [Conns -> Seq(Nat)]
  /\ bcast \in Nat
  /\ drops \in Nat

\* What poll() reports is a set of events.
LEMMA ReventsType == \A f : Revents(f) \in SUBSET {"POLLIN", "POLLRDHUP"}
  BY DEF Revents

\* A broadcast, however far it gets, keeps the types.
LEMMA SendTypes ==
  ASSUME TypeOK, SerialInv, TakeFrame, NEW k, Deliver(k)
  PROVE  /\ peer' \in [Conns -> PeerStates]
         /\ got' \in [Conns -> Seq(Nat)]
         /\ serial' \in Seq(SerialItem)
         /\ bcast' \in Nat
         /\ UNCHANGED <<pollFds, unread, split>>
         /\ AfterFrame \in {"print", "sweep"}
<1>1. serial' \in Seq(SerialItem)
  BY HeadTailProperties DEF TypeOK, SerialInv, TakeFrame
<1>2. bcast' \in Nat /\ bcast + 1 \in Nat
  BY DEF TypeOK, TakeFrame
<1>3. \A c \in Conns : Append(got[c], bcast + 1) \in Seq(Nat)
  BY <1>2, AppendProperties DEF TypeOK
<1>4. got' \in [Conns -> Seq(Nat)]
  BY <1>3 DEF Deliver, TypeOK
<1>5. peer' \in [Conns -> PeerStates]
  BY DEF Deliver, TypeOK, PeerStates
<1> QED
  BY <1>1, <1>2, <1>4, <1>5 DEF TakeFrame, AfterFrame

\* A step of the loop keeps these types.
LEMMA LoopTypesKept ==
  ASSUME TypeOK, SerialInv, GatewayStep
  PROVE  LoopTypes' /\ SerialInv'
<1> USE DEF LoopTypes, SerialInv, histVars
<1>1. CASE PollReturns
  <2> DEFINE n == Len(records)
             p == [i \in 1 .. n |-> EntryOf(records[i])]
  <2>1. n \in Nat /\ \A i \in 1 .. n : records[i] \in Fds \cup {NoFd}
    BY LenProperties, ElementOfSeq DEF TypeOK
  <2>2. p \in [1 .. n -> PollEntry]
    BY <2>1, ReventsType DEF PollEntry, EntryOf, TypeOK
  <2>3. pollFds' \in Seq(PollEntry)
    <3>1. pollFds' = p
      BY <1>1 DEF PollReturns
    <3> HIDE DEF p, n
    <3> QED
      BY <2>1, <2>2, <3>1, FunctionIsSeq
  <2> QED
    BY <1>1, <2>3 DEF PollReturns, TypeOK
<1>2. CASE ServeNoise
  <2>1. serial' \in Seq(SerialItem)
    BY <1>2, HeadTailProperties DEF ServeNoise, TypeOK
  <2> QED
    BY <1>2, <2>1 DEF ServeNoise, TypeOK
<1>3. CASE SendAllClients
  BY <1>3, SendTypes DEF SendAllClients, TypeOK
<1>4. ASSUME NEW k \in 2 .. Len(records), SendStopsAtError(k) PROVE LoopTypes' /\ SerialInv'
  BY <1>4, SendTypes DEF SendStopsAtError, TypeOK
<1>5. ASSUME NEW k \in 2 .. Len(records), SendIsKilled(k) PROVE LoopTypes' /\ SerialInv'
  BY <1>5, SendTypes DEF SendIsKilled, TypeOK
<1>6. CASE SkipIdle \/ ServeListener
  <2>1. pc' = pc /\ pc = "sweep" /\ UNCHANGED <<peer, unread, split, serial, got, bcast, drops>>
    BY <1>6 DEF SkipIdle, ServeListener, Visiting
  <2>2. pollFds' \in Seq(PollEntry)
    BY <1>6, HeadTailProperties DEF SkipIdle, ServeListener, Visiting, TypeOK
  <2> QED
    BY <2>1, <2>2 DEF TypeOK
<1>7. CASE ReadClient
  <2>1. /\ pc' \in {"rest", "close"} /\ pollFds # <<>>
        /\ UNCHANGED <<pollFds, peer, split, serial, got, bcast, drops>>
    BY <1>7 DEF ReadClient, ReadCommands, Visiting
  <2>2. unread' \in [Conns -> Nat]
    <3> HIDE DEF LoopTypes, SerialInv
    <3>1. unread \in [Conns -> Nat]
      BY DEF TypeOK
    <3>2. ASSUME NEW fd, ReadCommands(fd) PROVE unread' \in [Conns -> Nat]
      BY <3>1, <3>2 DEF ReadCommands
    <3> QED
      BY <1>7, <3>1, <3>2 DEF ReadClient
  <2> QED
    BY <2>1, <2>2 DEF TypeOK
<1>8. CASE ReadMore
  <2>1. /\ pc = "rest" /\ pc' \in {"rest", "close", "dead"}
        /\ UNCHANGED <<pollFds, serial, got, bcast, drops>>
    BY <1>8 DEF ReadMore
  <2>2. PICK c \in Conns :
          /\ unread' = [unread EXCEPT ![c] = 0]
          /\ split' = [split EXCEPT ![c] = IF @ = "start" THEN "torn" ELSE "no"]
          /\ peer' = peer \/ peer' = ErrorRead(c)
    BY <1>8 DEF ReadMore
  <2>3. /\ unread' \in [Conns -> Nat] /\ split' \in [Conns -> SplitStates]
        /\ peer' \in [Conns -> PeerStates]
    BY <2>2 DEF TypeOK, SplitStates, PeerStates, ErrorRead
  <2> QED
    BY <2>1, <2>3 DEF TypeOK
<1>9. CASE ReadEnds
  <2>1. /\ pc = "rest" /\ pc' = "close"
        /\ UNCHANGED <<pollFds, unread, split, serial, got, bcast, drops>>
        /\ \E c \in Conns : peer' = ErrorRead(c)
    BY <1>9 DEF ReadEnds
  <2>2. peer' \in [Conns -> PeerStates]
    BY <2>1 DEF TypeOK, PeerStates, ErrorRead
  <2> QED
    BY <2>1, <2>2 DEF TypeOK
<1>10. CASE CloseClient
  <2>1. pollFds # <<>>
    BY <1>10 DEF CloseClient
  <2>2. pollFds' \in Seq(PollEntry)
    BY <1>10, <2>1, HeadTailProperties DEF CloseClient, TypeOK
  <2> QED
    BY <1>10, <2>2 DEF CloseClient, TypeOK
<1>11. CASE LoopAgain
  BY <1>11 DEF LoopAgain, TypeOK
<1> QED
  BY <1>1, <1>2, <1>3, <1>4, <1>5, <1>6, <1>7, <1>8, <1>9, <1>10, <1>11 DEF GatewayStep

\* A step of the environment does too.
LEMMA EnvironmentTypesKept ==
  ASSUME TypeOK, SerialInv, Environment
  PROVE  LoopTypes' /\ SerialInv'
<1> USE DEF LoopTypes, SerialInv, histVars, loopVars, EnvKeeps
<1>1. ASSUME NEW c \in Conns, ClientStep(c)
      PROVE  LoopTypes' /\ SerialInv'
  <2>1. peer' \in [Conns -> PeerStates]
    BY <1>1 DEF ClientStep, Connect, SendCommand, SendStart, SendRest, Shutdown, ResetArrives,
                TypeOK, PeerStates
  <2>2. unread' \in [Conns -> Nat]
    <3> HIDE DEF LoopTypes, SerialInv
    <3>1. unread \in [Conns -> Nat] /\ unread[c] + 1 \in Nat
      BY DEF TypeOK
    <3>2. unread' = unread \/ unread' = [unread EXCEPT ![c] = @ + 1]
      BY <1>1 DEF ClientStep, Connect, SendCommand, SendStart, SendRest, Shutdown, ResetArrives
    <3> QED
      BY <3>1, <3>2
  <2>3. split' \in [Conns -> SplitStates]
    <3> HIDE DEF LoopTypes, SerialInv
    <3>1. split' = split \/ \E x \in SplitStates : split' = [split EXCEPT ![c] = x]
      BY <1>1 DEF ClientStep, Connect, SendCommand, SendStart, SendRest, Shutdown, ResetArrives,
                  SplitStates
    <3> QED
      BY <3>1 DEF TypeOK
  <2>4. UNCHANGED <<pc, pollFds, serial, got, bcast, drops>>
    BY <1>1 DEF ClientStep, Connect, SendCommand, SendStart, SendRest, Shutdown, ResetArrives
  <2> QED
    BY <2>1, <2>2, <2>3, <2>4 DEF TypeOK
<1>2. CASE SocSends \/ SocFinishes
  <2>0. serial \in Seq(SerialItem)
    BY DEF TypeOK
  <2>1. PICK s \in Seq(SerialItem), item \in SerialItem : serial' = Append(s, item)
    <3>1. CASE SocSends
      BY <2>0, <3>1 DEF SocSends
    <3>2. CASE SocFinishes
      <4>1. Front(serial) \in Seq(SerialItem)
        <5>1. serial # <<>>
          BY <3>2 DEF SocFinishes
        <5> QED
          BY <2>0, <5>1, FrontIsSeq
      <4> QED
        BY <3>2, <4>1 DEF SocFinishes, SerialItem
    <3> QED
      BY <1>2, <3>1, <3>2
  <2>2. serial' \in Seq(SerialItem) /\ serial' # <<>>
    BY <2>1, AppendProperties
  <2> QED
    BY <1>2, <2>2 DEF SocSends, SocFinishes, TypeOK
<1> QED
  BY <1>1, <1>2 DEF Environment

\* RecordInv is inductive.
LEMMA RecordStep == RecordInv /\ [Next]_vars => RecordInv'
<1> SUFFICES ASSUME RecordInv, [Next]_vars PROVE RecordInv'
  OBVIOUS
<1>1. LoopTypes' /\ SerialInv'
  <2>1. CASE GatewayStep
    BY <2>1, LoopTypesKept DEF RecordInv
  <2>2. CASE Environment
    BY <2>2, EnvironmentTypesKept DEF RecordInv
  <2>3. CASE UNCHANGED vars
    BY <2>3 DEF RecordInv, TypeOK, SerialInv, LoopTypes, vars, loopVars, histVars
  <2> QED
    BY <2>1, <2>2, <2>3 DEF Next
<1>2. /\ records' \in Seq(Fds \cup {NoFd})
      /\ fdTable' \in [Fds -> Conns \cup {Listener, NoConn}]
      /\ backlog' \in Seq(Conns)
      /\ joinedAt' \in [Conns -> Nat \cup {-1}]
      /\ HeadIsListener' /\ RecordsAreOpenFds'
  <2>1. CASE ListUnchanged
    BY <2>1 DEF ListUnchanged, RecordInv, TypeOK, HeadIsListener, RecordsAreOpenFds, Open, Range
  <2>2. CASE ListDelete
    BY <2>2, DeleteKeepsRecords DEF ListDelete, RecordInv, TypeOK
  <2>3. CASE createSocketRec
    BY <2>3, CreateKeepsRecords
  <2>4. ASSUME NEW c \in Conns, ListConnect(c)
        PROVE  /\ records' \in Seq(Fds \cup {NoFd})
               /\ fdTable' \in [Fds -> Conns \cup {Listener, NoConn}]
               /\ backlog' \in Seq(Conns)
               /\ joinedAt' \in [Conns -> Nat \cup {-1}]
               /\ HeadIsListener' /\ RecordsAreOpenFds'
    <3>1. backlog' \in Seq(Conns)
      BY <2>4, AppendProperties DEF ListConnect, RecordInv, TypeOK
    <3> QED
      BY <2>4, <3>1 DEF ListConnect, RecordInv, TypeOK, HeadIsListener, RecordsAreOpenFds, Open,
                        Range
  <2> QED
    BY <2>1, <2>2, <2>3, <2>4, StepOfList
<1> QED
  BY <1>1, <1>2 DEF RecordInv, LoopTypes, TypeOK

\* RecordInv holds at the start.
LEMMA RecordInit == Init => RecordInv
<1> SUFFICES ASSUME Init PROVE RecordInv
  OBVIOUS
<1>1. ListenFd \in Fds /\ NoFd \notin Fds
  BY ConstAssumption DEF ListenFd, Fds, NoFd
<1>2. records \in Seq(Fds \cup {NoFd}) /\ records # <<>> /\ records[1] = ListenFd
      /\ DOMAIN records = {1}
  BY <1>1 DEF Init
<1>3. TypeOK
  BY <1>1, <1>2, EmptySeq DEF Init, TypeOK, PeerStates, SplitStates
<1>4. SerialInv /\ HeadIsListener /\ RecordsAreOpenFds
  BY <1>1, <1>2, ConstAssumption
     DEF Init, SerialInv, HeadIsListener, RecordsAreOpenFds, Open, Range
<1> QED
  BY <1>3, <1>4 DEF RecordInv

\* RecordInv is an invariant of the gateway.
THEOREM RecordInvariant == Spec => []RecordInv
  BY RecordInit, RecordStep, PTL DEF Spec

\* Every variable keeps its type.
THEOREM TypeCorrect == Spec => []TypeOK
  BY RecordInvariant, PTL DEF RecordInv

\* Record 1 is the listening socket's, and its descriptor stays open.
THEOREM HeadStaysListener == Spec => []HeadIsListener
  BY RecordInvariant, PTL DEF RecordInv

\* The open descriptors are those the list holds, each once.
THEOREM OpenFdsAreRecords == Spec => []RecordsAreOpenFds
  BY RecordInvariant, PTL DEF RecordInv

-----------------------------------------------------------------------------
(* Clients and frames.                                                     *)

\* Where a client is, and what it was sent: it has one descriptor at most, it
\* waits in the backlog at most once and then was accepted, and nothing was
\* sent to it before.
PlaceInv ==
  /\ \A f, g \in Fds : fdTable[f] = fdTable[g] /\ fdTable[f] # NoConn => f = g
  /\ \A i, j \in DOMAIN backlog : backlog[i] = backlog[j] => i = j
  /\ \A c \in Conns :
       /\ Pending(c) => joinedAt[c] = -1
       /\ Held(c) => joinedAt[c] # -1
       /\ joinedAt[c] = -1 => got[c] = <<>>
       /\ peer[c] = "none" => ~Pending(c) /\ joinedAt[c] = -1
       /\ joinedAt[c] <= bcast

ClientInv == RecordInv /\ PlaceInv /\ MissesBoundedByDrops /\ EarlierRecordsMissLess

\* A step that writes nothing to the clients.
Quiet ==
  /\ UNCHANGED <<got, bcast, drops>>
  /\ pc = "dead" => pc' = "dead"
  /\ \A c \in Conns : peer'[c] = "none" => peer[c] = "none"

\* A broadcast that is taken by the records before the k-th: the list is at its
\* end there, or record k is deleted, or the process is killed.
Broadcast(k) ==
  /\ bcast' = bcast + 1
  /\ Deliver(k)
  /\ UNCHANGED <<joinedAt, backlog>>
  /\ \A c \in Conns : peer'[c] = "none" => peer[c] = "none"
  /\ pc # "dead"
  /\ \/ k = Len(records) + 1 /\ UNCHANGED <<records, fdTable, drops>>
     \/ deleteSocketRec(records[k]) /\ drops' = drops + 1
     \/ pc' = "dead" /\ UNCHANGED <<records, fdTable, drops>>

\* A client that has not connected after a broadcast had not before.
LEMMA DeliverPeers ==
  ASSUME TypeOK, NEW k, Deliver(k), NEW c \in Conns, peer'[c] = "none"
  PROVE  peer[c] = "none"
  BY DEF Deliver, TypeOK

\* Every step is one or the other.
LEMMA StepOfFrames ==
  ASSUME RecordInv, [Next]_vars
  PROVE  \/ Quiet
         \/ \E k \in 2 .. (Len(records) + 1) : Broadcast(k)
<1>1. TypeOK /\ Len(records) \in Nat \ {0}
  <2>1. records \in Seq(Fds \cup {NoFd}) /\ records # <<>>
    BY DEF RecordInv, TypeOK, HeadIsListener
  <2> QED
    BY <2>1, EmptySeq, Zenon DEF RecordInv
<1>2. CASE PollReturns \/ ServeNoise \/ SkipIdle \/ ServeListener \/ LoopAgain
  BY <1>2 DEF PollReturns, ServeNoise, SkipIdle, ServeListener, LoopAgain, Visiting, Quiet, histVars
<1>8. CASE ReadClient \/ ReadMore \/ ReadEnds \/ CloseClient
  <2>1. pc # "dead" /\ UNCHANGED <<got, bcast, drops>>
    BY <1>8 DEF ReadClient, ReadMore, ReadEnds, CloseClient, Visiting, histVars
  <2>2. peer' = peer \/ \E c \in Conns : peer' = ErrorRead(c)
    BY <1>8 DEF ReadClient, ReadMore, ReadEnds, CloseClient
  <2>3. \A c \in Conns : peer'[c] = "none" => peer[c] = "none"
    BY <1>1, <2>2 DEF TypeOK, ErrorRead
  <2> QED
    BY <2>1, <2>3 DEF Quiet
<1>3. CASE SendAllClients
  <2>1. Broadcast(Len(records) + 1)
    BY <1>1, <1>3, DeliverPeers DEF SendAllClients, TakeFrame, Broadcast
  <2> QED
    BY <1>1, <2>1
<1>4. ASSUME NEW k \in 2 .. Len(records), SendStopsAtError(k) PROVE Broadcast(k)
  BY <1>1, <1>4, DeliverPeers DEF SendStopsAtError, TakeFrame, Broadcast
<1>5. ASSUME NEW k \in 2 .. Len(records), SendIsKilled(k) PROVE Broadcast(k)
  BY <1>1, <1>5, DeliverPeers DEF SendIsKilled, TakeFrame, Broadcast
<1>6. CASE Environment
  <2>1. UNCHANGED <<got, bcast, drops, pc>>
    BY <1>6 DEF Environment, ClientStep, Connect, SendCommand, SendStart, SendRest, Shutdown,
                ResetArrives, SocSends, SocFinishes, EnvKeeps, loopVars, histVars
  <2>2. \/ peer' = peer
        \/ \E c \in Conns, p \in {"up", "fin", "reset", "broken"} : peer' = [peer EXCEPT ![c] = p]
    BY <1>6 DEF Environment, ClientStep, Connect, SendCommand, SendStart, SendRest, Shutdown,
                ResetArrives, SocSends, SocFinishes
  <2>3. \A c \in Conns : peer'[c] = "none" => peer[c] = "none"
    BY <1>1, <2>2 DEF TypeOK
  <2> QED
    BY <2>1, <2>3 DEF Quiet
<1>7. CASE UNCHANGED vars
  BY <1>7 DEF vars, loopVars, histVars, Quiet
<1> QED
  <2>1. 2 .. Len(records) \subseteq 2 .. (Len(records) + 1)
    BY <1>1
  <2> QED
    BY <1>2, <1>3, <1>4, <1>5, <1>6, <1>7, <1>8, <2>1 DEF Next, GatewayStep

\* What createSocketRec does, by the descriptor it got from accept().
LEMMA CreateShape ==
  ASSUME RecordInv, createSocketRec
  PROVE  \E e \in Fds \cup {NoFd} :
           /\ records' = Append(records, e)
           /\ e \in Fds => fdTable[e] = NoConn
           /\ e # NoFd => /\ backlog # <<>> /\ backlog' = Tail(backlog)
                          /\ Head(backlog) \in Conns
                          /\ fdTable' = [fdTable EXCEPT ![e] = Head(backlog)]
                          /\ joinedAt' = [joinedAt EXCEPT ![Head(backlog)] = bcast]
           /\ e = NoFd => UNCHANGED <<fdTable, joinedAt, backlog>>
<1>1. NoFd \notin Fds
  BY ConstAssumption DEF NoFd, Fds
<1>2. backlog # <<>> => Head(backlog) \in Conns
  BY HeadTailProperties DEF RecordInv, TypeOK
<1> QED
  BY <1>1, <1>2 DEF createSocketRec, FreeFds

\* A record deleted closes one descriptor at most and opens none.
LEMMA DeleteShape ==
  ASSUME RecordInv, NEW fd, deleteSocketRec(fd)
  PROVE  \A f \in Fds : fdTable'[f] = fdTable[f] \/ fdTable'[f] = NoConn
  BY DEF deleteSocketRec, KeepRec, UnlinkRec, RecordInv, TypeOK

\* Who is sent something holds a descriptor.
LEMMA DeliverReaches ==
  ASSUME RecordInv, NEW k, Deliver(k), NEW c \in Conns
  PROVE  \/ got'[c] = got[c]
         \/ /\ got'[c] = Append(got[c], bcast + 1)
            /\ Held(c)
  BY DEF Deliver, RecordInv, TypeOK, Refers, Held

\* What every step keeps of the clients' histories.
LEMMA HistoryStep ==
  ASSUME RecordInv, PlaceInv, [Next]_vars
  PROVE  /\ bcast' \in {bcast, bcast + 1}
         /\ \A c \in Conns : /\ peer'[c] = "none" => peer[c] = "none"
                             /\ joinedAt[c] = -1 => got'[c] = <<>>
<1>1. CASE Quiet
  BY <1>1 DEF Quiet, PlaceInv
<1>2. ASSUME NEW k \in 2 .. (Len(records) + 1), Broadcast(k)
      PROVE  /\ bcast' \in {bcast, bcast + 1}
             /\ \A c \in Conns : /\ peer'[c] = "none" => peer[c] = "none"
                                 /\ joinedAt[c] = -1 => got'[c] = <<>>
  BY <1>2, DeliverReaches DEF Broadcast, PlaceInv
<1> QED
  BY <1>1, <1>2, StepOfFrames

\* Only the front of the backlog is accepted, and the rest stay as they were.
LEMMA AcceptFront ==
  ASSUME RecordInv, PlaceInv, backlog # <<>>, backlog' = Tail(backlog)
  PROVE  /\ \A i, j \in DOMAIN backlog' : backlog'[i] = backlog'[j] => i = j
         /\ \A c \in Conns : Pending(c)' => Pending(c) /\ c # Head(backlog)
         /\ Pending(Head(backlog))
<1> DEFINE n == Len(backlog)
<1>1. /\ backlog \in Seq(Conns) /\ n \in Nat \ {0} /\ DOMAIN backlog = 1 .. n
      /\ Head(backlog) = backlog[1]
  <2>1. backlog \in Seq(Conns)
    BY DEF RecordInv, TypeOK
  <2>2. n \in Nat \ {0}
    BY <2>1, EmptySeq, Zenon
  <2> QED
    BY <2>1, <2>2, LenProperties
<1>2. /\ DOMAIN backlog' = 1 .. (n - 1)
      /\ \A i \in 1 .. (n - 1) : backlog'[i] = backlog[i + 1] /\ i + 1 \in DOMAIN backlog
  BY <1>1, HeadTailProperties, LenProperties
<1>3. \A i, j \in DOMAIN backlog : backlog[i] = backlog[j] => i = j
  BY DEF PlaceInv
<1> HIDE DEF n
<1>4. \A i, j \in DOMAIN backlog' : backlog'[i] = backlog'[j] => i = j
  <2> SUFFICES ASSUME NEW i \in 1 .. (n - 1), NEW j \in 1 .. (n - 1), backlog'[i] = backlog'[j]
               PROVE  i = j
    BY <1>2
  <2>1. i + 1 = j + 1
    BY <1>2, <1>3
  <2> QED
    BY <1>1, <2>1
<1>5. ASSUME NEW c \in Conns, Pending(c)' PROVE Pending(c) /\ c # Head(backlog)
  <2>1. PICK i \in 1 .. (n - 1) : backlog'[i] = c
    BY <1>2, <1>5 DEF Pending
  <2>2. backlog[i + 1] = c /\ i + 1 \in DOMAIN backlog /\ i + 1 # 1 /\ 1 \in DOMAIN backlog
    BY <1>1, <1>2, <2>1
  <2> QED
    BY <1>1, <1>3, <2>2 DEF Pending
<1>6. Pending(Head(backlog))
  BY <1>1 DEF Pending
<1> QED
  BY <1>4, <1>5, <1>6

\* PlaceInv is inductive.
LEMMA PlaceStep ==
  ASSUME RecordInv, PlaceInv, [Next]_vars
  PROVE  PlaceInv'
<1>0. /\ bcast \in Nat /\ bcast' \in {bcast, bcast + 1}
      /\ joinedAt \in [Conns -> Nat \cup {-1}]
      /\ fdTable \in [Fds -> Conns \cup {Listener, NoConn}]
      /\ \A c \in Conns : /\ peer'[c] = "none" => peer[c] = "none"
                          /\ joinedAt[c] = -1 => got'[c] = <<>>
  BY HistoryStep DEF RecordInv, TypeOK
<1>1. ASSUME UNCHANGED <<joinedAt, backlog>>,
             \A f \in Fds : fdTable'[f] = fdTable[f] \/ fdTable'[f] = NoConn
      PROVE  PlaceInv'
  <2>1. \A c \in Conns : (Held(c)' => Held(c)) /\ (Pending(c)' <=> Pending(c))
    BY <1>1, ConstAssumption DEF Held, Pending
  <2>2. \A f, g \in Fds : fdTable'[f] = fdTable'[g] /\ fdTable'[f] # NoConn => f = g
    BY <1>1 DEF PlaceInv
  <2> QED
    BY <1>0, <1>1, <2>1, <2>2 DEF PlaceInv
<1>2. CASE createSocketRec
  <2>1. PICK e \in Fds \cup {NoFd} :
          /\ e \in Fds => fdTable[e] = NoConn
          /\ e # NoFd => /\ backlog # <<>> /\ backlog' = Tail(backlog)
                         /\ Head(backlog) \in Conns
                         /\ fdTable' = [fdTable EXCEPT ![e] = Head(backlog)]
                         /\ joinedAt' = [joinedAt EXCEPT ![Head(backlog)] = bcast]
          /\ e = NoFd => UNCHANGED <<fdTable, joinedAt, backlog>>
    BY <1>2, CreateShape
  <2>2. CASE e = NoFd
    BY <1>1, <2>1, <2>2
  <2>3. CASE e # NoFd
    <3> DEFINE h == Head(backlog)
    <3>1. /\ e \in Fds /\ fdTable[e] = NoConn /\ h \in Conns
          /\ fdTable' = [fdTable EXCEPT ![e] = h]
          /\ joinedAt' = [joinedAt EXCEPT ![h] = bcast]
      BY <2>1, <2>3
    <3>2. /\ \A i, j \in DOMAIN backlog' : backlog'[i] = backlog'[j] => i = j
          /\ \A c \in Conns : Pending(c)' => Pending(c) /\ c # h
          /\ Pending(h)
      BY <2>1, <2>3, AcceptFront
    <3> HIDE DEF h
    <3>3. joinedAt[h] = -1 /\ ~Held(h) /\ peer[h] # "none"
      BY <3>1, <3>2 DEF PlaceInv
    <3>4. \A c \in Conns : Held(c)' => Held(c) \/ c = h
      BY <1>0, <3>1 DEF Held
    <3>5. \A f, g \in Fds : fdTable'[f] = fdTable'[g] /\ fdTable'[f] # NoConn => f = g
      BY <1>0, <3>1, <3>3 DEF PlaceInv, Held
    <3>6. \A c \in Conns : joinedAt'[c] = IF c = h THEN bcast ELSE joinedAt[c]
      BY <1>0, <3>1
    <3> QED
      BY <1>0, <3>2, <3>3, <3>4, <3>5, <3>6 DEF PlaceInv
  <2> QED
    BY <2>2, <2>3
<1>3. ASSUME NEW c \in Conns, Connect(c), ListConnect(c) PROVE PlaceInv'
  <2>1. /\ peer[c] = "none" /\ peer'[c] # "none" /\ joinedAt[c] = -1 /\ ~Pending(c)
        /\ UNCHANGED <<fdTable, joinedAt>> /\ backlog' = Append(backlog, c)
    BY <1>3 DEF Connect, ListConnect, PlaceInv, RecordInv, TypeOK
  <2>2. /\ DOMAIN backlog' = 1 .. (Len(backlog) + 1) /\ Len(backlog) \in Nat
        /\ DOMAIN backlog = 1 .. Len(backlog)
        /\ \A j \in DOMAIN backlog : backlog'[j] = backlog[j]
        /\ backlog'[Len(backlog) + 1] = c
    <3>1. backlog \in Seq(Conns)
      BY DEF RecordInv, TypeOK
    <3> QED
      BY <2>1, <3>1, AppendKeeps, Z3
  <2>3. \A j \in DOMAIN backlog' : j \in DOMAIN backlog \/ j = Len(backlog) + 1
    BY <2>2
  <2>4. \A i, j \in DOMAIN backlog' : backlog'[i] = backlog'[j] => i = j
    BY <2>1, <2>2, <2>3 DEF PlaceInv, Pending
  <2>5. \A d \in Conns : (Pending(d)' => Pending(d) \/ d = c) /\ (Held(d)' <=> Held(d))
    BY <2>1, <2>2, <2>3 DEF Pending, Held
  <2> QED
    BY <1>0, <2>1, <2>4, <2>5 DEF PlaceInv
<1>4. CASE ListUnchanged
  BY <1>1, <1>4 DEF ListUnchanged
<1>5. CASE ListDelete
  BY <1>1, <1>5, DeleteShape DEF ListDelete
<1> QED
  BY <1>2, <1>3, <1>4, <1>5, StepOfList

\* A client is accepted once, and keeps the number it joined at.
LEMMA JoinStep ==
  ASSUME RecordInv, PlaceInv, [Next]_vars
  PROVE  \A c \in Conns :
           /\ Held(c)' => Held(c) \/ joinedAt[c] = -1
           /\ joinedAt'[c] = joinedAt[c] \/ (joinedAt[c] = -1 /\ joinedAt'[c] = bcast)
<1>0. /\ joinedAt \in [Conns -> Nat \cup {-1}]
      /\ fdTable \in [Fds -> Conns \cup {Listener, NoConn}]
  BY DEF RecordInv, TypeOK
<1>1. CASE createSocketRec
  <2>1. PICK e \in Fds \cup {NoFd} :
          /\ e # NoFd => /\ backlog # <<>> /\ backlog' = Tail(backlog)
                         /\ Head(backlog) \in Conns
                         /\ fdTable' = [fdTable EXCEPT ![e] = Head(backlog)]
                         /\ joinedAt' = [joinedAt EXCEPT ![Head(backlog)] = bcast]
          /\ e = NoFd => UNCHANGED <<fdTable, joinedAt, backlog>>
    BY <1>1, CreateShape
  <2>2. CASE e = NoFd
    BY <2>1, <2>2 DEF Held
  <2>3. CASE e # NoFd
    <3>1. joinedAt[Head(backlog)] = -1
      BY <2>1, <2>3, AcceptFront DEF PlaceInv
    <3> QED
      BY <1>0, <2>1, <2>3, <3>1 DEF Held
  <2> QED
    BY <2>2, <2>3
<1>2. CASE ListDelete
  BY <1>0, <1>2, DeleteShape, ConstAssumption DEF ListDelete, Held
<1>3. CASE ListUnchanged
  BY <1>3 DEF ListUnchanged, Held
<1>4. ASSUME NEW c \in Conns, ListConnect(c) PROVE UNCHANGED <<fdTable, joinedAt>>
  BY <1>4 DEF ListConnect
<1>5. CASE \E c \in Conns : Connect(c) /\ ListConnect(c)
  BY <1>4, <1>5 DEF Held
<1> QED
  BY <1>1, <1>2, <1>3, <1>5, StepOfList

\* A client that holds a descriptor has a record behind the head.
LEMMA HeldHasRecord ==
  ASSUME RecordInv, NEW c \in Conns, Held(c)
  PROVE  \E i \in 2 .. Len(records) : Refers(records[i], c)
<1>1. PICK f \in Fds : fdTable[f] = c
  BY DEF Held
<1>2. Open(f)
  BY <1>1, ConstAssumption DEF Open
<1>3. PICK i \in DOMAIN records : records[i] = f
  BY <1>2 DEF RecordInv, RecordsAreOpenFds, Range
<1>4. DOMAIN records = 1 .. Len(records) /\ Len(records) \in Nat
  BY LenProperties DEF RecordInv, TypeOK
<1>5. i # 1
  BY <1>1, <1>3, ConstAssumption DEF RecordInv, HeadIsListener
<1>6. i \in 2 .. Len(records)
  BY <1>3, <1>4, <1>5
<1> QED
  BY <1>1, <1>3, <1>6 DEF Refers

\* A client misses no more than was dropped.
LEMMA MissStep ==
  ASSUME RecordInv, PlaceInv, MissesBoundedByDrops, [Next]_vars, PlaceInv', RecordInv'
  PROVE  MissesBoundedByDrops'
<1> SUFFICES ASSUME NEW c \in Conns, Held(c)', pc' # "dead"
             PROVE  (bcast' - joinedAt'[c]) - Len(got'[c]) <= drops'
  BY DEF MissesBoundedByDrops
<1>1. /\ got[c] \in Seq(Nat) /\ bcast \in Nat /\ drops \in Nat /\ drops' \in Nat
      /\ joinedAt[c] \in Int /\ Len(got[c]) \in Nat
  BY LenProperties DEF RecordInv, TypeOK
<1>0. ASSUME NEW b \in Int, NEW j \in Int, NEW l \in Int, NEW d \in Int, (b - j) - l <= d
      PROVE  /\ ((b + 1) - j) - (l + 1) <= d
             /\ ((b + 1) - j) - l <= d + 1
             /\ ((b + 1) - j) - (l + 1) <= d + 1
  BY <1>0
<1>2. joinedAt'[c] # -1
  BY DEF PlaceInv
<1>3. CASE joinedAt[c] = -1
  <2>1. got'[c] = <<>> /\ joinedAt'[c] = bcast
    BY <1>2, <1>3, HistoryStep, JoinStep
  <2>2. Quiet
    BY <1>2, <1>3, StepOfFrames DEF Broadcast
  <2>3. bcast' = bcast /\ Len(got'[c]) = 0
    BY <2>1, <2>2 DEF Quiet
  <2> QED
    BY <1>1, <2>1, <2>3
<1>4. CASE joinedAt[c] # -1
  <2>1. joinedAt'[c] = joinedAt[c] /\ Held(c)
    BY <1>4, JoinStep
  <2>2. CASE Quiet
    BY <1>1, <2>1, <2>2 DEF Quiet, MissesBoundedByDrops
  <2>3. ASSUME NEW k \in 2 .. (Len(records) + 1), Broadcast(k)
        PROVE  (bcast' - joinedAt'[c]) - Len(got'[c]) <= drops'
    <3>1. bcast' = bcast + 1 /\ (bcast - joinedAt[c]) - Len(got[c]) <= drops
      BY <2>1, <2>3 DEF Broadcast, MissesBoundedByDrops
    <3>2. got'[c] = Append(got[c], bcast + 1) => Len(got'[c]) = Len(got[c]) + 1
      BY <1>1, AppendProperties
    <3>3. CASE k = Len(records) + 1 /\ drops' = drops
      <4>1. PICK i \in 2 .. Len(records) : Refers(records[i], c)
        BY <2>1, HeldHasRecord
      <4>2. Len(records) \in Nat
        BY LenProperties DEF RecordInv, TypeOK
      <4>3. i \in 2 .. (k - 1)
        BY <3>3, <4>2
      <4>4. got'[c] = Append(got[c], bcast + 1)
        <5>1. Deliver(k)
          BY <2>3 DEF Broadcast
        <5>2. \E j \in 2 .. (k - 1) : Refers(records[j], c)
          BY <4>1, <4>3
        <5> QED
          BY <5>1, <5>2 DEF Deliver
      <4>5. Len(got'[c]) = Len(got[c]) + 1
        BY <3>2, <4>4
      <4>6. bcast' = bcast + 1 /\ joinedAt'[c] = joinedAt[c] /\ drops' = drops
        BY <2>1, <3>1, <3>3
      <4>7. ((bcast + 1) - joinedAt[c]) - (Len(got[c]) + 1) <= drops
        BY <1>0, <1>1, <3>1, Nat \subseteq Int
      <4> QED
        BY <4>5, <4>6, <4>7
    <3>4. CASE drops' = drops + 1
      <4>1. Len(got'[c]) \in {Len(got[c]), Len(got[c]) + 1}
        BY <2>3, <3>2, DeliverReaches DEF Broadcast
      <4>2. \/ Len(got'[c]) = Len(got[c])
            \/ Len(got'[c]) = Len(got[c]) + 1
        BY <4>1
      <4>3. bcast' = bcast + 1 /\ joinedAt'[c] = joinedAt[c] /\ drops' = drops + 1
        BY <2>1, <3>1, <3>4
      <4>4. /\ ((bcast + 1) - joinedAt[c]) - Len(got[c]) <= drops + 1
            /\ ((bcast + 1) - joinedAt[c]) - (Len(got[c]) + 1) <= drops + 1
        BY <1>0, <1>1, <3>1, Nat \subseteq Int
      <4> QED
        BY <4>2, <4>3, <4>4
    <3> QED
      BY <2>3, <3>3, <3>4 DEF Broadcast
  <2> QED
    BY <2>2, <2>3, StepOfFrames
<1> QED
  BY <1>3, <1>4

\* The order of two clients in the list never changes; a new one comes last.
LEMMA OrderStep ==
  ASSUME RecordInv, PlaceInv, [Next]_vars, NEW c \in Conns, NEW d \in Conns, Before(c, d)'
  PROVE  Before(c, d) \/ joinedAt[d] = -1
<1> DEFINE n == Len(records)
<1>1. /\ records \in Seq(Fds \cup {NoFd}) /\ n \in Nat /\ DOMAIN records = 1 .. n
      /\ fdTable \in [Fds -> Conns \cup {Listener, NoConn}]
  BY LenProperties DEF RecordInv, TypeOK
<1>2. CASE UNCHANGED <<records, fdTable>>
  BY <1>2 DEF Before, Refers
<1>3. ASSUME NEW fd, NEW r \in DOMAIN records, UnlinkRec(fd, r)
      PROVE  Before(c, d)
  <2>1. /\ r \in 1 .. n /\ r # 1
        /\ records' = RemoveAt(records, r)
        /\ fdTable' = [f \in Fds |-> IF f = fd THEN NoConn ELSE fdTable[f]]
    BY <1>1, <1>3 DEF UnlinkRec, FirstWith
  <2>2. /\ records' \in Seq(Fds \cup {NoFd}) /\ DOMAIN records' = 1 .. (n - 1)
        /\ \A j \in DOMAIN records' : /\ OldIndex(r, j) \in (1 .. n) \ {r}
                                      /\ records'[j] = records[OldIndex(r, j)]
        /\ \A j, k \in DOMAIN records' : j < k <=> OldIndex(r, j) < OldIndex(r, k)
    <3> DEFINE S == Fds \cup {NoFd}
    <3>1. records \in Seq(S) /\ r \in 1 .. Len(records) /\ records' = RemoveAt(records, r)
      BY <1>1, <2>1
    <3> HIDE DEF S
    <3>2. /\ records' \in Seq(S) /\ DOMAIN records' = 1 .. (Len(records) - 1)
          /\ \A j \in DOMAIN records' : /\ OldIndex(r, j) \in (1 .. Len(records)) \ {r}
                                        /\ records'[j] = records[OldIndex(r, j)]
          /\ \A j, k \in DOMAIN records' : j < k <=> OldIndex(r, j) < OldIndex(r, k)
      BY <3>1, RemoveAtKeeps, Z3
    <3> QED
      BY <3>2 DEF S
  <2>3. Len(records') = n - 1
    BY <1>1, <2>1, RemoveAtFacts
  <2>4. PICK i, j \in 2 .. (n - 1) :
          /\ i < j
          /\ records'[i] \in Fds /\ fdTable'[records'[i]] = c
          /\ records'[j] \in Fds /\ fdTable'[records'[j]] = d
    BY <2>3 DEF Before, Refers
  <2>5. \A f \in Fds, x \in Conns : fdTable'[f] = x => fdTable[f] = x
    BY <2>1, ConstAssumption
  <2>6. i \in DOMAIN records' /\ j \in DOMAIN records'
    BY <1>1, <2>2
  <2>7. /\ OldIndex(r, i) \in 2 .. n /\ OldIndex(r, j) \in 2 .. n
        /\ OldIndex(r, i) < OldIndex(r, j)
    BY <1>1, <2>1, <2>2, <2>4, <2>6 DEF OldIndex
  <2>8. Refers(records'[i], c) /\ Refers(records'[j], d)
    BY <2>4, <2>5 DEF Refers
  <2>9. Refers(records[OldIndex(r, i)], c) /\ Refers(records[OldIndex(r, j)], d)
    <3>1. \A k \in DOMAIN records' : records'[k] = records[OldIndex(r, k)]
      BY <2>2
    <3>2. records'[i] = records[OldIndex(r, i)] /\ records'[j] = records[OldIndex(r, j)]
      BY <2>6, <3>1
    <3> QED
      BY <2>8, <3>2
  <2> QED
    BY <2>7, <2>9 DEF Before
<1>4. CASE createSocketRec
  <2>1. PICK e \in Fds \cup {NoFd} :
          /\ records' = Append(records, e)
          /\ e \in Fds => fdTable[e] = NoConn
          /\ e # NoFd => /\ backlog # <<>> /\ backlog' = Tail(backlog)
                         /\ Head(backlog) \in Conns
                         /\ fdTable' = [fdTable EXCEPT ![e] = Head(backlog)]
          /\ e = NoFd => fdTable' = fdTable
    BY <1>4, CreateShape
  <2>2. /\ DOMAIN records' = 1 .. (n + 1)
        /\ \A j \in 1 .. n : records'[j] = records[j]
        /\ records'[n + 1] = e
    BY <1>1, <2>1, AppendKeeps, Z3
  <2>3. Len(records') = n + 1
    BY <1>1, <2>1, AppendProperties
  <2>4. PICK i, j \in 2 .. (n + 1) :
          /\ i < j
          /\ records'[i] \in Fds /\ fdTable'[records'[i]] = c
          /\ records'[j] \in Fds /\ fdTable'[records'[j]] = d
    BY <2>3 DEF Before, Refers
  <2>5. ASSUME NEW k \in 2 .. n, NEW x \in Conns,
               records'[k] \in Fds, fdTable'[records'[k]] = x
        PROVE  Refers(records[k], x)
    <3>1. records'[k] = records[k] /\ k \in DOMAIN records
      BY <1>1, <2>2
    <3>2. e \in Fds => records[k] # e
      <4>1. e \in Fds => ~Open(e)
        BY <2>1 DEF Open
      <4>2. e \in Fds => e \notin Range(records)
        BY <4>1 DEF RecordInv, RecordsAreOpenFds
      <4>3. records[k] \in Range(records)
        BY <3>1 DEF Range
      <4> QED
        BY <4>2, <4>3
    <3>3. fdTable'[records[k]] = fdTable[records[k]]
      <4>1. CASE e = NoFd
        BY <2>1, <4>1
      <4>2. CASE e # NoFd
        BY <1>1, <2>1, <2>5, <3>1, <3>2, <4>2
      <4> QED
        BY <4>1, <4>2
    <3> QED
      BY <2>5, <3>1, <3>3 DEF Refers
  <2>6. CASE j = n + 1
    <3>1. e \in Fds /\ fdTable'[e] = d
      BY <2>2, <2>4, <2>6
    <3>2. e # NoFd
      BY <3>1, ConstAssumption DEF NoFd, Fds
    <3>3. d = Head(backlog) /\ backlog # <<>> /\ backlog' = Tail(backlog)
      BY <1>1, <2>1, <3>1, <3>2
    <3> QED
      BY <3>3, AcceptFront DEF PlaceInv
  <2>7. CASE j # n + 1
    <3>1. i \in 2 .. n /\ j \in 2 .. n
      BY <1>1, <2>4, <2>7
    <3> QED
      BY <2>4, <2>5, <3>1 DEF Before
  <2> QED
    BY <2>6, <2>7
<1>5. CASE ListDelete
  BY <1>2, <1>3, <1>5 DEF ListDelete, deleteSocketRec, KeepRec
<1>6. CASE ListUnchanged \/ \E x \in Conns : Connect(x) /\ ListConnect(x)
  BY <1>2, <1>6 DEF ListUnchanged, ListConnect
<1> QED
  BY <1>4, <1>5, <1>6, StepOfList

\* A broadcast that reaches a client reaches those before it.
LEMMA ReachesBefore ==
  ASSUME RecordInv, PlaceInv, NEW k \in 2 .. (Len(records) + 1), Deliver(k),
         NEW c \in Conns, NEW d \in Conns, Before(c, d), got'[d] # got[d]
  PROVE  got'[c] = Append(got[c], bcast + 1) /\ got'[d] = Append(got[d], bcast + 1)
<1>1. /\ DOMAIN records = 1 .. Len(records) /\ Len(records) \in Nat
      /\ got \in [Conns -> Seq(Nat)] /\ NoFd \notin Fds
  BY LenProperties, ConstAssumption DEF RecordInv, TypeOK, NoFd, Fds
<1>2. PICK i, j \in 2 .. Len(records) : i < j /\ Refers(records[i], c) /\ Refers(records[j], d)
  BY DEF Before
<1>3. PICK r \in 2 .. (k - 1) : Refers(records[r], d) /\ got'[d] = Append(got[d], bcast + 1)
  BY <1>1 DEF Deliver
<1>4. records[r] = records[j] /\ records[j] # NoFd
  BY <1>1, <1>2, <1>3, ConstAssumption DEF Refers, PlaceInv
<1>5. r = j
  <2>1. r \in DOMAIN records /\ j \in DOMAIN records
    BY <1>1, <1>2, <1>3
  <2> QED
    BY <1>4, <2>1 DEF RecordInv, RecordsAreOpenFds
<1>6. i \in 2 .. (k - 1)
  BY <1>1, <1>2, <1>3, <1>5
<1> QED
  BY <1>1, <1>2, <1>3, <1>6 DEF Deliver

\* A client earlier in the list misses no frame that a later one has.
LEMMA EarlierStep ==
  ASSUME RecordInv, PlaceInv, EarlierRecordsMissLess, [Next]_vars
  PROVE  EarlierRecordsMissLess'
<1> SUFFICES ASSUME NEW c \in Conns, NEW d \in Conns, Before(c, d)'
             PROVE  Range(got'[d]) \subseteq Range(got'[c])
  BY DEF EarlierRecordsMissLess, Before, Refers
<1>1. /\ got[c] \in Seq(Nat) /\ got[d] \in Seq(Nat) /\ bcast + 1 \in Nat
      /\ \A s \in Seq(Nat) : Range(Append(s, bcast + 1)) = Range(s) \cup {bcast + 1}
  <2>1. bcast + 1 \in Nat /\ got[c] \in Seq(Nat) /\ got[d] \in Seq(Nat)
    BY DEF RecordInv, TypeOK
  <2> QED
    BY <2>1, RangeOfAppend
<1>2. CASE joinedAt[d] = -1
  <2>1. got'[d] = <<>>
    BY <1>2, HistoryStep
  <2> QED
    BY <2>1 DEF Range
<1>3. CASE Before(c, d)
  <2>1. Range(got[d]) \subseteq Range(got[c])
    BY <1>3 DEF EarlierRecordsMissLess, Before
  <2>2. CASE Quiet
    BY <2>1, <2>2 DEF Quiet
  <2>3. ASSUME NEW k \in 2 .. (Len(records) + 1), Broadcast(k)
        PROVE  Range(got'[d]) \subseteq Range(got'[c])
    <3>1. CASE got'[d] # got[d]
      BY <1>1, <1>3, <2>1, <2>3, <3>1, ReachesBefore DEF Broadcast
    <3>2. CASE got'[d] = got[d]
      <4>1. got'[c] = got[c] \/ got'[c] = Append(got[c], bcast + 1)
        BY <2>3, DeliverReaches DEF Broadcast
      <4> QED
        BY <1>1, <2>1, <3>2, <4>1
    <3> QED
      BY <3>1, <3>2
  <2> QED
    BY <2>2, <2>3, StepOfFrames
<1> QED
  BY <1>2, <1>3, OrderStep

-----------------------------------------------------------------------------
(* The invariant of the gateway.                                           *)

\* ClientInv holds at the start.
LEMMA ClientInit == Init => ClientInv
<1> SUFFICES ASSUME Init PROVE ClientInv
  OBVIOUS
<1>1. RecordInv
  BY RecordInit
<1>2. /\ ListenFd \in Fds /\ Len(<<>>) = 0
      /\ DOMAIN records = {1} /\ Len(records) = 1
  BY EmptySeq, ConstAssumption DEF Init, ListenFd, Fds
<1>3. \A c \in Conns : ~Held(c) /\ ~Pending(c)
  BY ConstAssumption DEF Init, Held, Pending
<1>4. PlaceInv
  BY <1>2, <1>3, ConstAssumption DEF Init, PlaceInv
<1>5. MissesBoundedByDrops /\ EarlierRecordsMissLess
  BY <1>2, <1>3 DEF Init, MissesBoundedByDrops, EarlierRecordsMissLess
<1> QED
  BY <1>1, <1>4, <1>5 DEF ClientInv

\* ClientInv is an invariant of the gateway.
THEOREM ClientInvariant == Spec => []ClientInv
<1>1. ClientInv /\ [Next]_vars => ClientInv'
  <2> SUFFICES ASSUME ClientInv, [Next]_vars PROVE ClientInv'
    OBVIOUS
  <2>1. RecordInv' /\ PlaceInv'
    BY RecordStep, PlaceStep DEF ClientInv
  <2>2. MissesBoundedByDrops' /\ EarlierRecordsMissLess'
    BY <2>1, MissStep, EarlierStep DEF ClientInv
  <2> QED
    BY <2>1, <2>2 DEF ClientInv
<1> QED
  BY <1>1, ClientInit, PTL DEF Spec

\* A connected client misses no more frames than records were dropped by failed
\* writes.
THEOREM MissesAreBounded == Spec => []MissesBoundedByDrops
  BY ClientInvariant, PTL DEF ClientInv

\* A client earlier in the list has every frame that a later one has.
THEOREM EarlierMissLess == Spec => []EarlierRecordsMissLess
  BY ClientInvariant, PTL DEF ClientInv

-----------------------------------------------------------------------------
(* What poll() reported of a client, until its entry is done.              *)

\* Entry e reports the shutdown of client c.
Reports(e, c) == e.of = c /\ "POLLRDHUP" \in e.revents

\* poll() reports no shutdown without input, and a client that shut down does not
\* come back.
EntryInv ==
  \A i \in DOMAIN pollFds :
    /\ "POLLRDHUP" \in pollFds[i].revents => "POLLIN" \in pollFds[i].revents
    /\ \A c \in Conns : Reports(pollFds[i], c) => peer[c] \in Gone

\* Once the reads of an entry that reports a shutdown are done, nothing is left to
\* read of the client it reports.
DrainInv ==
  pc = "close" =>
    \A c \in Conns : Reports(Entry, c) /\ Refers(Entry.fd, c) => ~Readable(c)

\* When a frame is about to be sent, every client that has been written to after
\* it closed its end is reported in this round.
ReportInv ==
  pc = "serial" =>
    \A c \in Conns : Held(c) /\ peer[c] \in {"finw", "broken"} =>
      \E i \in DOMAIN pollFds : Reports(pollFds[i], c) /\ Refers(pollFds[i].fd, c)

\* A client that shut down stays so.
LEMMA GoneForGood ==
  ASSUME RecordInv, [Next]_vars, NEW c \in Conns, peer[c] \in Gone
  PROVE  peer'[c] \in Gone
<1> USE DEF Gone
<1>0. peer \in [Conns -> PeerStates]
  BY DEF RecordInv, TypeOK
<1>1. ASSUME NEW k, Deliver(k) PROVE peer'[c] \in Gone
  BY <1>1 DEF Deliver
<1>2. CASE \/ SendAllClients
           \/ \E k \in 2 .. Len(records) : SendStopsAtError(k) \/ SendIsKilled(k)
  BY <1>1, <1>2 DEF SendAllClients, SendStopsAtError, SendIsKilled
<1>3. CASE peer' = peer \/ \E d \in Conns : peer' = ErrorRead(d)
  BY <1>0, <1>3 DEF ErrorRead
<1>4. CASE PollReturns \/ ServeNoise \/ SkipIdle \/ ServeListener \/ LoopAgain \/ ReadClient
           \/ ReadMore \/ ReadEnds \/ CloseClient
  BY <1>3, <1>4 DEF PollReturns, ServeNoise, SkipIdle, ServeListener, LoopAgain, ReadClient,
                    ReadMore, ReadEnds, CloseClient
<1>5. ASSUME NEW d \in Conns, ClientStep(d) PROVE peer'[c] \in Gone
  BY <1>0, <1>5 DEF ClientStep, Connect, SendCommand, SendStart, SendRest, Connected, Shutdown,
                    ResetArrives
<1>6. CASE SocSends \/ SocFinishes
  BY <1>6 DEF SocSends, SocFinishes
<1>7. CASE UNCHANGED vars
  BY <1>7 DEF vars
<1> QED
  BY <1>2, <1>4, <1>5, <1>6, <1>7 DEF Next, GatewayStep, Environment

\* The entries of a round are made by poll() and then taken off one by one.
LEMMA StepOfEntries ==
  ASSUME [Next]_vars
  PROVE  \/ PollReturns
         \/ pollFds # <<>> /\ pollFds' = Tail(pollFds)
         \/ UNCHANGED pollFds
         \/ CloseClient
<1>1. CASE SkipIdle \/ ServeListener
  BY <1>1 DEF SkipIdle, ServeListener, Visiting
<1>2. CASE ServeNoise \/ LoopAgain \/ SendAllClients \/ ReadClient \/ ReadMore \/ ReadEnds
  BY <1>2 DEF ServeNoise, LoopAgain, SendAllClients, TakeFrame, ReadClient, ReadMore, ReadEnds
<1>3. ASSUME NEW k, SendStopsAtError(k) \/ SendIsKilled(k) PROVE UNCHANGED pollFds
  BY <1>3 DEF SendStopsAtError, SendIsKilled, TakeFrame
<1>4. CASE Environment
  BY <1>4 DEF Environment, ClientStep, Connect, SendCommand, SendStart, SendRest, Shutdown,
              ResetArrives, SocSends, SocFinishes, EnvKeeps, loopVars
<1>5. CASE UNCHANGED vars
  BY <1>5 DEF vars, loopVars
<1> QED
  BY <1>1, <1>2, <1>3, <1>4, <1>5 DEF Next, GatewayStep

\* EntryInv is kept by every step.
LEMMA EntryStep ==
  ASSUME RecordInv, EntryInv, [Next]_vars
  PROVE  EntryInv'
<1>1. pollFds \in Seq(PollEntry)
  BY DEF RecordInv, TypeOK
<1>2. CASE PollReturns
  <2>1. \A f : /\ "POLLRDHUP" \in EntryOf(f).revents => "POLLIN" \in EntryOf(f).revents
               /\ \A c \in Conns : Reports(EntryOf(f), c) => peer[c] \in Gone
    BY ConstAssumption DEF EntryOf, Revents, Reports
  <2>2. pollFds' = [i \in 1 .. Len(records) |-> EntryOf(records[i])] /\ UNCHANGED peer
    BY <1>2 DEF PollReturns
  <2> QED
    BY <2>1, <2>2 DEF EntryInv
<1>3. CASE pollFds # <<>> /\ pollFds' = Tail(pollFds)
  <2>1. /\ Len(pollFds) \in Nat /\ DOMAIN pollFds = 1 .. Len(pollFds)
        /\ DOMAIN pollFds' = 1 .. (Len(pollFds) - 1)
        /\ \A i \in 1 .. (Len(pollFds) - 1) : pollFds'[i] = pollFds[i + 1]
    BY <1>1, <1>3, HeadTailProperties, LenProperties
  <2>2. \A i \in DOMAIN pollFds' : i + 1 \in DOMAIN pollFds /\ pollFds'[i] = pollFds[i + 1]
    BY <2>1
  <2> QED
    BY <2>2, GoneForGood DEF EntryInv
<1>4. CASE UNCHANGED pollFds
  BY <1>4, GoneForGood DEF EntryInv
<1>5. CASE CloseClient
  BY <1>3, <1>5 DEF CloseClient, RecordInv, SerialInv
<1> QED
  BY <1>2, <1>3, <1>4, <1>5, StepOfEntries

\* Nothing readable comes from a client that has shut down.
LEMMA GoneSendNothing ==
  ASSUME RecordInv, Environment, NEW c \in Conns, peer[c] \in Gone, ~Readable(c)
  PROVE  ~Readable(c)'
<1>0. unread \in [Conns -> Nat] /\ split \in [Conns -> SplitStates]
  BY DEF RecordInv, TypeOK
<1>1. ASSUME NEW d \in Conns, ClientStep(d) PROVE unread'[c] = unread[c] /\ split'[c] = split[c]
  <2>1. CASE UNCHANGED <<unread, split>>
    BY <2>1
  <2>2. CASE SendCommand(d) \/ SendStart(d) \/ SendRest(d)
    <3>1. d # c
      BY <2>2 DEF SendCommand, SendStart, SendRest, Connected, Gone
    <3> QED
      BY <1>0, <2>2, <3>1 DEF SendCommand, SendStart, SendRest
  <2> QED
    BY <1>1, <2>1, <2>2 DEF ClientStep, Connect, Shutdown, ResetArrives
<1>2. CASE SocSends \/ SocFinishes
  BY <1>2 DEF SocSends, SocFinishes, Readable
<1> QED
  BY <1>1, <1>2 DEF Environment, Readable

\* DrainInv is kept by every step.
LEMMA DrainStep ==
  ASSUME RecordInv, EntryInv, DrainInv, [Next]_vars
  PROVE  DrainInv'
<1> SUFFICES ASSUME pc' = "close", NEW c \in Conns,
                    Reports(Entry', c), (Refers(Entry.fd, c))'
             PROVE  ~Readable(c)'
  BY DEF DrainInv
<1>0. unread \in [Conns -> Nat] /\ split \in [Conns -> SplitStates]
  BY DEF RecordInv, TypeOK
<1>1. CASE ReadClient
  <2>1. /\ Entry' = Entry /\ UNCHANGED <<fdTable, split>> /\ pollFds # <<>>
    BY <1>1 DEF ReadClient, Entry, Visiting
  <2>2. Refers(Entry.fd, c) /\ Reports(Entry, c)
    BY <2>1 DEF Refers
  <2>3. "POLLIN" \in Entry.revents
    <3>1. 1 \in DOMAIN pollFds /\ Entry = pollFds[1]
      <4>1. pollFds \in Seq(PollEntry)
        BY DEF RecordInv, TypeOK
      <4> QED
        BY <2>1, <4>1, HeadIsFirst DEF Entry
    <3> QED
      BY <2>2, <3>1 DEF EntryInv, Reports
  <2>4. ReadCommands(Entry.fd)
    BY <1>1, <2>3 DEF ReadClient
  <2>5. ~\E d \in Conns : Refers(Entry.fd, d) /\ Odd(d)
    BY <2>4 DEF ReadCommands
  <2>6. unread'[c] = 0 /\ ~Odd(c)
    BY <2>2, <2>4, <2>5 DEF ReadCommands
  <2> QED
    BY <2>1, <2>6 DEF Readable, Odd
<1>2. CASE ReadMore
  <2>1. Entry' = Entry /\ UNCHANGED fdTable
    BY <1>2 DEF ReadMore, Entry
  <2>2. PICK d \in Conns :
          /\ Refers(Entry.fd, d)
          /\ unread' = [unread EXCEPT ![d] = 0]
          /\ split' = [split EXCEPT ![d] = IF @ = "start" THEN "torn" ELSE "no"]
    BY <1>2 DEF ReadMore
  <2>3. d = c
    BY <2>1, <2>2 DEF Refers
  <2> QED
    BY <1>0, <2>2, <2>3 DEF Readable
<1>3. CASE ReadEnds
  <2>1. Entry' = Entry /\ UNCHANGED <<fdTable, unread, split>>
    BY <1>3 DEF ReadEnds, Entry
  <2>2. PICK d \in Conns : Refers(Entry.fd, d) /\ ~Readable(d)
    BY <1>3 DEF ReadEnds
  <2>3. d = c
    BY <2>1, <2>2 DEF Refers
  <2> QED
    BY <2>1, <2>2, <2>3 DEF Readable
<1>4. CASE Environment
  <2>1. pc = "close" /\ Entry' = Entry /\ UNCHANGED <<fdTable, pollFds>>
    BY <1>4 DEF Environment, ClientStep, Connect, SendCommand, SendStart, SendRest, Shutdown,
                ResetArrives, SocSends, SocFinishes, EnvKeeps, loopVars, Entry
  <2>2. Refers(Entry.fd, c) /\ Reports(Entry, c)
    BY <2>1 DEF Refers
  <2>3. ~Readable(c)
    BY <2>1, <2>2 DEF DrainInv
  <2>4. peer[c] \in Gone
    <3>1. pollFds # <<>> /\ pollFds \in Seq(PollEntry)
      BY <2>1 DEF RecordInv, SerialInv, TypeOK
    <3>2. 1 \in DOMAIN pollFds /\ Entry = pollFds[1]
      BY <3>1, HeadIsFirst DEF Entry
    <3> QED
      BY <2>2, <3>2 DEF EntryInv
  <2> QED
    BY <1>4, <2>3, <2>4, GoneSendNothing
<1>5. CASE UNCHANGED vars
  BY <1>5 DEF vars, loopVars, DrainInv, Entry, Refers, Readable
<1>6. ~(PollReturns \/ ServeNoise \/ SkipIdle \/ ServeListener \/ LoopAgain \/ CloseClient)
  BY DEF PollReturns, ServeNoise, SkipIdle, ServeListener, LoopAgain, CloseClient, Visiting
<1>7. ~SendAllClients /\ \A k : ~SendStopsAtError(k) /\ ~SendIsKilled(k)
  BY DEF SendAllClients, SendStopsAtError, SendIsKilled, AfterFrame
<1> QED
  BY <1>1, <1>2, <1>3, <1>4, <1>5, <1>6, <1>7 DEF Next, GatewayStep

\* A connection that the sweep closes was reported and read, if poll() looked at
\* that connection and no other.
LEMMA SweepCloses ==
  ASSUME RecordInv, EntryInv, DrainInv, [Next]_vars, pc = "close",
         NEW c \in Conns, Held(c), ~Held(c)', Entry.of = c
  PROVE  ~Readable(c)
<1>0. fdTable \in [Fds -> Conns \cup {Listener, NoConn}]
  BY DEF RecordInv, TypeOK
<1>1. PICK f \in Fds : fdTable[f] = c /\ fdTable'[f] # c
  BY DEF Held
<1>2. CloseClient
  <2>1. ~Environment /\ ~UNCHANGED vars
    BY <1>1 DEF Environment, ClientStep, Connect, SendCommand, SendStart, SendRest, Shutdown,
                ResetArrives, SocSends, SocFinishes, EnvKeeps, loopVars, vars
  <2>2. ~SendAllClients /\ \A k : ~SendStopsAtError(k) /\ ~SendIsKilled(k)
    BY DEF SendAllClients, SendStopsAtError, SendIsKilled, TakeFrame
  <2>3. ~(PollReturns \/ ServeNoise \/ SkipIdle \/ ServeListener \/ LoopAgain)
    BY DEF PollReturns, ServeNoise, SkipIdle, ServeListener, LoopAgain, Visiting
  <2>4. ~(ReadClient \/ ReadMore \/ ReadEnds)
    BY DEF ReadClient, ReadMore, ReadEnds, Visiting
  <2> QED
    BY <2>1, <2>2, <2>3, <2>4 DEF Next, GatewayStep
<1>3. "POLLRDHUP" \in Entry.revents /\ deleteSocketRec(Entry.fd)
  BY <1>1, <1>2 DEF CloseClient
<1>4. f = Entry.fd
  BY <1>0, <1>1, <1>3 DEF deleteSocketRec, KeepRec, UnlinkRec
<1> QED
  BY <1>1, <1>3, <1>4 DEF DrainInv, Reports, Refers

\* When the sweep closes a connection that poll() reported, what the client sent
\* before has been read.
THEOREM DrainedBeforeClose == Spec => ClosedAfterDrain
<1>1. Init => RecordInv /\ EntryInv /\ DrainInv
  BY RecordInit DEF Init, EntryInv, DrainInv
<1>2. RecordInv /\ EntryInv /\ DrainInv /\ [Next]_vars => (RecordInv /\ EntryInv /\ DrainInv)'
  BY RecordStep, EntryStep, DrainStep
<1> DEFINE Drained ==
      \A c \in Conns :
        /\ pc = "close" /\ Held(c) /\ ~Held(c)'
        /\ Entry.of = c /\ peer[c] # "reset"
        => ~Readable(c)
<1>3. RecordInv /\ EntryInv /\ DrainInv /\ [Next]_vars => [Drained]_vars
  BY SweepCloses
<1> QED
  BY <1>1, <1>2, <1>3, PTL DEF Spec, ClosedAfterDrain

\* ReportInv is kept by every step.
LEMMA ReportStep ==
  ASSUME RecordInv, ReportInv, [Next]_vars
  PROVE  ReportInv'
<1> SUFFICES ASSUME pc' = "serial", NEW c \in Conns, Held(c)', peer'[c] \in {"finw", "broken"}
             PROVE  \E i \in DOMAIN pollFds' :
                      Reports(pollFds'[i], c) /\ (Refers(pollFds[i].fd, c))'
  BY DEF ReportInv
<1>0. peer \in [Conns -> PeerStates]
  BY DEF RecordInv, TypeOK
<1>1. CASE PollReturns
  <2>1. /\ UNCHANGED <<records, fdTable, peer>>
        /\ pollFds' = [i \in 1 .. Len(records) |-> EntryOf(records[i])]
    BY <1>1 DEF PollReturns
  <2>2. Held(c)
    BY <2>1 DEF Held
  <2>3. PICK i \in 2 .. Len(records) : Refers(records[i], c)
    BY <2>2, HeldHasRecord
  <2>4. i \in 1 .. Len(records)
    BY <2>3
  <2>5. EntryOf(records[i]).fd = records[i] /\ Reports(EntryOf(records[i]), c)
    BY <2>1, <2>3, ConstAssumption DEF Reports, EntryOf, Revents, Refers, Gone
  <2> QED
    BY <2>1, <2>3, <2>4, <2>5 DEF Refers
<1>2. CASE Environment
  <2>1. pc = "serial" /\ UNCHANGED <<fdTable, pollFds>>
    BY <1>2 DEF Environment, ClientStep, Connect, SendCommand, SendStart, SendRest, Shutdown,
                ResetArrives, SocSends, SocFinishes, EnvKeeps, loopVars
  <2>2. peer[c] \in {"finw", "broken"}
    <3>1. ASSUME NEW d \in Conns, ClientStep(d) PROVE peer[c] \in {"finw", "broken"}
      BY <1>0, <3>1 DEF ClientStep, Connect, SendCommand, SendStart, SendRest, Shutdown, ResetArrives
    <3> QED
      BY <1>2, <3>1 DEF Environment, SocSends, SocFinishes
  <2>3. Held(c)
    BY <2>1 DEF Held
  <2> QED
    BY <2>1, <2>2, <2>3 DEF ReportInv, Refers
<1>3. CASE UNCHANGED vars
  BY <1>3 DEF vars, loopVars, ReportInv, Held, Refers
<1>4. ~(ServeNoise \/ SkipIdle \/ ServeListener \/ LoopAgain \/ ReadClient \/ ReadMore \/ ReadEnds
        \/ CloseClient)
  BY DEF ServeNoise, SkipIdle, ServeListener, LoopAgain, ReadClient, ReadCommands, ReadMore,
         ReadEnds, CloseClient, Visiting
<1>5. ~SendAllClients /\ \A k : ~SendStopsAtError(k) /\ ~SendIsKilled(k)
  BY DEF SendAllClients, SendStopsAtError, SendIsKilled, AfterFrame
<1> QED
  BY <1>1, <1>2, <1>3, <1>4, <1>5 DEF Next, GatewayStep

\* A write that ends the gateway goes to a client reported in the same round.
LEMMA KillerIsReported ==
  ASSUME RecordInv, ReportInv, [Next]_vars, pc = "serial", pc' = "dead"
  PROVE  \E e \in Range(pollFds) : \E c \in Conns :
           /\ e.of = c /\ "POLLRDHUP" \in e.revents
           /\ Refers(e.fd, c) /\ peer[c] = "broken"
<1>1. \E k : SendIsKilled(k)
  <2>1. ~Environment /\ ~UNCHANGED vars
    BY DEF Environment, ClientStep, Connect, SendCommand, SendStart, SendRest, Shutdown,
           ResetArrives, SocSends, SocFinishes, EnvKeeps, loopVars, vars
  <2>2. ~SendAllClients /\ \A k : ~SendStopsAtError(k)
    BY DEF SendAllClients, SendStopsAtError, AfterFrame
  <2>3. ~(PollReturns \/ ServeNoise \/ SkipIdle \/ ServeListener \/ LoopAgain)
    BY DEF PollReturns, ServeNoise, SkipIdle, ServeListener, LoopAgain, Visiting
  <2>4. ~(ReadClient \/ ReadMore \/ ReadEnds \/ CloseClient)
    BY DEF ReadClient, ReadMore, ReadEnds, CloseClient, Visiting
  <2> QED
    BY <2>1, <2>2, <2>3, <2>4 DEF Next, GatewayStep
<1>2. PICK c \in Conns : Held(c) /\ peer[c] = "broken"
  BY <1>1 DEF SendIsKilled, WriteKills, Refers, Held
<1>3. PICK i \in DOMAIN pollFds : Reports(pollFds[i], c) /\ Refers(pollFds[i].fd, c)
  BY <1>2 DEF ReportInv
<1> QED
  BY <1>2, <1>3 DEF Reports, Range

\* Only a client whose shutdown was reported in the same round, and is about to be
\* handled, ends the gateway with SIGPIPE.
THEOREM SigpipeComesReported == Spec => KilledByReported
<1>1. Init => RecordInv /\ ReportInv
  BY RecordInit DEF Init, ReportInv
<1>2. RecordInv /\ ReportInv /\ [Next]_vars => RecordInv' /\ ReportInv'
  BY RecordStep, ReportStep
<1> DEFINE Killed ==
      pc = "serial" /\ pc' = "dead" =>
        \E e \in Range(pollFds) : \E c \in Conns :
          /\ e.of = c /\ "POLLRDHUP" \in e.revents
          /\ Refers(e.fd, c) /\ peer[c] = "broken"
<1>3. RecordInv /\ ReportInv /\ [Next]_vars => [Killed]_vars
  BY KillerIsReported
<1> QED
  BY <1>1, <1>2, <1>3, PTL DEF Spec, KilledByReported

-----------------------------------------------------------------------------
(* The gateway implements the hub.                                         *)

\* Descriptor f refers to client c after the step.
RefersNext(f, c) == f \in Fds /\ fdTable'[f] = c

\* Deleting the record of a descriptor expels the client it refers to, if there
\* is one, and keeps the order of the others.
LEMMA DeleteExpels ==
  ASSUME RecordInv, PlaceInv, NEW fd, deleteSocketRec(fd)
  PROVE  \A c, d \in Conns :
           /\ Held(c)' <=> Held(c) /\ ~Refers(fd, c)
           /\ Before(c, d)' <=> Before(c, d) /\ ~Refers(fd, c) /\ ~Refers(fd, d)
<1> DEFINE n == Len(records)
<1>1. /\ records \in Seq(Fds \cup {NoFd}) /\ n \in Nat /\ DOMAIN records = 1 .. n
      /\ fdTable \in [Fds -> Conns \cup {Listener, NoConn}]
  BY LenProperties DEF RecordInv, TypeOK
<1>2. CASE KeepRec(fd)
  <2>1. ASSUME NEW c \in Conns, Refers(fd, c) PROVE FALSE
    <3>1. Open(fd) /\ fd \in Fds
      BY <2>1, ConstAssumption DEF Refers, Open
    <3>2. fd \in Range(records)
      BY <3>1 DEF RecordInv, RecordsAreOpenFds
    <3>3. records[1] = fd
      BY <1>2, <3>2 DEF KeepRec, FirstWith
    <3> QED
      BY <2>1, <3>3, ConstAssumption DEF RecordInv, HeadIsListener, Refers
  <2> QED
    BY <1>2, <2>1 DEF KeepRec, Held, Before, Refers
<1>3. ASSUME NEW r \in DOMAIN records, UnlinkRec(fd, r)
      PROVE  \A c, d \in Conns :
               /\ Held(c)' <=> Held(c) /\ ~Refers(fd, c)
               /\ Before(c, d)' <=> Before(c, d) /\ ~Refers(fd, c) /\ ~Refers(fd, d)
  <2>1. /\ r \in 1 .. n /\ r # 1 /\ records[r] = fd
        /\ records' = RemoveAt(records, r)
        /\ fdTable' = [f \in Fds |-> IF f = fd THEN NoConn ELSE fdTable[f]]
    BY <1>1, <1>3 DEF UnlinkRec, FirstWith
  <2>2. /\ Len(records') = n - 1
        /\ \A j \in 1 .. (n - 1) : records'[j] = IF j < r THEN records[j] ELSE records[j + 1]
    <3> DEFINE S == Fds \cup {NoFd}
    <3> HIDE DEF S
    <3>1. records \in Seq(S) /\ r \in 1 .. Len(records)
      BY <1>1, <2>1 DEF S
    <3> QED
      BY <2>1, <3>1, RemoveAtFacts
  <2>3. \A f \in Fds, x \in Conns : fdTable'[f] = x <=> f # fd /\ fdTable[f] = x
    BY <1>1, <2>1, ConstAssumption
  <2>4. \A f, x : RefersNext(f, x) <=> f \in Fds /\ fdTable'[f] = x
    BY DEF Refers, RefersNext
  <2>5. \A x \in Conns, f \in Fds : f # fd /\ fdTable[f] = x => ~Refers(fd, x)
    BY ConstAssumption DEF PlaceInv, Refers
  <2>6. \A f, x : x \in Conns => (RefersNext(f, x) <=> Refers(f, x) /\ ~Refers(fd, x))
    BY <2>3, <2>4, <2>5 DEF Refers, RefersNext
  <2>7. ASSUME NEW c \in Conns, NEW d \in Conns, Before(c, d)'
        PROVE  Before(c, d) /\ ~Refers(fd, c) /\ ~Refers(fd, d)
    <3>1. PICK i, j \in 2 .. (n - 1) :
            i < j /\ RefersNext(records'[i], c) /\ RefersNext(records'[j], d)
      BY <2>2, <2>7 DEF Before, Refers, RefersNext
    <3> DEFINE a == IF i < r THEN i ELSE i + 1
               b == IF j < r THEN j ELSE j + 1
    <3>2. /\ a \in 2 .. n /\ b \in 2 .. n /\ a < b
          /\ records'[i] = records[a] /\ records'[j] = records[b]
      BY <1>1, <2>1, <2>2, <3>1
    <3> HIDE DEF a, b
    <3>3. Refers(records[a], c) /\ Refers(records[b], d) /\ ~Refers(fd, c) /\ ~Refers(fd, d)
      BY <2>6, <3>1, <3>2
    <3> QED
      BY <3>2, <3>3 DEF Before
  <2>8. ASSUME NEW c \in Conns, NEW d \in Conns,
               Before(c, d), ~Refers(fd, c), ~Refers(fd, d)
        PROVE  Before(c, d)'
    <3>1. PICK i, j \in 2 .. n : i < j /\ Refers(records[i], c) /\ Refers(records[j], d)
      BY <2>8 DEF Before
    <3>2. i # r /\ j # r
      BY <2>1, <2>8, <3>1
    <3> DEFINE a == IF i < r THEN i ELSE i - 1
               b == IF j < r THEN j ELSE j - 1
    <3>3. /\ a \in 2 .. (n - 1) /\ b \in 2 .. (n - 1) /\ a < b
          /\ records'[a] = records[i] /\ records'[b] = records[j]
      BY <1>1, <2>1, <2>2, <3>1, <3>2
    <3> HIDE DEF a, b
    <3>4. RefersNext(records'[a], c) /\ RefersNext(records'[b], d)
      BY <2>6, <2>8, <3>1, <3>3
    <3> QED
      BY <2>2, <3>3, <3>4 DEF Before, Refers, RefersNext
  <2>9. ASSUME NEW c \in Conns
        PROVE  Held(c)' <=> Held(c) /\ ~Refers(fd, c)
    BY <2>3, <2>5 DEF Held, Refers
  <2> QED
    BY <2>7, <2>8, <2>9
<1> QED
  BY <1>2, <1>3 DEF deleteSocketRec

\* Accepting admits the client at the front of the backlog behind all others; a
\* failed accept() changes nothing that clients see.
LEMMA AcceptAdmits ==
  ASSUME RecordInv, PlaceInv, createSocketRec
  PROVE  \/ /\ joinedAt' = joinedAt
            /\ \A c, d \in Conns : (Held(c)' <=> Held(c)) /\ (Before(c, d)' <=> Before(c, d))
         \/ \E h \in Conns :
              /\ joinedAt[h] = -1 /\ joinedAt' = [joinedAt EXCEPT ![h] = bcast]
              /\ \A c, d \in Conns :
                   /\ Held(c)' <=> Held(c) \/ c = h
                   /\ Before(c, d)' <=> Before(c, d) \/ (Held(c) /\ d = h)
<1> DEFINE n == Len(records)
<1>1. /\ records \in Seq(Fds \cup {NoFd}) /\ n \in Nat /\ DOMAIN records = 1 .. n
      /\ fdTable \in [Fds -> Conns \cup {Listener, NoConn}] /\ NoFd \notin Fds
  BY LenProperties, ConstAssumption DEF RecordInv, TypeOK, NoFd, Fds
<1>2. PICK e \in Fds \cup {NoFd} :
        /\ records' = Append(records, e)
        /\ e \in Fds => fdTable[e] = NoConn
        /\ e # NoFd => /\ backlog # <<>> /\ backlog' = Tail(backlog)
                       /\ Head(backlog) \in Conns
                       /\ fdTable' = [fdTable EXCEPT ![e] = Head(backlog)]
                       /\ joinedAt' = [joinedAt EXCEPT ![Head(backlog)] = bcast]
        /\ e = NoFd => UNCHANGED <<fdTable, joinedAt, backlog>>
  BY CreateShape
<1>3. /\ Len(records') = n + 1 /\ records'[n + 1] = e
      /\ \A j \in 1 .. n : records'[j] = records[j]
  <2>1. n + 1 \in Nat
    BY <1>1
  <2> QED
    BY <1>1, <1>2, <2>1, AppendProperties
<1>4. CASE e = NoFd
  <2>1. \A f, x : RefersNext(f, x) <=> Refers(f, x)
    BY <1>2, <1>4 DEF Refers, RefersNext
  <2>2. \A x : ~RefersNext(records'[n + 1], x)
    BY <1>1, <1>3, <1>4 DEF Refers, RefersNext
  <2>3. ASSUME NEW c \in Conns, NEW d \in Conns, Before(c, d)' PROVE Before(c, d)
    <3>1. PICK i, j \in 2 .. (n + 1) :
            i < j /\ RefersNext(records'[i], c) /\ RefersNext(records'[j], d)
      BY <1>3, <2>3 DEF Before, Refers, RefersNext
    <3>2. i # n + 1 /\ j # n + 1
      BY <2>2, <3>1
    <3>3. i \in 2 .. n /\ j \in 2 .. n
      BY <1>1, <3>1, <3>2
    <3>4. records'[i] = records[i] /\ records'[j] = records[j]
      BY <1>1, <1>3, <3>3
    <3> QED
      BY <2>1, <3>1, <3>3, <3>4 DEF Before
  <2>4. ASSUME NEW c \in Conns, NEW d \in Conns, Before(c, d) PROVE Before(c, d)'
    <3>1. PICK i, j \in 2 .. n : i < j /\ Refers(records[i], c) /\ Refers(records[j], d)
      BY <2>4 DEF Before
    <3>2. /\ i \in 2 .. (n + 1) /\ j \in 2 .. (n + 1)
          /\ records'[i] = records[i] /\ records'[j] = records[j]
      BY <1>1, <1>3, <3>1
    <3>3. RefersNext(records'[i], c) /\ RefersNext(records'[j], d)
      BY <2>1, <3>1, <3>2
    <3> QED
      BY <1>3, <3>1, <3>2, <3>3 DEF Before, Refers, RefersNext
  <2>5. joinedAt' = joinedAt /\ \A c \in Conns : Held(c)' <=> Held(c)
    BY <1>2, <1>4 DEF Held
  <2> QED
    BY <2>3, <2>4, <2>5
<1>5. CASE e # NoFd
  <2>0. PICK h \in Conns : h = Head(backlog)
    BY <1>2, <1>5
  <2>1. /\ e \in Fds /\ fdTable[e] = NoConn /\ h \in Conns
        /\ fdTable' = [fdTable EXCEPT ![e] = h]
        /\ joinedAt' = [joinedAt EXCEPT ![h] = bcast]
        /\ backlog # <<>> /\ backlog' = Tail(backlog)
    BY <1>2, <1>5, <2>0
  <2>2. joinedAt[h] = -1 /\ ~Held(h)
    BY <2>0, <2>1, AcceptFront DEF PlaceInv
  <2>3. \A f, x : x \in Conns => (RefersNext(f, x) <=> Refers(f, x) \/ (f = e /\ x = h))
    BY <1>1, <2>1, ConstAssumption DEF Refers, RefersNext
  <2>4. \A c \in Conns : Held(c)' <=> Held(c) \/ c = h
    BY <1>1, <2>1, ConstAssumption DEF Held
  <2>5. \A j \in 1 .. n : records[j] # e
    <3>1. ~Open(e)
      BY <2>1 DEF Open
    <3> QED
      BY <1>1, <2>1, <3>1 DEF RecordInv, RecordsAreOpenFds, Range
  <2>6. ASSUME NEW c \in Conns, NEW d \in Conns, Before(c, d)'
        PROVE  Before(c, d) \/ (Held(c) /\ d = h)
    <3>1. PICK i, j \in 2 .. (n + 1) :
            i < j /\ RefersNext(records'[i], c) /\ RefersNext(records'[j], d)
      BY <1>3, <2>6 DEF Before, Refers, RefersNext
    <3>2. i \in 2 .. n /\ records'[i] = records[i] /\ records[i] # e
      BY <1>1, <1>3, <2>5, <3>1
    <3>3. Refers(records[i], c)
      BY <2>3, <3>1, <3>2
    <3>4. CASE j = n + 1
      <4>1. ~Refers(e, d)
        BY <2>1, ConstAssumption DEF Refers, RefersNext
      <4>2. d = h
        BY <1>3, <2>3, <3>1, <3>4, <4>1
      <4> QED
        BY <3>3, <4>2 DEF Held, Refers
    <3>5. CASE j # n + 1
      <4>1. j \in 2 .. n /\ records'[j] = records[j] /\ records[j] # e
        BY <1>1, <1>3, <2>5, <3>1, <3>5
      <4>2. Refers(records[j], d)
        BY <2>3, <3>1, <4>1
      <4> QED
        BY <3>1, <3>2, <3>3, <4>1, <4>2 DEF Before
    <3> QED
      BY <3>4, <3>5
  <2>7. ASSUME NEW c \in Conns, NEW d \in Conns, Before(c, d) PROVE Before(c, d)'
    <3>1. PICK i, j \in 2 .. n : i < j /\ Refers(records[i], c) /\ Refers(records[j], d)
      BY <2>7 DEF Before
    <3>2. /\ i \in 2 .. (n + 1) /\ j \in 2 .. (n + 1)
          /\ records'[i] = records[i] /\ records'[j] = records[j]
      BY <1>1, <1>3, <3>1
    <3>3. RefersNext(records'[i], c) /\ RefersNext(records'[j], d)
      BY <2>3, <3>1, <3>2
    <3> QED
      BY <1>3, <3>1, <3>2, <3>3 DEF Before, Refers, RefersNext
  <2>8. ASSUME NEW c \in Conns, Held(c) PROVE Before(c, h)'
    <3>1. PICK i \in 2 .. n : Refers(records[i], c)
      BY <2>8, HeldHasRecord
    <3>2. i \in 2 .. (n + 1) /\ n + 1 \in 2 .. (n + 1) /\ i < n + 1 /\ records'[i] = records[i]
      BY <1>1, <1>3, <3>1
    <3>3. RefersNext(records'[i], c) /\ RefersNext(records'[n + 1], h)
      BY <1>3, <2>1, <2>3, <3>1, <3>2
    <3> QED
      BY <1>3, <3>2, <3>3 DEF Before, Refers, RefersNext
  <2>9. \A c, d \in Conns : Before(c, d)' <=> Before(c, d) \/ (Held(c) /\ d = h)
    BY <2>6, <2>7, <2>8
  <2>10. \E x \in Conns :
           /\ joinedAt[x] = -1 /\ joinedAt' = [joinedAt EXCEPT ![x] = bcast]
           /\ \A c, d \in Conns : /\ Held(c)' <=> Held(c) \/ c = x
                                  /\ Before(c, d)' <=> Before(c, d) \/ (Held(c) /\ d = x)
    <3> WITNESS h \in Conns
    <3> QED
      BY <2>1, <2>2, <2>4, <2>9
  <2> QED
    BY <2>10
<1> QED
  BY <1>4, <1>5

\* A client has one record.
LEMMA OneRecord ==
  ASSUME RecordInv, NEW c \in Conns, PlaceInv,
         NEW i \in 2 .. Len(records), NEW j \in 2 .. Len(records),
         Refers(records[i], c), Refers(records[j], c)
  PROVE  i = j
<1>1. DOMAIN records = 1 .. Len(records) /\ Len(records) \in Nat /\ NoFd \notin Fds
  BY LenProperties, ConstAssumption DEF RecordInv, TypeOK, NoFd, Fds
<1>2. records[i] = records[j] /\ records[j] # NoFd
  BY <1>1, ConstAssumption DEF Refers, PlaceInv
<1>3. i \in DOMAIN records /\ j \in DOMAIN records
  BY <1>1
<1> QED
  BY <1>2, <1>3 DEF RecordInv, RecordsAreOpenFds

\* The clients with a record before the k-th.
Reached(k) == {c \in Conns : \E i \in 2 .. (k - 1) : Refers(records[i], c)}

\* They are members, and so are all those before them.
LEMMA ReachedFacts ==
  ASSUME RecordInv, PlaceInv, NEW k \in 2 .. (Len(records) + 1)
  PROVE  /\ \A c \in Reached(k) : Held(c)
         /\ \A c, d \in Conns : Before(c, d) /\ d \in Reached(k) => c \in Reached(k)
         /\ k = Len(records) + 1 => \A c \in Conns : Held(c) => c \in Reached(k)
         /\ k # Len(records) + 1 =>
              \A c \in Conns : Refers(records[k], c) =>
                /\ Held(c) /\ c \notin Reached(k)
                /\ \A b \in Conns : Before(b, c) => b \in Reached(k)
<1>1. Len(records) \in Nat
  BY LenProperties DEF RecordInv, TypeOK
<1>2. \A c \in Reached(k) : Held(c)
  BY DEF Reached, Held, Refers
<1>3. ASSUME NEW c \in Conns, NEW d \in Conns, Before(c, d), d \in Reached(k)
      PROVE  c \in Reached(k)
  <2>1. PICK i, j \in 2 .. Len(records) : i < j /\ Refers(records[i], c) /\ Refers(records[j], d)
    BY <1>3 DEF Before
  <2>2. PICK r \in 2 .. (k - 1) : Refers(records[r], d)
    BY <1>3 DEF Reached
  <2>3. r \in 2 .. Len(records)
    BY <1>1
  <2>4. r = j
    BY <2>1, <2>2, <2>3, OneRecord
  <2>5. i \in 2 .. (k - 1)
    BY <1>1, <2>1, <2>4
  <2> QED
    BY <2>1, <2>5 DEF Reached
<1>4. ASSUME k = Len(records) + 1, NEW c \in Conns, Held(c) PROVE c \in Reached(k)
  <2>1. PICK i \in 2 .. Len(records) : Refers(records[i], c)
    BY <1>4, HeldHasRecord
  <2>2. i \in 2 .. (k - 1)
    BY <1>1, <1>4
  <2> QED
    BY <2>1, <2>2 DEF Reached
<1>5. ASSUME k # Len(records) + 1, NEW c \in Conns, Refers(records[k], c)
      PROVE  /\ Held(c) /\ c \notin Reached(k)
             /\ \A b \in Conns : Before(b, c) => b \in Reached(k)
  <2>1. k \in 2 .. Len(records)
    BY <1>1, <1>5
  <2>2. Held(c)
    BY <1>5 DEF Held, Refers
  <2>3. ASSUME c \in Reached(k) PROVE FALSE
    <3>1. PICK r \in 2 .. (k - 1) : Refers(records[r], c)
      BY <2>3 DEF Reached
    <3>2. r \in 2 .. Len(records) /\ r # k
      BY <1>1
    <3> QED
      BY <1>5, <2>1, <3>1, <3>2, OneRecord
  <2>4. ASSUME NEW b \in Conns, Before(b, c) PROVE b \in Reached(k)
    <3>1. PICK i, j \in 2 .. Len(records) : i < j /\ Refers(records[i], b) /\ Refers(records[j], c)
      BY <2>4 DEF Before
    <3>2. j = k
      BY <1>5, <2>1, <3>1, OneRecord
    <3>3. i \in 2 .. (k - 1)
      BY <1>1, <3>1, <3>2
    <3> QED
      BY <3>1, <3>3 DEF Reached
  <2> QED
    BY <2>2, <2>3, <2>4
<1> QED
  BY <1>2, <1>3, <1>4, <1>5

\* The gateway seen as a hub: its members and their order.
Members == {c \in Conns : Held(c)}
Order == {p \in Conns \X Conns : Before(p[1], p[2])}
Known == {c \in Conns : joinedAt[c] # -1}

\* A broadcast reaches a prefix of the members.
LEMMA DeliverIsReach ==
  ASSUME RecordInv, PlaceInv, pc # "dead", NEW k \in 2 .. (Len(records) + 1), Deliver(k),
         bcast' = bcast + 1
  PROVE  H!Reach(Reached(k)) /\ Reached(k) \in SUBSET Members
<1>1. Reached(k) \subseteq Members
  BY ReachedFacts DEF Reached, Members
<1>2. \A p \in Order : p[2] \in Reached(k) => p[1] \in Reached(k)
  BY ReachedFacts DEF Order
<1>3. got' = [c \in Conns |-> IF c \in Reached(k) THEN Append(got[c], bcast + 1) ELSE got[c]]
  BY DEF Deliver, Reached
<1> QED
  BY <1>1, <1>2, <1>3 DEF H!Reach, Members, Order

\* Deleting a client's record removes it; deleting any other changes nothing.
LEMMA DeleteIsExpel ==
  ASSUME RecordInv, PlaceInv, NEW fd, deleteSocketRec(fd), joinedAt' = joinedAt
  PROVE  /\ \A c \in Conns : Refers(fd, c) => H!Expel({c})
         /\ (\A c \in Conns : ~Refers(fd, c)) => UNCHANGED <<Known, Members, Order>>
<1>1. UNCHANGED Known
  BY DEF Known
<1>2. ASSUME NEW c \in Conns, Refers(fd, c) PROVE H!Expel({c})
  <2>1. \A d \in Conns : Refers(fd, d) <=> d = c
    BY <1>2 DEF Refers
  <2>2. Members' = Members \ {c}
    BY <2>1, DeleteExpels DEF Members
  <2>3. Order' = {p \in Order : p[1] \notin {c} /\ p[2] \notin {c}}
    BY <2>1, DeleteExpels DEF Order
  <2> QED
    BY <1>1, <2>2, <2>3 DEF H!Expel, Members, Order, Known
<1>3. ASSUME \A c \in Conns : ~Refers(fd, c) PROVE UNCHANGED <<Members, Order>>
  BY <1>3, DeleteExpels DEF Members, Order
<1> QED
  BY <1>1, <1>2, <1>3

\* Serving the listening socket admits one connection, or nobody.
LEMMA ListenerAdmits ==
  ASSUME RecordInv, PlaceInv, ServeListener
  PROVE  H!Next \/ UNCHANGED H!vars
<1>1. /\ createSocketRec /\ pc = "sweep" /\ UNCHANGED <<pc, got, bcast, drops>>
      /\ joinedAt \in [Conns -> Nat \cup {-1}] /\ bcast \in Nat
  BY DEF ServeListener, Visiting, RecordInv, TypeOK
<1>2. CASE /\ joinedAt' = joinedAt
           /\ \A c, d \in Conns : (Held(c)' <=> Held(c)) /\ (Before(c, d)' <=> Before(c, d))
  <2>1. UNCHANGED <<Known, Members, Order>>
    BY <1>2 DEF Known, Members, Order
  <2> QED
    BY <1>1, <2>1 DEF H!vars, Known, Members, Order
<1>3. ASSUME NEW h \in Conns, joinedAt[h] = -1, joinedAt' = [joinedAt EXCEPT ![h] = bcast],
             \A c, d \in Conns : /\ Held(c)' <=> Held(c) \/ c = h
                                 /\ Before(c, d)' <=> Before(c, d) \/ (Held(c) /\ d = h)
      PROVE  H!Admit(h)
  <2>1. h \notin Known /\ Known' = Known \cup {h}
    BY <1>1, <1>3 DEF Known
  <2>2. Members' = Members \cup {h}
    BY <1>3 DEF Members
  <2>3. Order' = Order \cup (Members \X {h})
    BY <1>3 DEF Order, Members
  <2> QED
    BY <1>1, <2>1, <2>2, <2>3 DEF H!Admit, Known, Members, Order
<1> QED
  BY <1>1, <1>2, <1>3, AcceptAdmits DEF H!Next

\* Closing an entry removes its client, or nobody.
LEMMA ClientLeaves ==
  ASSUME RecordInv, PlaceInv, CloseClient
  PROVE  H!Next \/ UNCHANGED H!vars
<1>1. /\ pc = "close" /\ pc' = "sweep" /\ UNCHANGED <<got, bcast, drops, joinedAt>>
      /\ UNCHANGED <<records, fdTable>> \/ \E fd : deleteSocketRec(fd)
  BY DEF CloseClient, histVars
<1>2. CASE UNCHANGED <<records, fdTable>>
  BY <1>1, <1>2 DEF H!vars, Held, Before, Refers
<1>3. ASSUME NEW fd, deleteSocketRec(fd) PROVE H!Next \/ UNCHANGED H!vars
  <2>1. CASE \A c \in Conns : ~Refers(fd, c)
    BY <1>1, <1>3, <2>1, DeleteIsExpel DEF H!vars, Known, Members, Order
  <2>2. ASSUME NEW c \in Conns, Refers(fd, c) PROVE H!Remove(c)
    <3>1. Held(c) /\ H!Expel({c})
      BY <1>1, <1>3, <2>2, DeleteIsExpel DEF Held, Refers
    <3> QED
      BY <1>1, <3>1 DEF H!Remove
  <2> QED
    BY <2>1, <2>2 DEF H!Next
<1> QED
  BY <1>1, <1>2, <1>3

\* A frame broadcast is a frame of the hub, however the broadcast ends.
LEMMA BroadcastReaches ==
  ASSUME RecordInv, PlaceInv,
         \/ SendAllClients
         \/ \E k \in 2 .. Len(records) : SendStopsAtError(k) \/ SendIsKilled(k)
  PROVE  H!Next
<1>1. Len(records) \in Nat \ {0}
  <2>1. records \in Seq(Fds \cup {NoFd}) /\ records # <<>>
    BY DEF RecordInv, TypeOK, HeadIsListener
  <2> QED
    BY <2>1, EmptySeq, Zenon DEF RecordInv
<1>2. CASE SendAllClients
  <2> DEFINE k == Len(records) + 1
  <2>1. /\ pc = "serial" /\ pc' # "dead" /\ k \in 2 .. (Len(records) + 1) /\ Deliver(k)
        /\ bcast' = bcast + 1 /\ UNCHANGED <<records, fdTable, drops, joinedAt>>
    BY <1>1, <1>2 DEF SendAllClients, TakeFrame, AfterFrame
  <2> HIDE DEF k
  <2>2. H!Reach(Reached(k))
    BY <2>1, DeliverIsReach
  <2>3. Reached(k) = Members
    <3>1. k = Len(records) + 1
      BY DEF k
    <3> QED
      BY <2>1, <3>1, ReachedFacts DEF Members, Reached
  <2>4. UNCHANGED <<Known, Members, Order>>
    BY <2>1 DEF Known, Members, Order, Held, Before, Refers
  <2>5. H!ReachAll
    BY <2>1, <2>2, <2>3, <2>4 DEF H!ReachAll, Known, Members, Order
  <2> QED
    BY <2>5 DEF H!Next
<1>3. ASSUME NEW k \in 2 .. Len(records), SendStopsAtError(k) PROVE H!Next
  <2>1. /\ pc = "serial" /\ pc' # "dead" /\ k \in 2 .. (Len(records) + 1)
        /\ k # Len(records) + 1 /\ Deliver(k) /\ deleteSocketRec(records[k])
        /\ bcast' = bcast + 1 /\ drops' = drops + 1 /\ joinedAt' = joinedAt
    BY <1>1, <1>3 DEF SendStopsAtError, TakeFrame, AfterFrame
  <2>2. H!Reach(Reached(k)) /\ Reached(k) \in SUBSET Members
    BY <2>1, DeliverIsReach
  <2>3. CASE \A c \in Conns : ~Refers(records[k], c)
    <3>1. UNCHANGED <<Known, Members, Order>>
      BY <2>1, <2>3, DeleteIsExpel
    <3>2. H!ReachSome(Reached(k))
      BY <2>1, <2>2, <3>1 DEF H!ReachSome, Known, Members, Order
    <3> QED
      BY <2>2, <3>2 DEF H!Next, Members
  <2>4. ASSUME NEW c \in Conns, Refers(records[k], c) PROVE H!Next
    <3>1. H!Expel({c})
      BY <2>1, <2>4, DeleteIsExpel
    <3>2. c \in Members \ Reached(k) /\ \A p \in Order : p[2] = c => p[1] \in Reached(k)
      BY <2>1, <2>4, ReachedFacts DEF Members, Order
    <3>3. H!ReachSome(Reached(k))
      BY <2>1, <2>2, <3>1, <3>2 DEF H!ReachSome, Members, Order
    <3> QED
      BY <2>2, <3>3 DEF H!Next, Members
  <2> QED
    BY <2>3, <2>4
<1>4. ASSUME NEW k \in 2 .. Len(records), SendIsKilled(k) PROVE H!Next
  <2>1. /\ pc = "serial" /\ pc' = "dead" /\ k \in 2 .. (Len(records) + 1) /\ Deliver(k)
        /\ bcast' = bcast + 1 /\ UNCHANGED <<records, fdTable, drops, joinedAt>>
    BY <1>1, <1>4 DEF SendIsKilled, TakeFrame
  <2>2. H!Reach(Reached(k)) /\ Reached(k) \in SUBSET Members
    BY <2>1, DeliverIsReach
  <2>3. UNCHANGED <<Known, Members, Order>>
    BY <2>1 DEF Known, Members, Order, Held, Before, Refers
  <2>4. H!ReachAndStop(Reached(k))
    BY <2>1, <2>2, <2>3 DEF H!ReachAndStop, Known, Members, Order
  <2> QED
    BY <2>2, <2>4 DEF H!Next, Members
<1> QED
  BY <1>2, <1>3, <1>4

\* Every step of the gateway is a step of the hub, or none.
LEMMA HubStep == RecordInv /\ PlaceInv /\ [Next]_vars => [H!Next]_(H!vars)
<1> SUFFICES ASSUME RecordInv, PlaceInv, [Next]_vars PROVE H!Next \/ UNCHANGED H!vars
  OBVIOUS
<1>1. ASSUME UNCHANGED <<records, fdTable, got, bcast, drops, joinedAt>>,
             (pc # "dead" /\ pc' # "dead") \/ pc' = pc
      PROVE  UNCHANGED H!vars
  BY <1>1 DEF H!vars, Held, Before, Refers
<1>2. CASE PollReturns \/ ServeNoise \/ SkipIdle \/ LoopAgain
  BY <1>1, <1>2 DEF PollReturns, ServeNoise, SkipIdle, LoopAgain, Visiting, histVars
<1>3. CASE ReadClient \/ ReadMore \/ ReadEnds
  <2>1. /\ pc # "dead" /\ UNCHANGED <<records, fdTable, got, bcast, drops, joinedAt>>
    BY <1>3 DEF ReadClient, ReadMore, ReadEnds, Visiting, histVars
  <2>2. CASE pc' = "dead"
    <3>1. H!Stop
      BY <2>1, <2>2 DEF H!Stop, Held, Before, Refers
    <3> QED
      BY <3>1 DEF H!Next
  <2> QED
    BY <1>1, <2>1, <2>2
<1>4. CASE Environment
  BY <1>1, <1>4 DEF Environment, ClientStep, Connect, SendCommand, SendStart, SendRest, Shutdown,
                    ResetArrives, SocSends, SocFinishes, EnvKeeps, loopVars, histVars
<1>5. CASE UNCHANGED vars
  BY <1>1, <1>5 DEF vars, loopVars, histVars
<1> QED
  BY <1>2, <1>3, <1>4, <1>5, ListenerAdmits, ClientLeaves, BroadcastReaches DEF Next, GatewayStep

\* The gateway starts as an empty hub.
LEMMA HubInit == Init => H!Init
<1> SUFFICES ASSUME Init PROVE H!Init
  OBVIOUS
<1>1. Len(records) = 1
  BY DEF Init
<1>2. \A c \in Conns : ~Held(c) /\ joinedAt[c] = -1
  BY ConstAssumption DEF Init, Held
<1>3. \A c, d \in Conns : ~Before(c, d)
  BY <1>1 DEF Before
<1> QED
  BY <1>2, <1>3 DEF Init, H!Init

\* Gateway implements Hub: whatever poll() reported, however descriptors are
\* reused and records unlinked, the gateway's clients see a hub.
THEOREM GatewayImplementsHub == Spec => ImplementsHub
<1>1. RecordInv /\ PlaceInv /\ [Next]_vars => [H!Next]_(H!vars)
  BY HubStep
<1>2. ClientInv => RecordInv /\ PlaceInv
  BY DEF ClientInv
<1> QED
  BY <1>1, <1>2, HubInit, ClientInvariant, PTL DEF Spec, ImplementsHub, H!Spec
=============================================================================
