-------------------------- MODULE SocketClientProofs --------------------------
(***************************************************************************)
(* Proofs about SocketClient, ClientFrames and CommandStream, for every    *)
(* choice of their constants.                                              *)
(*                                                                         *)
(* ListInv is what makes the hand-over work at all: each list holds at     *)
(* most one message, what the handler walks is never newer than what was   *)
(* handed over, and what was handled is freed before the next walk.        *)
(* FramesInv says of the bytes of the stream where the reader is in them,  *)
(* and StreamInv the same of the commands on their way to the gateway.     *)
(***************************************************************************)
EXTENDS SocketClient, ClientFrames, CommandStream, SequenceFacts, SequenceTheorems,
        FiniteSetTheorems, TLAPS

\* The reader hands each message over before it reads the next.
ReaderInv ==
  /\ rxPc \in {"lock", "move"} => rxBuf = <<received>>
  /\ rxPc \notin {"lock", "move"} => rxBuf = <<>>
  /\ received > 0 /\ rxPc \in {"poll", "signal", "exit"} => rxProcBuf = <<received>>
  /\ rxPc \in {"count", "queue", "lock", "move"} => received > 0

\* The message a list holds is at least as late as everything handled.
WalkInv ==
  /\ rxProcBuf = <<>> => handled = <<>> /\ walk = <<>>
  /\ Len(rxProcBuf) <= 1 /\ Len(walk) <= 1
  /\ rxProcBuf # <<>> => \A i \in DOMAIN handled : handled[i] <= rxProcBuf[1]
  /\ walk # <<>> => /\ \A i \in DOMAIN handled : handled[i] <= walk[1]
                    /\ walk[1] <= rxProcBuf[1]

\* What was handled is freed, but for the message being handled; what was freed
\* was handled.
FreedInv ==
  /\ hPc \in {"count", "free"} => walk # <<>> /\ walk[1] \in Range(handled)
  /\ \A i \in DOMAIN handled :
       handled[i] \in freed \/ (hPc \in {"count", "free"} /\ handled[i] = walk[1])
  /\ freed \subseteq Range(handled)

ListInv == TypeOK /\ ReaderInv /\ WalkInv /\ FreedInv /\ HandledInOrder

\* The mutex is held by the thread whose program counter says so, until it is
\* taken from the handler.
MutexInv ==
  misused \/ /\ rxPc = "move" => mutex = "rx"
             /\ HandlerInside => mutex = "handle"

-----------------------------------------------------------------------------
(* Type correctness, with what the reader holds.                           *)

\* Every step of the reader keeps the types and ReaderInv.
LEMMA ReaderStep ==
  ASSUME TypeOK, ReaderInv, RxInput \/ RxStep
  PROVE  TypeOK' /\ ReaderInv'
<1> USE DEF TypeOK, ReaderInv, rxVars, hVars
<1>1. CASE RecvMessage
  <2>1. received' = received + 1 /\ received' \in Nat /\ received' > 0
    BY <1>1 DEF RecvMessage
  <2>2. /\ rxBuf' \in Seq(1 .. received') /\ rxProcBuf' \in Seq(1 .. received')
        /\ walk' \in Seq(1 .. received') /\ handled' \in Seq(1 .. received')
    BY <1>1, <2>1, SeqMonotonic, 1 .. received \subseteq 1 .. received' DEF RecvMessage
  <2>3. freed' \subseteq 1 .. received'
    BY <1>1, <2>1 DEF RecvMessage
  <2> QED
    BY <1>1, <2>1, <2>2, <2>3 DEF RecvMessage
<1>2. CASE CountReceived
  BY <1>2 DEF CountReceived
<1>3. CASE QueueMessage
  <2>1. received > 0 /\ rxBuf' = <<received>>
    BY <1>3 DEF QueueMessage
  <2>2. rxBuf' \in Seq(1 .. received)
    BY <2>1
  <2> QED
    BY <1>3, <2>1, <2>2 DEF QueueMessage
<1>4. CASE RecvPart \/ RecvBadLength \/ RecvEnds
  <2>1. rxPc = "poll" /\ rxBuf = <<>> /\ others' = others + 1 /\ mutex' \in {mutex, "free"}
    BY <1>4 DEF RecvPart, RecvBadLength, RecvEnds, OtherInput
  <2>2. rxPc' \in {"poll", "exit"}
    BY <1>4, <2>1 DEF RecvPart, RecvBadLength, RecvEnds, AfterRead
  <2>3. UNCHANGED <<rxBuf, rxTmp, hVars, rxProcBuf, messageCount, received>>
    BY <1>4 DEF RecvPart, RecvBadLength, RecvEnds, OtherInput
  <2>4. misused' \in BOOLEAN
    BY <1>4 DEF RecvPart, RecvBadLength, RecvEnds
  <2> QED
    BY <2>1, <2>2, <2>3, <2>4
<1>5. CASE RxLock
  BY <1>5 DEF RxLock
<1>6. CASE MoveList
  BY <1>6 DEF MoveList
<1>7. CASE Signal
  BY <1>7 DEF Signal
<1> QED
  BY <1>1, <1>2, <1>3, <1>4, <1>5, <1>6, <1>7 DEF RxInput, RxStep

\* Every step of the handler keeps the types and ReaderInv.
LEMMA HandlerStep ==
  ASSUME TypeOK, ReaderInv, FreedInv, HandleStep
  PROVE  TypeOK' /\ ReaderInv'
<1> USE DEF TypeOK, ReaderInv, rxVars
<1>1. CASE Callback
  <2>1. Head(walk) \in 1 .. received
    BY <1>1 DEF Callback
  <2> QED
    BY <1>1, <2>1 DEF Callback
<1>2. CASE FreeNode
  <2>1. Head(walk) \in 1 .. received
    BY <1>2 DEF FreeNode, FreedInv
  <2>2. walk' \in Seq(1 .. received)
    <3>1. walk # <<>> /\ walk' = Tail(walk)
      BY <1>2 DEF FreeNode, FreedInv
    <3> QED
      BY <3>1, HeadTailProperties
  <2>3. freed' = freed \cup {Head(walk)} /\ messageCount' = hTmp - 1
    BY <1>2 DEF FreeNode
  <2>4. freed' \subseteq 1 .. received /\ messageCount' \in Int
    <3>1. hTmp - 1 \in Int
      OBVIOUS
    <3> HIDE DEF TypeOK, ReaderInv
    <3>2. freed \subseteq 1 .. received
      BY DEF TypeOK
    <3> QED
      BY <2>1, <2>3, <3>1, <3>2
  <2> QED
    BY <1>2, <2>2, <2>4 DEF FreeNode
<1>3. CASE FirstLock \/ CondWait \/ Relock
  BY <1>3 DEF FirstLock, CondWait, Relock
<1>4. CASE TouchFreed \/ CountHandled \/ WalkDone
  BY <1>4 DEF TouchFreed, CountHandled, WalkDone
<1> QED
  BY <1>1, <1>2, <1>3, <1>4 DEF HandleStep

-----------------------------------------------------------------------------
(* The invariant of the hand-over.                                         *)

ListsAgree == WalkInv /\ FreedInv /\ HandledInOrder

\* The reader touches neither the walk nor what was handled.  It replaces the
\* list handed over only by one with the last message.
LEMMA ReaderKeepsLists ==
  ASSUME ListInv, RxInput \/ RxStep
  PROVE  ListsAgree'
<1> USE DEF ListInv, ListsAgree, TypeOK, ReaderInv, WalkInv, FreedInv, HandledInOrder,
            Range, rxVars, hVars
<1>1. UNCHANGED <<walk, freed, handled>>
  BY DEF RxInput, RxStep, RecvMessage, CountReceived, QueueMessage, RecvPart, RecvBadLength,
         RecvEnds, OtherInput, RxLock, MoveList, Signal
<1>2. hPc' \in {"count", "free"} <=> hPc \in {"count", "free"}
  BY DEF RxInput, RxStep, RecvMessage, CountReceived, QueueMessage, RecvPart, RecvBadLength,
         RecvEnds, OtherInput, RxLock, MoveList, Signal
<1>3. FreedInv' /\ HandledInOrder'
  BY <1>1, <1>2
<1>4. CASE MoveList
  <2>1. rxProcBuf' = <<received>> /\ Len(rxProcBuf') = 1 /\ rxProcBuf' # <<>> /\ rxProcBuf'[1] = received
    BY <1>4 DEF MoveList
  <2>2. \A i \in DOMAIN handled : handled[i] <= received
    OBVIOUS
  <2>3. walk # <<>> => walk[1] <= received
    OBVIOUS
  <2>4. WalkInv'
    BY <1>1, <2>1, <2>2, <2>3
  <2> QED
    BY <1>3, <2>4
<1>5. CASE ~MoveList
  <2>1. UNCHANGED rxProcBuf
    BY <1>5 DEF RxInput, RxStep, RecvMessage, CountReceived, QueueMessage, RecvPart,
                RecvBadLength, RecvEnds, OtherInput, RxLock, Signal
  <2> QED
    BY <1>1, <1>3, <2>1
<1> QED
  BY <1>4, <1>5

\* The handler: a message that is handed to the callback is later than all that
\* were, because those are freed.
LEMMA HandlerKeepsLists ==
  ASSUME ListInv, HandleStep
  PROVE  ListsAgree'
<1> USE DEF ListInv, ListsAgree, TypeOK, WalkInv, FreedInv, HandledInOrder, Range, rxVars
<1>1. CASE Callback
  <2> DEFINE w == walk[1]
  <2>1. /\ Head(walk) = w /\ w \in Nat /\ w \notin freed
        /\ hPc = "walk" /\ hPc' = "count" /\ handled' = Append(handled, w)
        /\ UNCHANGED <<walk, freed, rxProcBuf>>
    BY <1>1 DEF Callback
  <2>2. \A i \in DOMAIN handled : handled[i] \in Nat /\ handled[i] < w
    <3> SUFFICES ASSUME NEW i \in DOMAIN handled PROVE handled[i] \in Nat /\ handled[i] < w
      OBVIOUS
    <3>1. handled[i] \in freed /\ handled[i] <= w /\ handled[i] \in Nat
      BY <1>1, <2>1 DEF Callback
    <3> QED
      BY <2>1, <3>1
  <2>3. handled \in Seq(Nat)
    <3>1. 1 .. received \subseteq Nat /\ handled \in Seq(1 .. received)
      OBVIOUS
    <3> QED
      BY <3>1, SeqMonotonic
  <2>4. /\ HandledInOrder'
        /\ \A i \in DOMAIN handled' : handled'[i] <= w
        /\ Range(handled') = Range(handled) \cup {w}
    <3>1. \A i, j \in DOMAIN handled : i < j => handled[i] < handled[j]
      OBVIOUS
    <3>2. \A i \in DOMAIN handled : handled[i] < w
      BY <2>2
    <3> HIDE DEF TypeOK, ReaderInv, WalkInv, FreedInv, ListInv, ListsAgree, w, Range
    <3> QED
      BY <2>1, <2>3, <3>1, <3>2, AppendAbove
  <2>5. WalkInv'
    <3>1. walk # <<>> /\ rxProcBuf # <<>> /\ w <= rxProcBuf[1] /\ rxProcBuf[1] \in Nat
      BY <1>1 DEF Callback
    <3>2. \A i \in DOMAIN handled' : handled'[i] \in Nat
      <4>1. handled' \in Seq(Nat)
        BY <2>1, <2>3, AppendProperties
      <4> QED
        BY <4>1, ElementOfSeq
    <3> QED
      BY <2>1, <2>4, <3>1, <3>2
  <2>6. FreedInv'
    <3>1. \A i \in DOMAIN handled' : handled'[i] \in freed \/ handled'[i] = w
      <4>1. \A i \in DOMAIN handled' : handled'[i] \in Range(handled')
        OBVIOUS
      <4>2. \A x \in Range(handled) : x \in freed
        BY <2>1
      <4> QED
        BY <2>4, <4>1, <4>2
    <3> QED
      BY <1>1, <2>1, <2>4, <3>1 DEF Callback
  <2> QED
    BY <2>4, <2>5, <2>6
<1>2. CASE FreeNode
  <2>1. /\ Head(walk) = walk[1] /\ walk' = <<>> /\ walk[1] \in Range(handled)
        /\ freed' = freed \cup {walk[1]} /\ hPc = "free" /\ hPc' = "walk"
        /\ UNCHANGED <<handled, rxProcBuf>>
    BY <1>2, ShortTail DEF FreeNode
  <2>2. WalkInv' /\ HandledInOrder'
    BY <2>1
  <2>3. \A i \in DOMAIN handled : handled[i] \in freed'
    BY <2>1
  <2> QED
    BY <2>1, <2>2, <2>3
<1>3. CASE Relock
  <2>1. /\ walk' = rxProcBuf /\ hPc' = "walk" /\ hPc = "relock"
        /\ UNCHANGED <<freed, handled, rxProcBuf>>
    BY <1>3 DEF Relock
  <2>2. rxProcBuf # <<>> => rxProcBuf[1] \in Nat
    OBVIOUS
  <2> QED
    BY <2>1, <2>2
<1>4. CASE CountHandled
  BY <1>4 DEF CountHandled
<1>5. CASE FirstLock \/ CondWait \/ TouchFreed \/ WalkDone
  BY <1>5 DEF FirstLock, CondWait, TouchFreed, WalkDone
<1> QED
  BY <1>1, <1>2, <1>3, <1>4, <1>5 DEF HandleStep

\* A step that changes nothing keeps the invariant.
LEMMA ListStutter == ListInv /\ UNCHANGED vars => ListInv'
  BY DEF ListInv, TypeOK, ReaderInv, WalkInv, FreedInv, HandledInOrder, Range, vars, rxVars, hVars

\* The invariant holds at the start.
LEMMA ListInit == Init => ListInv
<1> SUFFICES ASSUME Init PROVE ListInv
  OBVIOUS
<1>1. <<>> \in Seq(1 .. received) /\ Len(<<>>) = 0
  BY EmptySeq
<1>2. misused \in BOOLEAN
  BY DEF Init
<1>3. TypeOK /\ ReaderInv
  BY <1>1, <1>2 DEF Init, TypeOK, ReaderInv
<1>4. WalkInv /\ FreedInv /\ HandledInOrder
  BY <1>1 DEF Init, WalkInv, FreedInv, HandledInOrder, Range
<1> QED
  BY <1>3, <1>4 DEF ListInv

\* ListInv is an invariant of the client, whatever arrives on the socket.
THEOREM ListInvariant == Spec => []ListInv
<1>1. ListInv /\ [Next]_vars => ListInv'
  <2> SUFFICES ASSUME ListInv, [Next]_vars PROVE ListInv'
    OBVIOUS
  <2>1. CASE RxInput \/ RxStep
    BY <2>1, ReaderStep, ReaderKeepsLists DEF ListInv, ListsAgree
  <2>2. CASE HandleStep
    BY <2>2, HandlerStep, HandlerKeepsLists DEF ListInv, ListsAgree
  <2>3. CASE UNCHANGED vars
    BY <2>3, ListStutter
  <2> QED
    BY <2>1, <2>2, <2>3 DEF Next
<1> QED
  BY <1>1, ListInit, PTL DEF Spec

\* Every variable keeps its type, and no message is in a list or handled that
\* was not received.
THEOREM TypeCorrect == Spec => []TypeOK
  BY ListInvariant, PTL DEF ListInv

\* The callback gets the messages in the order the reader received them and
\* none twice, for every number of messages and every mix of other inputs.
THEOREM InOrder == Spec => []HandledInOrder
  BY ListInvariant, PTL DEF ListInv

\* The last message received is on its way, in a list and not freed, or handled.
THEOREM LastKept == Spec => []LastMessageKept
<1>1. ListInv => LastMessageKept
  <2> SUFFICES ASSUME ListInv, received > 0, rxPc \notin {"count", "queue"}
               PROVE  \/ received \in Range(rxBuf) \cup Range(handled)
                      \/ received \in (Range(rxProcBuf) \cup Range(walk)) \ freed
    BY DEF LastMessageKept
  <2>1. CASE rxPc \in {"lock", "move"}
    BY <2>1 DEF ListInv, ReaderInv, Range
  <2>2. CASE rxPc \in {"poll", "signal", "exit"}
    <3>1. received \in Range(rxProcBuf)
      BY <2>2 DEF ListInv, ReaderInv, Range
    <3> QED
      BY <3>1 DEF ListInv, FreedInv
  <2> QED
    BY <2>1, <2>2 DEF ListInv, TypeOK
<1> QED
  BY <1>1, ListInvariant, PTL

-----------------------------------------------------------------------------
(* Mutual exclusion.                                                       *)

\* The reader replaces the list only while the handler is outside its walk,
\* until a wrong length makes it unlock the handler's mutex.
THEOREM Exclusion == Spec => []ListExclusive
<1>1. Init => MutexInv
  BY DEF Init, MutexInv, HandlerInside
<1>2. MutexInv /\ [Next]_vars => MutexInv'
  <2> SUFFICES ASSUME MutexInv, [Next]_vars PROVE MutexInv'
    OBVIOUS
  <2> USE DEF MutexInv, HandlerInside, rxVars, hVars
  <2>1. CASE RecvBadLength
    BY <2>1 DEF RecvBadLength, OtherInput, AfterRead
  <2>5. CASE RecvMessage \/ RecvPart \/ RecvEnds
    BY <2>5 DEF RecvMessage, RecvPart, RecvEnds, OtherInput, AfterRead
  <2>2. CASE RxStep
    BY <2>2 DEF RxStep, CountReceived, QueueMessage, RxLock, MoveList, Signal
  <2>3. CASE HandleStep
    BY <2>3 DEF HandleStep, FirstLock, CondWait, Relock, Callback, TouchFreed, CountHandled,
                FreeNode, WalkDone
  <2>4. CASE UNCHANGED vars
    BY <2>4 DEF vars
  <2> QED
    BY <2>1, <2>2, <2>3, <2>4, <2>5 DEF Next, RxInput
<1>3. MutexInv => ListExclusive
  BY DEF MutexInv, ListExclusive
<1> QED
  BY <1>1, <1>2, <1>3, PTL DEF Spec
-----------------------------------------------------------------------------
(* The stream of broadcasts.                                               *)

FrameBytes == [frame : Nat, pos : 1 .. BroadcastSize, val : Nat]
Messages == [bytes : Seq(FrameBytes), apart : BOOLEAN]

\* y comes behind x: in the same broadcast, or at the start of the next one.
Follows(x, y) ==
  IF x.pos < BroadcastSize THEN y.pos = x.pos + 1 /\ y.frame = x.frame
                           ELSE y.pos = 1 /\ y.frame = x.frame + 1

\* Nothing is missing in w.
Chain(w) == \A i, j \in DOMAIN w : j = i + 1 => Follows(w[i], w[j])

\* w is cut at the end of broadcast n, and at the start of one.
Ends(w, n) == Len(w) > 0 => w[Len(w)].pos = BroadcastSize /\ w[Len(w)].frame = n
Starts(w) == Len(w) > 0 => w[1].pos = 1

\* w begins with the bytes p + 1 .. p + k of broadcast f.
Run(w, p, k, f) == k <= Len(w) /\ \A i \in 1 .. k : w[i].pos = p + i /\ w[i].frame = f

\* The bytes are of broadcasts that were sent, with their lengths l.
Known(w, l) ==
  \A i \in DOMAIN w : w[i].frame \in DOMAIN l /\ (w[i].pos = 2 => w[i].val = l[w[i].frame])

FramesTypes ==
  /\ split \in BOOLEAN /\ apart \in BOOLEAN
  /\ onWay \in Seq(FrameBytes) /\ sock \in Seq(FrameBytes) /\ reading \in Seq(FrameBytes)
  /\ asSent \in Seq(Nat) /\ queued \in Seq(Messages)
  /\ Len(reading) \in {0, 2}
  /\ Known(onWay, asSent) /\ Known(sock, asSent) /\ Known(reading, asSent)

\* What the network holds is whole broadcasts, but for the first one if TCP splits.
WayInv ==
  /\ Chain(onWay) /\ Ends(onWay, Len(asSent))
  /\ apart \/ ~split => Starts(onWay)

\* While broadcasts come one at a time, the client has read nothing of the one that is
\* there, its header, or all but one byte.
ApartInv ==
  /\ apart => \/ Len(reading) = 0 /\ Len(sock) \in {0, 1}
              \/ Len(reading) = 0 /\ Len(sock) = 6 /\ \E f \in Nat : Run(sock, 0, 6, f)
              \/ Len(reading) = 2 /\ Len(sock) = 4
                 /\ \E f \in Nat : Run(reading, 0, 2, f) /\ Run(sock, 2, 4, f)
  /\ \A i \in DOMAIN queued : queued[i].apart =>
       /\ IsStart(queued[i].bytes) /\ queued[i].bytes[1].frame \in DOMAIN asSent
       /\ asSent[queued[i].bytes[1].frame] <= 1

\* While all lengths fit and nothing is split, the client is in step.
Stream == sock \o onWay
Fits == ~split /\ Range(asSent) \subseteq {1}
InStep ==
  /\ Chain(Stream) /\ Ends(Stream, Len(asSent))
  /\ Len(sock) > 0 => sock[Len(sock)].pos = BroadcastSize
  /\ Len(Stream) > 0 => /\ Stream[1].frame = Len(queued) + 1
                        /\ Stream[1].pos = IF Len(reading) = 0 THEN 1 ELSE 3
  /\ Len(reading) # 0 => Len(sock) > 0 /\ Run(reading, 0, 2, Len(queued) + 1)
  /\ Len(queued) <= Len(asSent)
  /\ \A n \in DOMAIN asSent : n <= Len(queued) \/ \E i \in DOMAIN Stream : Stream[i].frame = n
  /\ \A i \in DOMAIN queued : IsStart(queued[i].bytes) /\ queued[i].bytes[1].frame = i

FramesInv == FramesTypes /\ WayInv /\ ApartInv /\ (Fits => InStep)

\* Parts of a chain are chains.
LEMMA ChainParts ==
  ASSUME NEW w, NEW p, NEW q, NEW m, NEW e, Parts(w, p, q, m, e), Chain(w)
  PROVE  /\ Chain(p) /\ Chain(q)
         /\ m > 0 /\ e > 0 => Follows(p[m], q[1])
<1>1. /\ m \in Nat /\ e \in Nat /\ DOMAIN w = 1 .. (m + e) /\ DOMAIN p = 1 .. m
      /\ DOMAIN q = 1 .. e
      /\ \A i \in 1 .. m : w[i] = p[i] /\ i \in DOMAIN w
      /\ \A i \in 1 .. e : w[m + i] = q[i] /\ m + i \in DOMAIN w
  BY DEF Parts
<1>2. ASSUME NEW i \in 1 .. m, NEW j \in 1 .. m, j = i + 1 PROVE Follows(p[i], p[j])
  <2>1. Follows(w[i], w[j])
    BY <1>1, <1>2 DEF Chain
  <2> QED
    BY <1>1, <2>1
<1>3. ASSUME NEW i \in 1 .. e, NEW j \in 1 .. e, j = i + 1 PROVE Follows(q[i], q[j])
  <2>1. m + j = (m + i) + 1
    BY <1>1, <1>3
  <2>2. Follows(w[m + i], w[m + j])
    BY <1>1, <2>1 DEF Chain
  <2> QED
    BY <1>1, <2>2
<1>4. ASSUME m > 0, e > 0 PROVE Follows(p[m], q[1])
  <2>1. m \in 1 .. m /\ 1 \in 1 .. e
    BY <1>1, <1>4
  <2>2. Follows(w[m], w[m + 1])
    BY <1>1, <2>1 DEF Chain
  <2> QED
    BY <1>1, <2>1, <2>2
<1> QED
  BY <1>1, <1>2, <1>3, <1>4 DEF Chain

\* Two chains that fit together are one.
LEMMA ChainJoins ==
  ASSUME NEW w, NEW p, NEW q, NEW m, NEW e, Parts(w, p, q, m, e), Chain(p), Chain(q),
         m > 0 /\ e > 0 => Follows(p[m], q[1])
  PROVE  Chain(w)
<1>1. /\ m \in Nat /\ e \in Nat /\ DOMAIN w = 1 .. (m + e) /\ DOMAIN p = 1 .. m
      /\ DOMAIN q = 1 .. e
      /\ \A i \in 1 .. m : w[i] = p[i]
      /\ \A i \in 1 .. e : w[m + i] = q[i]
  BY DEF Parts
<1>2. ASSUME NEW i \in 1 .. (m + e), NEW j \in 1 .. (m + e), j = i + 1
      PROVE  Follows(w[i], w[j])
  <2>1. CASE j <= m
    <3>1. i \in 1 .. m /\ j \in 1 .. m
      BY <1>1, <1>2, <2>1
    <3> QED
      BY <1>1, <1>2, <3>1 DEF Chain
  <2>2. CASE i = m
    <3>1. m \in 1 .. m /\ 1 \in 1 .. e /\ m > 0 /\ e > 0 /\ j = m + 1
      BY <1>1, <1>2, <2>2
    <3> QED
      BY <1>1, <2>2, <3>1
  <2>3. CASE i > m
    <3>1. PICK k \in 1 .. e : i = m + k
      <4>1. i - m \in 1 .. e /\ i = m + (i - m)
        BY <1>1, <2>3
      <4> QED
        BY <4>1
    <3>2. k + 1 \in 1 .. e /\ j = m + (k + 1)
      BY <1>1, <1>2, <3>1
    <3>3. Follows(q[k], q[k + 1])
      BY <1>1, <3>2 DEF Chain
    <3>4. w[i] = q[k] /\ w[j] = q[k + 1]
      BY <1>1, <3>1, <3>2
    <3> QED
      BY <3>3, <3>4
  <2> QED
    BY <1>1, <1>2, <2>1, <2>2, <2>3
<1> QED
  BY <1>1, <1>2 DEF Chain

\* What is known of two sequences is known of both together.
LEMMA KnownParts ==
  ASSUME NEW w, NEW p, NEW q, NEW m, NEW e, Parts(w, p, q, m, e), NEW l
  PROVE  Known(w, l) <=> Known(p, l) /\ Known(q, l)
<1>1. /\ m \in Nat /\ e \in Nat /\ DOMAIN w = 1 .. (m + e) /\ DOMAIN p = 1 .. m
      /\ DOMAIN q = 1 .. e
      /\ \A i \in 1 .. m : w[i] = p[i] /\ i \in DOMAIN w
      /\ \A i \in 1 .. e : w[m + i] = q[i] /\ m + i \in DOMAIN w
  BY DEF Parts
<1>2. \A i \in DOMAIN w : i \in 1 .. m \/ \E j \in 1 .. e : i = m + j
  <2>1. ASSUME NEW i \in DOMAIN w, i \notin 1 .. m PROVE i - m \in 1 .. e /\ i = m + (i - m)
    BY <1>1, <2>1
  <2> QED
    BY <2>1
<1>3. ASSUME Known(w, l) PROVE Known(p, l) /\ Known(q, l)
  <2>1. \A i \in 1 .. m : p[i].frame \in DOMAIN l /\ (p[i].pos = 2 => p[i].val = l[p[i].frame])
    BY <1>1, <1>3 DEF Known
  <2>2. ASSUME NEW i \in 1 .. e
        PROVE  q[i].frame \in DOMAIN l /\ (q[i].pos = 2 => q[i].val = l[q[i].frame])
    <3>1. PICK j \in DOMAIN w : w[j] = q[i]
      BY <1>1
    <3> QED
      BY <1>3, <3>1 DEF Known
  <2> QED
    BY <1>1, <2>1, <2>2 DEF Known
<1>4. ASSUME Known(p, l), Known(q, l), NEW i \in DOMAIN w
      PROVE  w[i].frame \in DOMAIN l /\ (w[i].pos = 2 => w[i].val = l[w[i].frame])
  <2>1. CASE i \in 1 .. m
    BY <1>1, <1>4, <2>1 DEF Known
  <2>2. CASE \E j \in 1 .. e : i = m + j
    <3>1. PICK j \in 1 .. e : i = m + j
      BY <2>2
    <3>2. w[i] = q[j] /\ j \in DOMAIN q
      BY <1>1, <3>1
    <3> QED
      BY <1>4, <3>2 DEF Known
  <2> QED
    BY <1>2, <2>1, <2>2
<1> QED
  BY <1>3, <1>4 DEF Known

\* A chain that starts in a broadcast and ends with one goes on to the broadcast's end.
LEMMA RunsOn ==
  ASSUME NEW w \in Seq(FrameBytes), Chain(w), Len(w) > 0, w[Len(w)].pos = BroadcastSize,
         NEW p \in {0, 2}, w[1].pos = p + 1
  PROVE  Run(w, p, 6 - p, w[1].frame) /\ w[1].frame \in Nat
<1>1. PICK l : l = Len(w)
  OBVIOUS
<1>2. /\ l \in Nat /\ l > 0 /\ DOMAIN w = 1 .. l /\ 1 \in 1 .. l
      /\ \A i \in 1 .. l : w[i] \in FrameBytes
  BY <1>1, LenProperties, ElementOfSeq
<1>3. PICK f \in Nat : f = w[1].frame
  BY <1>2 DEF FrameBytes
<1> DEFINE At(i) == i \in 1 .. l /\ w[i].pos = p + i /\ w[i].frame = f
<1>4. ASSUME NEW i \in 1 .. 5, p + i < 6, At(i) PROVE At(i + 1)
  <2>1. i # l
    BY <1>1, <1>4 DEF BroadcastSize
  <2>2. i + 1 \in 1 .. l
    BY <1>2, <1>4, <2>1
  <2>3. Follows(w[i], w[i + 1])
    BY <1>2, <1>4, <2>2 DEF Chain
  <2>4. w[i + 1].pos = w[i].pos + 1 /\ w[i + 1].frame = w[i].frame
    BY <1>4, <2>3 DEF Follows, BroadcastSize
  <2> QED
    BY <1>4, <2>2, <2>4
<1>5. At(1)
  BY <1>2, <1>3
<1> HIDE DEF At
<1>6. At(2) /\ At(3) /\ At(4)
  <2>1. At(2)
    BY <1>4, <1>5
  <2>2. At(3)
    BY <1>4, <2>1
  <2> QED
    BY <1>4, <2>1, <2>2
<1>7. p = 0 => At(5) /\ At(6)
  <2>1. p = 0 => At(5)
    BY <1>4, <1>6
  <2> QED
    BY <1>4, <2>1
<1>8. \A i \in 1 .. 6 - p : At(i)
  <2>1. \A i \in 1 .. 6 : i = 1 \/ i = 2 \/ i = 3 \/ i = 4 \/ i = 5 \/ i = 6
    OBVIOUS
  <2>2. p = 2 => \A i \in 1 .. 6 - p : i = 1 \/ i = 2 \/ i = 3 \/ i = 4
    OBVIOUS
  <2>3. p = 0 => \A i \in 1 .. 6 - p : i \in 1 .. 6
    OBVIOUS
  <2> QED
    BY <1>5, <1>6, <1>7, <2>1, <2>2, <2>3
<1>9. 6 - p \in 1 .. 6 - p /\ 6 - p \in Nat
  OBVIOUS
<1>10. 6 - p <= l /\ \A i \in 1 .. 6 - p : w[i].pos = p + i /\ w[i].frame = f
  BY <1>2, <1>8, <1>9 DEF At
<1> QED
  BY <1>1, <1>3, <1>10, Zenon DEF Run

\* a, c and d may be joined in either order.
InLine(a, c, d) == (a \o c) \o d = a \o (c \o d)

\* Sequences of bytes can be joined in either order.
LEMMA ThreeJoined ==
  ASSUME NEW a \in Seq(FrameBytes), NEW c \in Seq(FrameBytes), NEW d \in Seq(FrameBytes)
  PROVE  InLine(a, c, d)
  BY ConcatAssociative DEF InLine

\* A broadcast.
LEMMA SixOfOne ==
  ASSUME NEW n \in Nat, NEW len \in DataLengths, NEW v \in Contents,
         NEW b, b = Broadcast6(n, len, v)
  PROVE  /\ b \in Seq(FrameBytes) /\ Len(b) = 6 /\ DOMAIN b = 1 .. 6 /\ len \in Nat
         /\ \A i \in 1 .. 6 : b[i].pos = i /\ b[i].frame = n
         /\ b[2].val = len /\ Chain(b) /\ Ends(b, n)
<1>1. len \in Nat /\ v \in Nat /\ SOF \in Nat
  BY FramesAssumption DEF SOF
<1>2. ASSUME NEW i \in 1 .. 6
      PROVE  b[i].pos = i /\ b[i].frame = n /\ (i = 2 => b[i].val = len) /\ b[i] \in FrameBytes
  <2>1. PICK y \in Nat : y = CASE i = 1 -> SOF [] i = 2 -> len [] OTHER -> v
    BY <1>1
  <2>2. b[i] = [frame |-> n, pos |-> i, val |-> y]
    BY <2>1 DEF Broadcast6, BroadcastSize
  <2>3. i = 2 => y = len
    BY <2>1
  <2> QED
    BY <2>2, <2>3 DEF FrameBytes, BroadcastSize
<1>3. DOMAIN b = 1 .. 6 /\ b \in [1 .. 6 -> FrameBytes]
  BY <1>2 DEF Broadcast6, BroadcastSize
<1>4. b \in Seq(FrameBytes) /\ Len(b) = 6
  <2>1. b \in Seq(FrameBytes)
    BY <1>3, FunctionIsSeq
  <2> QED
    BY <1>3, <2>1, LenProperties
<1>5. Chain(b)
  <2>1. ASSUME NEW i \in 1 .. 6, NEW j \in 1 .. 6, j = i + 1 PROVE Follows(b[i], b[j])
    BY <1>2, <2>1 DEF Follows, BroadcastSize
  <2> QED
    BY <1>3, <2>1 DEF Chain
<1>6. Ends(b, n)
  <2>1. 6 \in 1 .. 6
    OBVIOUS
  <2> QED
    BY <1>2, <1>4, <2>1 DEF Ends, BroadcastSize
<1> QED
  BY <1>1, <1>2, <1>3, <1>4, <1>5, <1>6

\* The next broadcast goes on with what there is.
LEMMA AddsBroadcast ==
  ASSUME NEW w \in Seq(FrameBytes), NEW b \in Seq(FrameBytes), NEW n \in Nat,
         Chain(w), Ends(w, n), Chain(b), Ends(b, n + 1), Len(b) = 6,
         b[1].pos = 1, b[1].frame = n + 1
  PROVE  /\ w \o b \in Seq(FrameBytes) /\ Parts(w \o b, w, b, Len(w), 6)
         /\ Chain(w \o b) /\ Ends(w \o b, n + 1)
<1>1. PICK v \in Seq(FrameBytes) : v = w \o b /\ Parts(v, w, b, Len(w), 6)
  BY PartsAre
<1>2. Len(w) > 0 => Follows(w[Len(w)], b[1])
  BY DEF Ends, Follows, BroadcastSize
<1>3. Chain(v)
  BY <1>1, <1>2, ChainJoins
<1>4. v[Len(v)] = b[6]
  <2>1. 6 \in 1 .. 6 /\ Len(v) = Len(w) + 6 /\ \A i \in 1 .. 6 : v[Len(w) + i] = b[i]
    BY <1>1 DEF Parts
  <2> QED
    BY <2>1
<1>5. Ends(v, n + 1)
  BY <1>4 DEF Ends
<1> QED
  BY <1>1, <1>3, <1>5

\* What is known stays known when one more broadcast is sent.
LEMMA KnownGrows ==
  ASSUME NEW w, NEW l \in Seq(Nat), NEW x \in Nat, Known(w, l)
  PROVE  /\ Known(w, Append(l, x))
         /\ Append(l, x) \in Seq(Nat) /\ Len(Append(l, x)) = Len(l) + 1
         /\ \A i \in DOMAIN l : i \in DOMAIN Append(l, x) /\ Append(l, x)[i] = l[i]
         /\ Append(l, x)[Len(l) + 1] = x /\ Len(l) + 1 \in DOMAIN Append(l, x)
         /\ DOMAIN l = 1 .. Len(l) /\ DOMAIN Append(l, x) = 1 .. (Len(l) + 1)
<1>1. /\ Append(l, x) \in Seq(Nat) /\ Len(Append(l, x)) = Len(l) + 1
      /\ \A i \in 1 .. Len(l) : Append(l, x)[i] = l[i]
      /\ Append(l, x)[Len(l) + 1] = x
  BY AppendProperties
<1>2. PICK g : g = Append(l, x)
  OBVIOUS
<1>3. DOMAIN l = 1 .. Len(l) /\ DOMAIN g = 1 .. (Len(l) + 1) /\ Len(l) \in Nat
  BY <1>1, <1>2, LenProperties
<1>4. \A i \in DOMAIN l : i \in DOMAIN g /\ g[i] = l[i]
  BY <1>1, <1>2, <1>3
<1>5. Known(w, g)
  BY <1>4 DEF Known
<1>6. Len(l) + 1 \in DOMAIN g
  BY <1>3
<1> QED
  BY <1>1, <1>2, <1>3, <1>4, <1>5, <1>6

-----------------------------------------------------------------------------
(* The steps.                                                              *)

\* What is on its way, as sequences.
LEMMA StreamFacts ==
  ASSUME FramesTypes
  PROVE  /\ onWay \in Seq(FrameBytes) /\ sock \in Seq(FrameBytes) /\ reading \in Seq(FrameBytes)
         /\ Stream \in Seq(FrameBytes) /\ Parts(Stream, sock, onWay, Len(sock), Len(onWay))
         /\ Len(sock) \in Nat /\ Len(onWay) \in Nat /\ Len(asSent) \in Nat /\ Len(queued) \in Nat
         /\ DOMAIN asSent = 1 .. Len(asSent) /\ DOMAIN queued = 1 .. Len(queued)
<1>1. /\ onWay \in Seq(FrameBytes) /\ sock \in Seq(FrameBytes) /\ reading \in Seq(FrameBytes)
      /\ asSent \in Seq(Nat) /\ queued \in Seq(Messages)
  BY DEF FramesTypes
<1>2. Stream \in Seq(FrameBytes) /\ Parts(Stream, sock, onWay, Len(sock), Len(onWay))
  BY <1>1, PartsAre DEF Stream
<1> QED
  BY <1>1, <1>2, LenProperties

\* The gateway sends.
LEMMA SendKeeps ==
  ASSUME FramesInv, SendBroadcast
  PROVE  FramesInv'
<1>1. FramesTypes /\ WayInv /\ ApartInv /\ (Fits => InStep)
  BY DEF FramesInv
<1>2. PICK n \in Nat : n = Len(asSent)
  BY <1>1, StreamFacts
<1>3. PICK len \in DataLengths, v \in Contents :
        /\ onWay' = onWay \o Broadcast6(n + 1, len, v) /\ asSent' = Append(asSent, len)
        /\ UNCHANGED <<split, sock, reading, apart, queued>>
  BY <1>2 DEF SendBroadcast
<1>4. PICK b \in Seq(FrameBytes) : b = Broadcast6(n + 1, len, v)
  <2>1. PICK k \in Nat : k = n + 1
    OBVIOUS
  <2>2. PICK c : c = Broadcast6(k, len, v)
    OBVIOUS
  <2>3. c \in Seq(FrameBytes)
    BY <2>2, SixOfOne
  <2> QED
    BY <2>1, <2>2, <2>3
<1>5. /\ b \in Seq(FrameBytes) /\ Len(b) = 6 /\ DOMAIN b = 1 .. 6 /\ len \in Nat
      /\ \A i \in 1 .. 6 : b[i].pos = i /\ b[i].frame = n + 1
      /\ b[2].val = len /\ Chain(b) /\ Ends(b, n + 1)
  BY <1>4, SixOfOne
<1>6. b[1].pos = 1 /\ b[1].frame = n + 1
  BY <1>5
<1>7. PICK l : l = asSent'
  OBVIOUS
<1>8. /\ l \in Seq(Nat) /\ Len(l) = n + 1 /\ DOMAIN l = 1 .. n + 1 /\ DOMAIN asSent = 1 .. n
      /\ \A i \in DOMAIN asSent : i \in DOMAIN l /\ l[i] = asSent[i]
      /\ l[n + 1] = len /\ n + 1 \in DOMAIN l
      /\ Known(onWay, l) /\ Known(sock, l) /\ Known(reading, l)
  <2>1. PICK k \in Seq(Nat) : k = asSent
    BY <1>1 DEF FramesTypes
  <2>2. l = Append(k, len) /\ len \in Nat /\ n = Len(k)
    BY <1>2, <1>3, <1>5, <1>7, <2>1
  <2>3. Known(onWay, k) /\ Known(sock, k) /\ Known(reading, k)
    BY <1>1, <2>1 DEF FramesTypes
  <2>4. Known(onWay, l) /\ Known(sock, l) /\ Known(reading, l)
    BY <2>2, <2>3, KnownGrows
  <2>5. /\ l \in Seq(Nat) /\ Len(l) = Len(k) + 1
        /\ \A i \in DOMAIN k : i \in DOMAIN l /\ l[i] = k[i]
        /\ l[Len(k) + 1] = len /\ Len(k) + 1 \in DOMAIN l
        /\ DOMAIN k = 1 .. Len(k) /\ DOMAIN l = 1 .. (Len(k) + 1)
    BY <2>2, <2>3, KnownGrows
  <2> QED
    BY <2>1, <2>2, <2>4, <2>5
<1>9. PICK w \in Seq(FrameBytes) : w = onWay'
  BY <1>1, <1>3, <1>4, <1>5, PartsAre DEF FramesTypes
<1>10. Parts(w, onWay, b, Len(onWay), 6) /\ Chain(w) /\ Ends(w, n + 1)
  <2>1. Chain(onWay) /\ Ends(onWay, n) /\ onWay \in Seq(FrameBytes)
    BY <1>1, <1>2 DEF WayInv, FramesTypes
  <2> QED
    BY <1>3, <1>4, <1>5, <1>6, <1>9, <2>1, AddsBroadcast
<1>11. Known(w, l)
  <2>1. Known(b, l)
    BY <1>5, <1>8 DEF Known
  <2> QED
    BY <1>8, <1>10, <2>1, KnownParts
<1>12. FramesTypes'
  BY <1>1, <1>3, <1>7, <1>8, <1>9, <1>11 DEF FramesTypes
<1>13. WayInv'
  <2>1. apart \/ ~split => Starts(w)
    <3>1. CASE Len(onWay) > 0
      <4>1. Len(onWay) \in Nat /\ 1 \in 1 .. Len(onWay)
        BY <1>1, <3>1, StreamFacts
      <4>2. w[1] = onWay[1]
        BY <1>10, <4>1 DEF Parts
      <4> QED
        BY <1>1, <3>1, <4>2 DEF WayInv, Starts
    <3>2. CASE ~(Len(onWay) > 0)
      <4>1. Len(onWay) = 0 /\ 1 \in 1 .. 6 /\ 0 + 1 = 1
        BY <1>1, <3>2, StreamFacts
      <4>2. w[1] = b[1]
        BY <1>10, <4>1 DEF Parts
      <4> QED
        BY <1>6, <4>2 DEF Starts
    <3> QED
      BY <3>1, <3>2
  <2>2. Ends(w, Len(l))
    BY <1>8, <1>10
  <2> QED
    BY <1>3, <1>7, <1>9, <1>10, <2>1, <2>2 DEF WayInv
<1>14. ApartInv'
  <2>1. \A i \in DOMAIN queued : queued[i].apart =>
          /\ IsStart(queued[i].bytes) /\ queued[i].bytes[1].frame \in DOMAIN l
          /\ l[queued[i].bytes[1].frame] <= 1
    BY <1>1, <1>8 DEF ApartInv
  <2> QED
    BY <1>1, <1>3, <1>7, <2>1 DEF ApartInv
<1>15. ASSUME Fits' PROVE InStep'
  <2>1. Fits
    BY <1>3, <1>7, <1>8, <1>15 DEF Fits, Range
  <2>2. PICK x \in Seq(FrameBytes) : x = Stream
    BY <1>1, StreamFacts
  <2>3. PICK y : y = Stream'
    OBVIOUS
  <2>4. y = x \o b
    <3>1. PICK p \in Seq(FrameBytes), q \in Seq(FrameBytes) : p = sock /\ q = onWay
      BY <1>1 DEF FramesTypes
    <3>2. InLine(p, q, b)
      BY ThreeJoined
    <3>3. sock' = sock /\ onWay' = q \o b
      BY <1>3, <1>4, <3>1
    <3>4. y = p \o (q \o b)
      BY <2>3, <3>1, <3>3 DEF Stream
    <3> QED
      BY <2>2, <3>1, <3>2, <3>4 DEF Stream, InLine
  <2>5. /\ Chain(x) /\ Ends(x, n)
        /\ Len(sock) > 0 => sock[Len(sock)].pos = BroadcastSize
        /\ Len(x) > 0 => /\ x[1].frame = Len(queued) + 1
                         /\ x[1].pos = IF Len(reading) = 0 THEN 1 ELSE 3
        /\ Len(reading) # 0 => Len(sock) > 0 /\ Run(reading, 0, 2, Len(queued) + 1)
        /\ Len(queued) <= n
        /\ \A k \in DOMAIN asSent : k <= Len(queued) \/ \E i \in DOMAIN x : x[i].frame = k
        /\ \A i \in DOMAIN queued : IsStart(queued[i].bytes) /\ queued[i].bytes[1].frame = i
    BY <1>1, <1>2, <2>1, <2>2 DEF InStep
  <2>6. Parts(y, x, b, Len(x), 6) /\ Chain(y) /\ Ends(y, n + 1)
    BY <1>5, <1>6, <2>4, <2>5, AddsBroadcast
  <2>7. PICK m \in Nat : m = Len(x)
    BY <2>2
  <2>8. /\ Len(y) = m + 6
        /\ \A i \in 1 .. m : y[i] = x[i] /\ i \in DOMAIN y
        /\ \A i \in 1 .. 6 : y[m + i] = b[i] /\ m + i \in DOMAIN y
        /\ DOMAIN x = 1 .. m
    BY <2>6, <2>7, Zenon DEF Parts
  <2>9. /\ y[1].frame = Len(queued) + 1 /\ y[1].pos = IF Len(reading) = 0 THEN 1 ELSE 3
    <3>1. CASE m > 0
      <4>1. 1 \in 1 .. m
        BY <3>1
      <4> QED
        BY <2>5, <2>7, <2>8, <3>1, <4>1
    <3>2. CASE m = 0
      <4>1. y[1] = b[1]
        <5>1. 1 \in 1 .. 6 /\ m + 1 = 1
          BY <3>2
        <5> QED
          BY <2>8, <5>1
      <4>2. Len(reading) = 0
        <5>1. ~(Len(sock) > 0)
          <6>1. Parts(x, sock, onWay, Len(sock), Len(onWay)) /\ Len(sock) \in Nat
                /\ Len(onWay) \in Nat
            BY <1>1, <2>2, StreamFacts
          <6>2. Len(x) = Len(sock) + Len(onWay)
            BY <6>1 DEF Parts
          <6>3. PICK a \in Nat, c \in Nat : a = Len(sock) /\ c = Len(onWay)
            BY <6>1
          <6>4. a + c = 0
            BY <2>7, <3>2, <6>2, <6>3
          <6>5. a = 0
            BY <6>4
          <6> QED
            BY <6>3, <6>5
        <5> QED
          BY <2>5, <5>1
      <4>3. Len(queued) = n
        <5>1. DOMAIN x = {}
          BY <2>8, <3>2
        <5>2. n > 0 => n <= Len(queued)
          <6>1. n > 0 => n \in DOMAIN asSent
            BY <1>8
          <6> QED
            BY <2>5, <5>1, <6>1
        <5>3. Len(queued) \in Nat
          BY <1>1, StreamFacts
        <5> QED
          BY <2>5, <5>2, <5>3
      <4> QED
        BY <1>6, <4>1, <4>2, <4>3
    <3> QED
      BY <3>1, <3>2
  <2>10. Len(queued) <= n + 1
    BY <1>1, <2>5, StreamFacts
  <2>11. ASSUME NEW k \in DOMAIN l PROVE k <= Len(queued) \/ \E i \in DOMAIN y : y[i].frame = k
    <3>1. CASE k \in DOMAIN asSent
      BY <2>5, <2>8, <3>1
    <3>2. CASE k = n + 1
      <4>1. 1 \in 1 .. 6
        OBVIOUS
      <4>2. y[m + 1].frame = n + 1 /\ m + 1 \in DOMAIN y
        BY <1>6, <2>8, <4>1
      <4> QED
        BY <3>2, <4>2
    <3> QED
      BY <1>8, <3>1, <3>2
  <2> QED
    BY <1>3, <1>7, <1>8, <2>3, <2>5, <2>6, <2>9, <2>10, <2>11 DEF InStep
<1> QED
  BY <1>12, <1>13, <1>14, <1>15 DEF FramesInv

\* A step that changes nothing of what the client reads.
LEMMA DeliverKeeps ==
  ASSUME FramesInv, Deliver
  PROVE  FramesInv'
<1>1. FramesTypes /\ WayInv /\ ApartInv /\ (Fits => InStep)
  BY DEF FramesInv
<1>2. /\ onWay \in Seq(FrameBytes) /\ sock \in Seq(FrameBytes) /\ onWay # <<>>
      /\ Len(sock) \in Nat /\ Len(onWay) \in Nat /\ Len(onWay) > 0
  <2>1. onWay \in Seq(FrameBytes) /\ sock \in Seq(FrameBytes) /\ onWay # <<>>
    BY <1>1 DEF FramesTypes, Deliver
  <2> QED
    BY <2>1
<1>3. PICK n \in 1 .. 6 :
        /\ ~split => n = 6
        /\ n <= Len(onWay)
        /\ sock' = sock \o SubSeq(onWay, 1, n)
        /\ onWay' = SubSeq(onWay, n + 1, Len(onWay))
        /\ apart' = (apart /\ n = 6 /\ sock = <<>> /\ reading = <<>>)
        /\ UNCHANGED <<split, reading, asSent, queued>>
  <2>1. PICK n \in IF split THEN 1 .. 6 ELSE {6} :
          /\ n <= Len(onWay)
          /\ sock' = sock \o SubSeq(onWay, 1, n)
          /\ onWay' = SubSeq(onWay, n + 1, Len(onWay))
          /\ apart' = (apart /\ n = 6 /\ sock = <<>> /\ reading = <<>>)
          /\ UNCHANGED <<split, reading, asSent, queued>>
    BY Zenon DEF Deliver, BroadcastSize
  <2>2. n \in 1 .. 6 /\ (~split => n = 6)
    <3>1. CASE split
      BY <2>1, <3>1
    <3>2. CASE ~split
      BY <2>1, <3>2
    <3> QED
      BY <3>1, <3>2
  <2> QED
    BY <2>1, <2>2
<1>4. PICK h, t \in Seq(FrameBytes) :
        /\ h = SubSeq(onWay, 1, n) /\ t = SubSeq(onWay, n + 1, Len(onWay)) /\ onWay = h \o t
        /\ Len(h) = n /\ Len(t) = Len(onWay) - n
  <2>1. PICK o \in Seq(FrameBytes) : o = onWay
    BY <1>2
  <2>2. n \in 0 .. Len(o)
    BY <1>2, <1>3, <2>1
  <2>3. PICK k \in 0 .. Len(o) : k = n
    BY <2>2
  <2>4. \E h, t \in Seq(FrameBytes) : CutAt(o, k, h, t)
    BY CutFacts
  <2> QED
    BY <2>1, <2>3, <2>4 DEF CutAt
<1>5. sock' = sock \o h /\ onWay' = t
  BY <1>3, <1>4
<1>6. PICK e \in Nat : e = Len(t)
  OBVIOUS
<1>7. Parts(onWay, h, t, n, e)
  BY <1>4, <1>6, PartsAre
<1>8. PICK s \in Seq(FrameBytes) : s = sock' /\ Parts(s, sock, h, Len(sock), n)
  BY <1>2, <1>4, <1>5, PartsAre
<1>9. /\ Known(h, asSent) /\ Known(t, asSent) /\ Known(s, asSent)
  <2>1. Known(h, asSent) /\ Known(t, asSent)
    BY <1>1, <1>7, KnownParts DEF FramesTypes
  <2> QED
    BY <1>1, <1>8, <2>1, KnownParts DEF FramesTypes
<1>10. FramesTypes'
  <2>1. apart' \in BOOLEAN
    BY <1>3
  <2> QED
    BY <1>1, <1>3, <1>5, <1>8, <1>9, <2>1 DEF FramesTypes
<1>11. /\ Chain(h) /\ Chain(t)
       /\ e > 0 => Follows(h[n], t[1])
       /\ \A i \in 1 .. n : onWay[i] = h[i]
  <2>1. n > 0 /\ Chain(onWay)
    BY <1>1 DEF WayInv
  <2>2. /\ Chain(h) /\ Chain(t)
        /\ n > 0 /\ e > 0 => Follows(h[n], t[1])
    BY <1>7, <2>1, ChainParts
  <2>3. \A i \in 1 .. n : onWay[i] = h[i]
    BY <1>7 DEF Parts
  <2> QED
    BY <2>1, <2>2, <2>3
<1>12. ASSUME apart' \/ ~split
       PROVE  n = 6 /\ Run(h, 0, 6, onWay[1].frame) /\ onWay[1].frame \in Nat /\ h[6].pos = 6
  <2>1. n = 6 /\ Starts(onWay)
    BY <1>1, <1>3, <1>12 DEF WayInv
  <2>2. onWay[1].pos = 0 + 1 /\ Chain(onWay) /\ onWay[Len(onWay)].pos = BroadcastSize
    BY <1>1, <1>2, <2>1 DEF WayInv, Starts, Ends
  <2>3. Run(onWay, 0, 6 - 0, onWay[1].frame) /\ onWay[1].frame \in Nat
    <3>1. 0 \in {0, 2}
      OBVIOUS
    <3> QED
      BY <1>2, <2>2, <3>1, RunsOn
  <2>4. Run(h, 0, 6, onWay[1].frame)
    BY <1>4, <1>11, <2>1, <2>3 DEF Run
  <2>5. 6 \in 1 .. 6
    OBVIOUS
  <2> QED
    BY <2>1, <2>3, <2>4, <2>5 DEF Run
<1>13. WayInv'
  <2>1. Ends(t, Len(asSent))
    <3>1. ASSUME e > 0 PROVE onWay[Len(onWay)] = t[Len(t)]
      <4>1. e \in 1 .. e /\ Len(onWay) = n + e
        BY <1>6, <1>7, <3>1 DEF Parts
      <4>2. onWay[n + e] = t[e]
        BY <1>7, <4>1 DEF Parts
      <4> QED
        BY <1>6, <4>1, <4>2
    <3>2. onWay[Len(onWay)].pos = BroadcastSize /\ onWay[Len(onWay)].frame = Len(asSent)
      BY <1>1, <1>2 DEF WayInv, Ends
    <3> QED
      BY <1>6, <3>1, <3>2 DEF Ends
  <2>2. ASSUME apart' \/ ~split PROVE Starts(t)
    <3>1. n = 6 /\ h[6].pos = 6
      BY <1>12, <2>2
    <3>2. ASSUME e > 0 PROVE t[1].pos = 1
      <4>1. Follows(h[6], t[1]) /\ ~(h[6].pos < 6)
        BY <1>11, <3>1, <3>2
      <4> QED
        BY <4>1 DEF Follows, BroadcastSize
    <3> QED
      BY <1>6, <3>2 DEF Starts
  <2>3. onWay' = t /\ asSent' = asSent /\ split' = split
    BY <1>3, <1>5
  <2>4. Chain(t)
    BY <1>11
  <2> QED
    BY <2>1, <2>2, <2>3, <2>4 DEF WayInv
<1>14. ApartInv'
  <2>1. ASSUME apart' PROVE Len(reading) = 0 /\ Len(s) = 6 /\ \E f \in Nat : Run(s, 0, 6, f)
    <3>1. sock = <<>> /\ reading = <<>> /\ n = 6
      BY <1>3, <2>1
    <3>2. s = h
      BY <1>4, <1>5, <1>8, <3>1, ConcatEmptySeq
    <3> QED
      BY <1>4, <1>12, <2>1, <3>1, <3>2
  <2> QED
    BY <1>1, <1>3, <1>8, <2>1 DEF ApartInv
<1>15. ASSUME Fits' PROVE InStep'
  <2>1. Fits
    BY <1>3, <1>15 DEF Fits
  <2>2. Stream' = Stream
    <3>1. PICK p \in Seq(FrameBytes) : p = sock
      BY <1>2
    <3>2. InLine(p, h, t)
      BY ThreeJoined
    <3>3. Stream' = (p \o h) \o t
      BY <1>5, <3>1 DEF Stream
    <3> QED
      BY <1>4, <3>1, <3>2, <3>3 DEF Stream, InLine
  <2>3. n = 6 /\ h[6].pos = 6
    BY <1>12, <2>1 DEF Fits
  <2>4. s[Len(s)].pos = BroadcastSize
    <3>1. 6 \in 1 .. 6 /\ Len(s) = Len(sock) + 6 /\ \A i \in 1 .. 6 : s[Len(sock) + i] = h[i]
      BY <1>8, <2>3 DEF Parts
    <3> QED
      BY <2>3, <3>1 DEF BroadcastSize
  <2>5. Len(s) > 0
    BY <1>2, <1>8 DEF Parts
  <2> QED
    BY <1>1, <1>3, <1>8, <2>1, <2>2, <2>4, <2>5 DEF InStep
<1> QED
  BY <1>10, <1>13, <1>14, <1>15 DEF FramesInv

\* h is what recv() takes of up to m bytes, t what stays to be read, y what is still to
\* be read then, on its way or not.
Takes(m, k, h, t, y) ==
  /\ k = Least(m, Len(sock)) /\ CutAt(sock, k, h, t) /\ Parts(sock, h, t, k, Len(t))
  /\ y = t \o onWay /\ Parts(Stream, h, y, k, Len(y))

\* A recv() takes a first part of what waits.
LEMMA RecvTakes ==
  ASSUME FramesTypes, NEW m \in Nat
  PROVE  \E k \in 0 .. Len(sock) : \E h, t, y \in Seq(FrameBytes) :
           /\ Takes(m, k, h, t, y) /\ Drop(m) = t
           /\ Known(h, asSent) /\ Known(t, asSent)
<1>1. PICK s \in Seq(FrameBytes), o \in Seq(FrameBytes) : s = sock /\ o = onWay
  BY DEF FramesTypes
<1>2. PICK k \in 0 .. Len(s) : k = Least(m, Len(s))
  <2>1. Len(s) \in Nat /\ Least(m, Len(s)) \in 0 .. Len(s)
    BY DEF Least
  <2> QED
    BY <2>1
<1>3. PICK h \in Seq(FrameBytes), t \in Seq(FrameBytes) : CutAt(s, k, h, t)
  BY CutFacts
<1>4. s = h \o t /\ Len(h) = k /\ t = SubSeq(s, k + 1, Len(s))
  BY <1>3 DEF CutAt
<1>5. Parts(s, h, t, k, Len(t))
  BY <1>4, PartsAre
<1>6. PICK y \in Seq(FrameBytes) : y = t \o o
  BY PartsAre
<1>7. InLine(h, t, o)
  BY ThreeJoined
<1>8. Stream = h \o y
  BY <1>1, <1>4, <1>6, <1>7 DEF Stream, InLine
<1>9. Parts(Stream, h, y, k, Len(y))
  <2>1. Parts(h \o y, h, y, Len(h), Len(y))
    BY PartsAre
  <2> QED
    BY <1>4, <1>8, <2>1
<1>10. Known(s, asSent)
  BY <1>1 DEF FramesTypes
<1>11. Known(h, asSent) /\ Known(t, asSent)
  BY <1>5, <1>10, KnownParts
<1>12. Drop(m) = t
  BY <1>1, <1>2, <1>4 DEF Drop
<1>13. Takes(m, k, h, t, y)
  BY <1>1, <1>2, <1>3, <1>5, <1>6, <1>9 DEF Takes
<1> QED
  BY <1>1, <1>11, <1>12, <1>13

\* The first k bytes of h are of broadcast f.
AllOf(h, k, f) == \A i \in 1 .. k : h[i].frame = f

\* When h, of broadcast f, is taken, y goes on behind it, up to the last broadcast, and
\* of t to the end of one; and none between those queued and y is left out but f.
GoesOn(k, h, t, y, f) ==
  /\ Chain(y) /\ Ends(y, Len(asSent))
  /\ Len(t) > 0 => t[Len(t)].pos = BroadcastSize
  /\ k > 0 /\ Len(y) > 0 => Follows(h[k], y[1])
  /\ \A n \in DOMAIN asSent :
       n <= Len(queued) \/ n = f \/ \E i \in DOMAIN y : y[i].frame = n

\* What stays in step when bytes of one broadcast are taken.
LEMMA StaysInStep ==
  ASSUME FramesTypes, InStep, NEW m, NEW k \in Nat,
         NEW h \in Seq(FrameBytes), NEW t \in Seq(FrameBytes), NEW y \in Seq(FrameBytes),
         Takes(m, k, h, t, y), NEW f, AllOf(h, k, f)
  PROVE  GoesOn(k, h, t, y, f)
<1>1. Parts(sock, h, t, k, Len(t)) /\ Parts(Stream, h, y, k, Len(y))
  BY DEF Takes
<1>2. PICK x \in Seq(FrameBytes) : x = Stream
  BY StreamFacts
<1>3. Chain(x) /\ Ends(x, Len(asSent)) /\ (Len(sock) > 0 => sock[Len(sock)].pos = BroadcastSize)
  BY <1>2 DEF InStep
<1>4. Parts(x, h, y, k, Len(y))
  BY <1>1, <1>2
<1>5. PICK e \in Nat : e = Len(y)
  OBVIOUS
<1>6. Chain(y) /\ (k > 0 /\ e > 0 => Follows(h[k], y[1]))
  BY <1>3, <1>4, <1>5, ChainParts
<1>7. Ends(y, Len(asSent))
  <2>1. ASSUME e > 0 PROVE x[Len(x)] = y[e] /\ Len(x) > 0
    <3>1. e \in 1 .. e /\ Len(x) = k + e /\ \A i \in 1 .. e : x[k + i] = y[i]
      BY <1>4, <1>5, <2>1 DEF Parts
    <3> QED
      BY <2>1, <3>1
  <2> QED
    BY <1>3, <1>5, <2>1 DEF Ends
<1>8. ASSUME Len(t) > 0 PROVE t[Len(t)].pos = BroadcastSize
  <2>1. PICK g \in Nat : g = Len(t)
    OBVIOUS
  <2>2. g \in 1 .. g /\ Len(sock) = k + g /\ \A i \in 1 .. g : sock[k + i] = t[i]
    BY <1>1, <1>8, <2>1 DEF Parts
  <2>3. Len(sock) > 0 /\ sock[Len(sock)] = t[g]
    BY <1>8, <2>1, <2>2
  <2> QED
    BY <1>3, <2>1, <2>3
<1>9. ASSUME NEW n \in DOMAIN asSent
      PROVE  n <= Len(queued) \/ n = f \/ \E i \in DOMAIN y : y[i].frame = n
  <2>1. n <= Len(queued) \/ \E i \in DOMAIN x : x[i].frame = n
    BY <1>2, <1>9 DEF InStep
  <2>2. ASSUME NEW i \in DOMAIN x, x[i].frame = n
        PROVE  n = f \/ \E j \in DOMAIN y : y[j].frame = n
    <3>1. /\ i \in 1 .. (k + e) /\ DOMAIN y = 1 .. e
          /\ \A j \in 1 .. k : x[j] = h[j]
          /\ \A j \in 1 .. e : x[k + j] = y[j]
      BY <1>4, <1>5, <2>2 DEF Parts
    <3>2. CASE i <= k
      <4>1. i \in 1 .. k
        BY <3>1, <3>2
      <4> QED
        BY <2>2, <3>1, <4>1 DEF AllOf
    <3>3. CASE ~(i <= k)
      <4>1. i - k \in 1 .. e /\ k + (i - k) = i
        BY <3>1, <3>3
      <4>2. PICK j \in 1 .. e : k + j = i
        BY <4>1
      <4> QED
        BY <2>2, <3>1, <4>2
    <3> QED
      BY <3>2, <3>3
  <2> QED
    BY <2>1, <2>2
<1> QED
  BY <1>5, <1>6, <1>7, <1>8, <1>9 DEF GoesOn

\* recv() takes nothing of what is on its way.
LEMMA RecvKeepsWay ==
  ASSUME FramesTypes, WayInv, UNCHANGED <<split, onWay, asSent>>,
         apart' => apart \/ onWay = <<>>
  PROVE  WayInv'
<1>1. Len(onWay) \in Nat /\ (onWay = <<>> => ~(Len(onWay) > 0))
  BY StreamFacts
<1>2. apart' \/ ~split => Starts(onWay)
  BY <1>1 DEF WayInv, Starts
<1> QED
  BY <1>2 DEF WayInv

\* The reader takes a header, or a byte that is none.
LEMMA RecvHeaderKeeps ==
  ASSUME FramesInv, RecvHeader
  PROVE  FramesInv'
<1>1. FramesTypes /\ WayInv /\ ApartInv /\ (Fits => InStep)
  BY DEF FramesInv
<1>2. PICK k \in 0 .. Len(sock) : \E h, t, y \in Seq(FrameBytes) :
        /\ Takes(2, k, h, t, y) /\ Drop(2) = t
        /\ Known(h, asSent) /\ Known(t, asSent)
  BY <1>1, RecvTakes
<1>3. PICK h \in Seq(FrameBytes), t \in Seq(FrameBytes), y \in Seq(FrameBytes) :
        /\ Takes(2, k, h, t, y) /\ Drop(2) = t
        /\ Known(h, asSent) /\ Known(t, asSent)
  BY <1>2
<1>4. /\ reading = <<>> /\ Len(reading) = 0 /\ sock' = t
      /\ reading' = (IF Len(sock) = 1 THEN <<>> ELSE SubSeq(sock, 1, 2))
      /\ apart' = (apart \/ CaughtUp)
      /\ UNCHANGED <<split, onWay, asSent, queued>>
  BY <1>3 DEF RecvHeader, HeaderSize
<1>5. PICK l \in Nat : l = Len(sock) /\ l > 0
  <2>1. sock \in Seq(FrameBytes) /\ sock # <<>>
    BY <1>1 DEF FramesTypes, RecvHeader
  <2> QED
    BY <2>1
<1>6. /\ k = Least(2, l) /\ h = SubSeq(sock, 1, k) /\ Len(h) = k /\ Len(t) = l - k
      /\ \A i \in 1 .. k : sock[i] = h[i]
      /\ \A i \in 1 .. l - k : sock[k + i] = t[i]
  BY <1>3, <1>5 DEF Takes, CutAt, Parts
<1>7. \/ l = 1 /\ k = 1 /\ reading' = <<>> /\ Len(t) = 0
      \/ l > 1 /\ k = 2 /\ reading' = h /\ Len(t) = l - 2
  <2>1. l = 1 \/ l > 1
    BY <1>5
  <2>2. CASE l = 1
    BY <1>4, <1>5, <1>6, <2>2 DEF Least
  <2>3. CASE l > 1
    <3>1. k = 2
      BY <1>5, <1>6, <2>3 DEF Least
    <3>2. reading' = SubSeq(sock, 1, 2)
      <4>1. l # 1
        BY <2>3
      <4>2. ~(Len(sock) = 1)
        BY <1>5, <4>1, Zenon
      <4> QED
        BY <1>4, <4>2, Zenon
    <3> QED
      BY <1>6, <2>3, <3>1, <3>2
  <2> QED
    BY <2>1, <2>2, <2>3
<1>8. PICK r \in Seq(FrameBytes) : r = reading' /\ Known(r, asSent) /\ Len(r) \in {0, 2}
  <2>1. Known(<<>>, asSent) /\ <<>> \in Seq(FrameBytes) /\ Len(<<>>) = 0
    BY DEF Known
  <2> QED
    BY <1>3, <1>6, <1>7, <2>1
<1>9. FramesTypes'
  BY <1>1, <1>3, <1>4, <1>8 DEF FramesTypes
<1>10. WayInv'
  BY <1>1, <1>4, RecvKeepsWay DEF CaughtUp
<1>11. ApartInv'
  <2>1. ASSUME apart
        PROVE  \/ Len(r) = 0 /\ Len(t) = 0
               \/ Len(r) = 2 /\ Len(t) = 4 /\ \E f \in Nat : Run(r, 0, 2, f) /\ Run(t, 2, 4, f)
    <3>1. CASE l = 1
      BY <1>7, <1>8, <3>1
    <3>2. CASE l = 6 /\ \E f \in Nat : Run(sock, 0, 6, f)
      <4>1. PICK f \in Nat : Run(sock, 0, 6, f)
        BY <3>2
      <4>2. k = 2 /\ r = h /\ Len(h) = 2 /\ Len(t) = 4
        BY <1>6, <1>7, <1>8, <3>2
      <4>3. \A i \in 1 .. 6 : sock[i].pos = 0 + i /\ sock[i].frame = f
        BY <4>1 DEF Run
      <4>4. Run(r, 0, 2, f)
        <5>1. ASSUME NEW i \in 1 .. 2 PROVE r[i].pos = 0 + i /\ r[i].frame = f
          <6>1. i \in 1 .. 6 /\ i \in 1 .. k
            BY <4>2
          <6>2. r[i] = sock[i]
            BY <1>6, <4>2, <6>1
          <6> QED
            BY <4>3, <6>1, <6>2
        <5> QED
          BY <4>2, <5>1 DEF Run
      <4>5. Run(t, 2, 4, f)
        <5>1. ASSUME NEW i \in 1 .. 4 PROVE t[i].pos = 2 + i /\ t[i].frame = f
          <6>1. l - k = 4 /\ 2 + i \in 1 .. 6
            BY <3>2, <4>2
          <6>2. t[i] = sock[2 + i]
            BY <1>6, <4>2, <6>1
          <6>3. sock[2 + i].pos = 0 + (2 + i) /\ sock[2 + i].frame = f
            BY <4>3, <6>1
          <6> QED
            BY <6>2, <6>3
        <5> QED
          BY <4>2, <5>1 DEF Run
      <4> QED
        BY <4>2, <4>4, <4>5
    <3> QED
      BY <1>1, <1>4, <1>5, <2>1, <3>1, <3>2 DEF ApartInv
  <2>2. CaughtUp => Len(r) = 0 /\ Len(t) = 0
    BY <1>4, <1>8 DEF CaughtUp
  <2>3. apart' => \/ Len(r) = 0 /\ Len(t) \in {0, 1}
                  \/ Len(r) = 2 /\ Len(t) = 4
                     /\ \E f \in Nat : Run(r, 0, 2, f) /\ Run(t, 2, 4, f)
    BY <1>4, <2>1, <2>2
  <2>4. /\ r = reading' /\ t = sock' /\ queued' = queued /\ asSent' = asSent
    BY <1>4, <1>8
  <2> QED
    BY <1>1, <2>3, <2>4 DEF ApartInv
<1>12. ASSUME Fits' PROVE InStep'
  <2>1. Fits /\ InStep
    BY <1>1, <1>4, <1>12 DEF Fits
  <2>2. PICK x \in Seq(FrameBytes) : x = Stream
    BY <1>1, StreamFacts
  <2>3. PICK f \in Nat : f = Len(queued) + 1
    BY <1>1, StreamFacts
  <2>4. Parts(x, sock, onWay, l, Len(onWay)) /\ Chain(x)
    BY <1>1, <1>5, <2>1, <2>2, StreamFacts DEF InStep
  <2>5. Chain(sock) /\ sock \in Seq(FrameBytes) /\ sock[Len(sock)].pos = BroadcastSize
    BY <1>1, <1>5, <2>1, <2>4, ChainParts DEF InStep, FramesTypes
  <2>6. sock[1].pos = 1 /\ sock[1].frame = f
    <3>1. 1 \in 1 .. l /\ Len(x) = l + Len(onWay) /\ x[1] = sock[1]
      BY <1>5, <2>4 DEF Parts
    <3>2. Len(x) > 0
      BY <1>1, <1>5, <3>1, StreamFacts
    <3> QED
      BY <1>4, <2>1, <2>2, <2>3, <3>1, <3>2 DEF InStep
  <2>7. Run(sock, 0, 6, f)
    <3>1. 0 \in {0, 2} /\ sock[1].pos = 0 + 1 /\ 6 - 0 = 6
      BY <2>6
    <3>2. Run(sock, 0, 6 - 0, sock[1].frame)
      BY <1>5, <2>5, <3>1, RunsOn
    <3> QED
      BY <2>6, <3>1, <3>2
  <2>8. 6 <= l /\ \A i \in 1 .. 6 : sock[i].pos = i /\ sock[i].frame = f
    BY <1>5, <2>7 DEF Run
  <2>9. k = 2 /\ r = h /\ Len(t) = l - 2 /\ Len(t) > 0
    BY <1>7, <1>8, <2>8
  <2>10. \A i \in 1 .. 2 : h[i].pos = i /\ h[i].frame = f
    <3>1. \A i \in 1 .. 2 : i \in 1 .. 6
      OBVIOUS
    <3> QED
      BY <1>6, <2>8, <2>9, <3>1
  <2>11. Run(r, 0, 2, f)
    BY <1>6, <2>9, <2>10 DEF Run
  <2>12. /\ Chain(y) /\ Ends(y, Len(asSent))
         /\ Len(t) > 0 => t[Len(t)].pos = BroadcastSize
         /\ k > 0 /\ Len(y) > 0 => Follows(h[k], y[1])
         /\ \A n \in DOMAIN asSent :
              n <= Len(queued) \/ n = f \/ \E i \in DOMAIN y : y[i].frame = n
    <3>1. k \in Nat /\ AllOf(h, k, f)
      BY <2>9, <2>10 DEF AllOf
    <3>2. GoesOn(k, h, t, y, f)
      BY <1>1, <1>3, <2>1, <3>1, StaysInStep
    <3> QED
      BY <3>2 DEF GoesOn
  <2>13. Len(y) > 0 /\ 1 \in DOMAIN y
    <3>1. y = t \o onWay /\ onWay \in Seq(FrameBytes)
      BY <1>1, <1>3 DEF Takes, FramesTypes
    <3> QED
      BY <2>9, <3>1
  <2>14. y[1].pos = 3 /\ y[1].frame = f
    <3>1. Follows(h[2], y[1]) /\ h[2].pos = 2 /\ h[2].frame = f
      BY <2>9, <2>10, <2>12, <2>13
    <3> QED
      BY <3>1 DEF Follows, BroadcastSize
  <2>15. \A n \in DOMAIN asSent : n <= Len(queued) \/ \E i \in DOMAIN y : y[i].frame = n
    BY <2>12, <2>13, <2>14
  <2>16. y = Stream' /\ t = sock' /\ r = reading'
    BY <1>3, <1>4, <1>8 DEF Takes, Stream
  <2> QED
    BY <1>4, <2>1, <2>3, <2>9, <2>11, <2>12, <2>14, <2>15, <2>16 DEF InStep
<1> QED
  BY <1>9, <1>10, <1>11, <1>12 DEF FramesInv

\* v is a header r, and behind it the rest of broadcast f.
Begins(f, r, s, v) ==
  /\ f \in Nat /\ r \in Seq(FrameBytes) /\ s \in Seq(FrameBytes) /\ v = r \o s
  /\ Len(r) = 2 /\ Run(r, 0, 2, f) /\ Run(s, 2, 4, f)

\* b is the message taken from v, of up to one byte of data, and t the rest.
TakenFrom(v, n, b, t) ==
  n \in {2, 3} /\ b \in Seq(FrameBytes) /\ t \in Seq(FrameBytes) /\ CutAt(v, n, b, t)

\* The first three bytes of a broadcast, or two, read in two parts, are its start.
LEMMA MessageIsStart ==
  ASSUME NEW f, NEW r, NEW s, NEW v, Begins(f, r, s, v), NEW n, NEW b, NEW t,
         TakenFrom(v, n, b, t)
  PROVE  IsStart(b) /\ b[1].frame = f
<1>0. /\ f \in Nat /\ r \in Seq(FrameBytes) /\ s \in Seq(FrameBytes) /\ v = r \o s
      /\ Len(r) = 2 /\ Run(r, 0, 2, f) /\ Run(s, 2, 4, f)
      /\ n \in {2, 3} /\ b \in Seq(FrameBytes) /\ t \in Seq(FrameBytes) /\ CutAt(v, n, b, t)
  BY DEF Begins, TakenFrom
<1>1. Parts(v, r, s, 2, Len(s))
  BY <1>0, PartsAre
<1>2. v = b \o t /\ Len(b) = n
  BY <1>0 DEF CutAt
<1>3. Parts(v, b, t, n, Len(t))
  BY <1>0, <1>2, PartsAre
<1>4. DOMAIN b = 1 .. n /\ \A i \in 1 .. n : v[i] = b[i]
  BY <1>3 DEF Parts
<1>5. v[1] = r[1] /\ v[2] = r[2]
  <2>1. 1 \in 1 .. 2 /\ 2 \in 1 .. 2
    OBVIOUS
  <2> QED
    BY <1>1, <2>1 DEF Parts
<1>6. v[3] = s[1]
  <2>1. 1 \in 1 .. Len(s) /\ 2 + 1 = 3
    BY <1>0 DEF Run
  <2> QED
    BY <1>1, <2>1 DEF Parts
<1>7. r[1].pos = 1 /\ r[1].frame = f /\ r[2].pos = 2 /\ r[2].frame = f
  <2>1. 1 \in 1 .. 2 /\ 2 \in 1 .. 2 /\ 0 + 1 = 1 /\ 0 + 2 = 2
    OBVIOUS
  <2> QED
    BY <1>0, <2>1 DEF Run
<1>8. s[1].pos = 3 /\ s[1].frame = f
  <2>1. 1 \in 1 .. 4 /\ 2 + 1 = 3
    OBVIOUS
  <2> QED
    BY <1>0, <2>1 DEF Run
<1>9. ASSUME NEW i \in 1 .. n PROVE b[i].pos = i /\ b[i].frame = f
  <2>1. i = 1 \/ i = 2 \/ i = 3
    BY <1>0, <1>9
  <2> QED
    BY <1>4, <1>5, <1>6, <1>7, <1>8, <1>9, <2>1
<1>10. 1 \in 1 .. n
  BY <1>0
<1> QED
  BY <1>4, <1>9, <1>10 DEF IsStart

\* The queue with one more message.
LEMMA QueueGrows ==
  ASSUME NEW q \in Seq(Messages), NEW z \in Messages, NEW g, g = Append(q, z)
  PROVE  /\ g \in Seq(Messages) /\ Len(g) = Len(q) + 1
         /\ DOMAIN g = 1 .. (Len(q) + 1) /\ DOMAIN q = 1 .. Len(q) /\ Len(q) \in Nat
         /\ \A i \in 1 .. Len(q) : g[i] = q[i]
         /\ g[Len(q) + 1] = z
  BY AppendProperties, LenProperties

\* The reader takes what the header asks for, or what there is.
LEMMA RecvBodyKeeps ==
  ASSUME FramesInv, RecvBody
  PROVE  FramesInv'
<1>1. FramesTypes /\ WayInv /\ ApartInv /\ (Fits => InStep)
  BY DEF FramesInv
<1>2. PICK l \in Nat : l = Len(sock) /\ l > 0
  <2>1. sock \in Seq(FrameBytes) /\ sock # <<>>
    BY <1>1 DEF FramesTypes, RecvBody
  <2> QED
    BY <2>1
<1>3. Len(reading) = 2 /\ reading \in Seq(FrameBytes)
  <2>1. reading \in Seq(FrameBytes) /\ reading # <<>> /\ Len(reading) \in {0, 2}
    BY <1>1 DEF FramesTypes, RecvBody
  <2> QED
    BY <2>1
<1>4. PICK len \in Nat : len = reading[2].val
  <2>1. reading[2] \in FrameBytes
    BY <1>3, ElementOfSeq
  <2> QED
    BY <2>1 DEF FrameBytes
<1>5. PICK size \in Nat : size = len + 3
  OBVIOUS
<1>6. PICK k \in 0 .. Len(sock), h \in Seq(FrameBytes), t \in Seq(FrameBytes),
           y \in Seq(FrameBytes) :
        /\ Takes(size, k, h, t, y) /\ Drop(size) = t
        /\ Known(h, asSent) /\ Known(t, asSent)
  BY <1>1, RecvTakes
<1>7. /\ reading' = <<>> /\ Len(reading') = 0 /\ sock' = t
      /\ queued' = (IF l < len + 3 THEN queued
                    ELSE Append(queued, [bytes |-> SubSeq(reading \o sock, 1, len + 2),
                                         apart |-> apart]))
      /\ apart' = (apart \/ CaughtUp)
      /\ UNCHANGED <<split, onWay, asSent>>
  BY <1>2, <1>4, <1>5, <1>6 DEF RecvBody, HeaderSize, BodySize
<1>8. /\ k = Least(len + 3, l) /\ Len(h) = k /\ Len(t) = l - k
      /\ \A i \in 1 .. k : sock[i] = h[i]
      /\ \A i \in 1 .. l - k : sock[k + i] = t[i]
  BY <1>2, <1>5, <1>6 DEF Takes, CutAt, Parts
<1>9. PICK v \in Seq(FrameBytes) : v = reading \o sock /\ Len(v) = l + 2
  <2>1. PICK r \in Seq(FrameBytes), s \in Seq(FrameBytes) : r = reading /\ s = sock
    BY <1>1 DEF FramesTypes
  <2>2. PICK w \in Seq(FrameBytes) : w = r \o s /\ Len(w) = Len(r) + Len(s)
    BY ConcatProperties
  <2>3. Len(r) = 2 /\ Len(s) = l
    BY <1>2, <1>3, <2>1, Zenon
  <2>4. Len(w) = l + 2
    BY <2>2, <2>3
  <2>5. w = reading \o sock
    BY <2>1, <2>2, Zenon
  <2> QED
    BY <2>4, <2>5
<1>10. PICK b \in Seq(FrameBytes), u \in Seq(FrameBytes) :
         ~(l < len + 3) => CutAt(v, len + 2, b, u)
  <2>1. CASE l < len + 3
    <3>1. <<>> \in Seq(FrameBytes)
      OBVIOUS
    <3> QED
      BY <2>1, <3>1
  <2>2. CASE ~(l < len + 3)
    <3>1. len + 2 \in 0 .. Len(v)
      BY <1>9, <2>2
    <3>2. PICK m \in 0 .. Len(v) : m = len + 2
      BY <3>1
    <3>3. \E p, q \in Seq(FrameBytes) : CutAt(v, m, p, q)
      BY CutFacts
    <3> QED
      BY <2>2, <3>2, <3>3
  <2> QED
    BY <2>1, <2>2
<1>11. PICK z \in Messages : z = [bytes |-> b, apart |-> apart]
  BY <1>1 DEF FramesTypes, Messages
<1>12. /\ l < len + 3 => queued' = queued
       /\ ~(l < len + 3) => queued' = Append(queued, z)
  <2>1. ~(l < len + 3) => b = SubSeq(reading \o sock, 1, len + 2)
    BY <1>9, <1>10 DEF CutAt
  <2> QED
    BY <1>7, <1>11, <2>1
<1>13. PICK q \in Seq(Messages) : q = queued
  BY <1>1 DEF FramesTypes
<1>14. FramesTypes'
  <2>1. queued' \in Seq(Messages)
    BY <1>12, <1>13, QueueGrows
  <2>2. Known(<<>>, asSent) /\ <<>> \in Seq(FrameBytes) /\ Len(<<>>) = 0
    BY DEF Known
  <2>3. apart' \in BOOLEAN
    BY <1>7
  <2> QED
    BY <1>1, <1>6, <1>7, <2>1, <2>2, <2>3 DEF FramesTypes
<1>15. WayInv'
  BY <1>1, <1>7, RecvKeepsWay DEF CaughtUp
\* Of broadcasts that come one at a time the header was read,
<1>16. ASSUME apart PROVE \E f \in Nat : l = 4 /\ Run(reading, 0, 2, f) /\ Run(sock, 2, 4, f)
  <2>1. ~(Len(reading) = 0)
    BY <1>3
  <2>2. Len(sock) = 4 /\ \E f \in Nat : Run(reading, 0, 2, f) /\ Run(sock, 2, 4, f)
    BY <1>1, <1>16, <2>1, Zenon DEF ApartInv
  <2> QED
    BY <1>2, <2>2
\* a header that is the start of a broadcast tells that broadcast's length
<1>17. ASSUME NEW f \in Nat, Run(reading, 0, 2, f)
       PROVE  f \in DOMAIN asSent /\ len = asSent[f]
  <2>1. 2 \in 1 .. 2 /\ 2 \in DOMAIN reading
    BY <1>3
  <2>2. reading[2].pos = 2 /\ reading[2].frame = f
    BY <1>17, <2>1 DEF Run
  <2> QED
    BY <1>1, <1>4, <2>1, <2>2 DEF FramesTypes, Known
\* and up to one byte of data it is queued.
<1>18. ASSUME NEW f \in Nat, Run(reading, 0, 2, f), Run(sock, 2, 4, f), ~(l < len + 3), len <= 1
       PROVE  IsStart(b) /\ b[1].frame = f
  <2>1. PICK r \in Seq(FrameBytes), s \in Seq(FrameBytes) : r = reading /\ s = sock
    BY <1>1 DEF FramesTypes
  <2>2. PICK n \in {2, 3} : n = len + 2
    BY <1>18
  <2>3. TakenFrom(v, n, b, u)
    BY <1>10, <1>18, <2>2 DEF TakenFrom
  <2>4. Begins(f, r, s, v)
    BY <1>3, <1>9, <1>18, <2>1 DEF Begins
  <2> QED
    BY <2>3, <2>4, MessageIsStart
<1>19. ApartInv'
  <2>1. ASSUME apart PROVE Len(t) \in {0, 1}
    <3>1. PICK f \in Nat : l = 4 /\ Run(reading, 0, 2, f) /\ Run(sock, 2, 4, f)
      BY <1>16, <2>1
    <3>2. k = Least(len + 3, 4) /\ Len(t) = 4 - k
      BY <1>8, <3>1
    <3>3. k = 3 \/ k = 4
      BY <3>2 DEF Least
    <3> QED
      BY <3>2, <3>3
  <2>2. CaughtUp => Len(t) = 0
    BY <1>7 DEF CaughtUp
  <2>3. apart' => Len(t) \in {0, 1}
    BY <1>7, <2>1, <2>2
  <2>4. ASSUME ~(l < len + 3), apart
        PROVE  IsStart(b) /\ b[1].frame \in DOMAIN asSent /\ asSent[b[1].frame] <= 1
    <3>1. PICK f \in Nat : l = 4 /\ Run(reading, 0, 2, f) /\ Run(sock, 2, 4, f)
      BY <1>16, <2>4
    <3>2. len <= 1
      BY <2>4, <3>1
    <3>3. IsStart(b) /\ b[1].frame = f
      BY <1>18, <2>4, <3>1, <3>2
    <3>4. f \in DOMAIN asSent /\ len = asSent[f]
      BY <1>17, <3>1
    <3> QED
      BY <3>2, <3>3, <3>4
  <2>5. \A i \in DOMAIN q : q[i].apart =>
          /\ IsStart(q[i].bytes) /\ q[i].bytes[1].frame \in DOMAIN asSent
          /\ asSent[q[i].bytes[1].frame] <= 1
    BY <1>1, <1>13 DEF ApartInv
  <2>6. PICK g : g = queued'
    OBVIOUS
  <2>7. ASSUME NEW i \in DOMAIN g, g[i].apart
        PROVE  /\ IsStart(g[i].bytes) /\ g[i].bytes[1].frame \in DOMAIN asSent
               /\ asSent[g[i].bytes[1].frame] <= 1
    <3>1. CASE l < len + 3
      BY <1>12, <1>13, <2>5, <2>6, <2>7, <3>1
    <3>2. CASE ~(l < len + 3)
      <4>1. g = Append(q, z)
        BY <1>12, <1>13, <2>6, <3>2
      <4>2. /\ DOMAIN g = 1 .. (Len(q) + 1) /\ DOMAIN q = 1 .. Len(q) /\ Len(q) \in Nat
            /\ \A j \in 1 .. Len(q) : g[j] = q[j]
            /\ g[Len(q) + 1] = z
        BY <4>1, QueueGrows
      <4>3. (i \in DOMAIN q /\ g[i] = q[i]) \/ g[i] = z
        BY <2>7, <4>2
      <4>4. CASE g[i] = z
        <5>1. g[i].bytes = b /\ apart
          BY <1>11, <2>7, <4>4
        <5> QED
          BY <2>4, <3>2, <5>1
      <4>5. CASE i \in DOMAIN q /\ g[i] = q[i]
        BY <2>5, <2>7, <4>5
      <4> QED
        BY <4>3, <4>4, <4>5
    <3> QED
      BY <3>1, <3>2
  <2>8. sock' = t /\ asSent' = asSent
    BY <1>7
  <2> QED
    BY <1>7, <2>3, <2>6, <2>7, <2>8 DEF ApartInv
<1>20. ASSUME Fits' PROVE InStep'
  <2>1. Fits /\ InStep
    BY <1>1, <1>7, <1>20 DEF Fits
  <2>2. PICK x \in Seq(FrameBytes) : x = Stream
    BY <1>1, StreamFacts
  <2>3. PICK f \in Nat : f = Len(queued) + 1
    BY <1>1, StreamFacts
  <2>4. Parts(x, sock, onWay, l, Len(onWay)) /\ Chain(x)
    BY <1>1, <1>2, <2>1, <2>2, StreamFacts DEF InStep
  <2>5. Chain(sock) /\ sock \in Seq(FrameBytes) /\ sock[Len(sock)].pos = BroadcastSize
    BY <1>1, <1>2, <2>1, <2>4, ChainParts DEF InStep, FramesTypes
  <2>6. sock[1].pos = 3 /\ sock[1].frame = f
    <3>1. 1 \in 1 .. l /\ Len(x) = l + Len(onWay) /\ x[1] = sock[1]
      BY <1>2, <2>4 DEF Parts
    <3>2. Len(x) > 0
      BY <1>1, <1>2, <3>1, StreamFacts
    <3> QED
      BY <1>3, <2>1, <2>2, <2>3, <3>1, <3>2 DEF InStep
  <2>7. Run(sock, 2, 4, f)
    <3>1. 2 \in {0, 2} /\ sock[1].pos = 2 + 1 /\ 6 - 2 = 4
      BY <2>6
    <3>2. Run(sock, 2, 6 - 2, sock[1].frame)
      BY <1>2, <2>5, <3>1, RunsOn
    <3> QED
      BY <2>6, <3>1, <3>2
  <2>8. 4 <= l /\ \A i \in 1 .. 4 : sock[i].pos = 2 + i /\ sock[i].frame = f
    BY <1>2, <2>7 DEF Run
  <2>9. Run(reading, 0, 2, f)
    BY <1>3, <2>1, <2>3 DEF InStep
  <2>10. len = 1 /\ f \in DOMAIN asSent
    <3>1. f \in DOMAIN asSent /\ len = asSent[f]
      BY <1>17, <2>9
    <3>2. asSent[f] \in Range(asSent)
      BY <3>1 DEF Range
    <3> QED
      BY <2>1, <3>1, <3>2 DEF Fits
  <2>11. k = 4 /\ ~(l < len + 3) /\ Len(h) = 4
    BY <1>8, <2>8, <2>10 DEF Least
  <2>12. IsStart(b) /\ b[1].frame = f
    BY <1>18, <2>7, <2>9, <2>10, <2>11
  <2>13. \A i \in 1 .. 4 : h[i].pos = 2 + i /\ h[i].frame = f
    BY <1>8, <2>8, <2>11
  <2>14. GoesOn(k, h, t, y, f)
    <3>1. k \in Nat /\ AllOf(h, k, f)
      BY <2>11, <2>13 DEF AllOf
    <3> QED
      BY <1>1, <1>6, <2>1, <3>1, StaysInStep
  <2>15. Len(y) > 0 => y[1].pos = 1 /\ y[1].frame = f + 1
    <3>1. 4 \in 1 .. 4 /\ 2 + 4 = 6
      OBVIOUS
    <3>2. h[4].pos = 6 /\ h[4].frame = f
      BY <2>13, <3>1
    <3>3. Len(y) > 0 => Follows(h[4], y[1])
      BY <2>11, <2>14 DEF GoesOn
    <3> QED
      BY <3>2, <3>3 DEF Follows, BroadcastSize
  <2>16. PICK g : g = queued'
    OBVIOUS
  <2>17. g = Append(q, z)
    BY <1>12, <1>13, <2>11, <2>16
  <2>18. /\ Len(g) = Len(q) + 1 /\ DOMAIN g = 1 .. (Len(q) + 1) /\ DOMAIN q = 1 .. Len(q)
         /\ Len(q) \in Nat /\ \A j \in 1 .. Len(q) : g[j] = q[j]
         /\ g[Len(q) + 1] = z
    BY <2>17, QueueGrows
  <2>19. Len(g) = f
    BY <1>13, <2>3, <2>18
  <2>20. ASSUME NEW i \in DOMAIN g PROVE IsStart(g[i].bytes) /\ g[i].bytes[1].frame = i
    <3>1. CASE i \in 1 .. Len(q)
      BY <1>13, <2>1, <2>18, <3>1 DEF InStep
    <3>2. CASE i = Len(q) + 1
      <4>1. g[i] = z /\ z.bytes = b /\ i = f
        BY <1>11, <2>18, <2>19, <3>2
      <4> QED
        BY <2>12, <4>1
    <3> QED
      BY <2>18, <3>1, <3>2
  <2>21. ASSUME NEW n \in DOMAIN asSent PROVE n <= f \/ \E i \in DOMAIN y : y[i].frame = n
    <3>1. n \in Nat /\ Len(queued) \in Nat
      BY <1>1, StreamFacts
    <3>2. n <= Len(queued) \/ n = f => n <= f
      BY <2>3, <3>1
    <3>3. n <= Len(queued) \/ n = f \/ \E i \in DOMAIN y : y[i].frame = n
      BY <2>14 DEF GoesOn
    <3> QED
      BY <3>2, <3>3
  <2>22. f <= Len(asSent)
    BY <1>1, <2>10, StreamFacts
  <2>23. y = Stream' /\ t = sock' /\ g = queued'
    BY <1>6, <1>7, <2>16 DEF Takes, Stream
  <2> QED
    BY <1>7, <2>14, <2>15, <2>19, <2>20, <2>21, <2>22, <2>23 DEF InStep, GoesOn
<1> QED
  BY <1>14, <1>15, <1>19, <1>20 DEF FramesInv

\* Nothing was sent.
LEMMA FramesStart == FramesInit => FramesInv
<1> SUFFICES ASSUME FramesInit PROVE FramesInv
  OBVIOUS
<1>1. /\ <<>> \in Seq(FrameBytes) /\ <<>> \in Seq(Nat) /\ <<>> \in Seq(Messages)
      /\ Len(<<>>) = 0 /\ DOMAIN <<>> = {} /\ <<>> \o <<>> = <<>>
  <2>1. <<>> \o <<>> = <<>>
    BY ConcatEmptySeq
  <2> QED
    BY <2>1
<1>2. FramesTypes
  BY <1>1, FramesAssumption DEF FramesInit, FramesTypes, Known
<1>3. WayInv
  BY <1>1 DEF FramesInit, WayInv, Chain, Ends, Starts
<1>4. ApartInv
  BY <1>1 DEF FramesInit, ApartInv
<1>5. InStep
  BY <1>1 DEF FramesInit, InStep, Stream, Chain, Ends
<1> QED
  BY <1>2, <1>3, <1>4, <1>5 DEF FramesInv

\* What the client has to read, and what it has queued, stays in step with the gateway.
THEOREM FramesInvariant == FramesSpec => []FramesInv
<1>1. FramesInv /\ [FramesNext]_framesVars => FramesInv'
  <2> SUFFICES ASSUME FramesInv, [FramesNext]_framesVars PROVE FramesInv'
    OBVIOUS
  <2>1. CASE UNCHANGED framesVars
    BY <2>1 DEF framesVars, FramesInv, FramesTypes, WayInv, ApartInv, InStep, Fits, Stream
  <2> QED
    BY <2>1, SendKeeps, DeliverKeeps, RecvHeaderKeeps, RecvBodyKeeps DEF FramesNext
<1> QED
  BY <1>1, FramesStart, PTL DEF FramesSpec

\* While all broadcasts are of one byte of data and none is split, the client finds every
\* one, in order; and whenever it has read all there was it has found its place again.
THEOREM FindsItsPlace == FramesSpec => []QueuedAreBroadcasts
<1>1. FramesInv => QueuedAreBroadcasts
  <2> SUFFICES ASSUME FramesInv PROVE QueuedAreBroadcasts
    OBVIOUS
  <2>1. FramesTypes /\ ApartInv /\ (Fits => InStep)
    BY DEF FramesInv
  <2>2. ASSUME Fits, NEW n \in DOMAIN asSent PROVE n <= Len(queued) \/ Unread(n)
    <3>1. Parts(Stream, sock, onWay, Len(sock), Len(onWay))
      BY <2>1, StreamFacts
    <3>2. PICK x \in Seq(FrameBytes), m \in Nat, e \in Nat :
            x = Stream /\ m = Len(sock) /\ e = Len(onWay)
      BY <2>1, StreamFacts
    <3>3. ASSUME NEW i \in DOMAIN x, x[i].frame = n PROVE Unread(n)
      <4>1. /\ i \in 1 .. (m + e) /\ DOMAIN sock = 1 .. m /\ DOMAIN onWay = 1 .. e
            /\ \A j \in 1 .. m : x[j] = sock[j]
            /\ \A j \in 1 .. e : x[m + j] = onWay[j]
        BY <3>1, <3>2, <3>3 DEF Parts
      <4>2. CASE i <= m
        BY <3>3, <4>1, <4>2 DEF Unread
      <4>3. CASE ~(i <= m)
        <5>1. i - m \in 1 .. e /\ m + (i - m) = i
          BY <4>1, <4>3
        <5>2. PICK j \in 1 .. e : m + j = i
          BY <5>1
        <5> QED
          BY <3>3, <4>1, <5>2 DEF Unread
      <4> QED
        BY <4>2, <4>3
    <3> QED
      BY <2>1, <2>2, <3>2, <3>3 DEF InStep
  <2> QED
    BY <2>1, <2>2 DEF QueuedAreBroadcasts, ApartInv, InStep, Fits
<1> QED
  BY <1>1, FramesInvariant, PTL
-----------------------------------------------------------------------------
(* CommandStream: the exclusive or, and the bytes of one command.          *)

\* The places of the bytes that have this bit.
Having(bytes, bit) == {i \in DOMAIN bytes : (bytes[i] \div bit) % 2 = 1}
Parity(bytes, bit) == Cardinality(Having(bytes, bit)) % 2

\* The bytes that have a bit can be counted.
LEMMA ParityIs ==
  ASSUME NEW s \in Seq(Nat), NEW bit
  PROVE  /\ IsFiniteSet(Having(s, bit)) /\ Cardinality(Having(s, bit)) \in Nat
         /\ Parity(s, bit) \in 0 .. 1
<1>1. IsFiniteSet(Having(s, bit))
  <2>1. PICK n \in Nat : n = Len(s) /\ DOMAIN s = 1 .. n
    BY LenProperties
  <2>2. IsFiniteSet(1 .. n)
    BY FS_Interval
  <2> QED
    BY <2>1, <2>2, FS_Subset DEF Having
<1>2. PICK c \in Nat : c = Cardinality(Having(s, bit))
  BY <1>1, FS_CardinalityType
<1> QED
  BY <1>1, <1>2 DEF Parity

\* x has this bit if an odd number of the others do.
Agrees(x, bytes, bit) == (x \div bit) % 2 = Parity(bytes, bit)

\* An element behind the others counts if it has the bit.
LEMMA ParityOfAppend ==
  ASSUME NEW s \in Seq(Nat), NEW x \in Nat, NEW bit, Agrees(x, s, bit)
  PROVE  Parity(Append(s, x), bit) = 0
<1>1. PICK t : t = Append(s, x)
  OBVIOUS
<1>2. PICK n \in Nat : n = Len(s) /\ DOMAIN s = 1 .. n
  BY LenProperties
<1>3. /\ t \in Seq(Nat) /\ DOMAIN t = 1 .. n + 1 /\ t[n + 1] = x
      /\ \A i \in 1 .. n : t[i] = s[i]
  BY <1>1, <1>2, AppendProperties, LenProperties
<1>4. PICK H, c, p : H = Having(s, bit) /\ c = Cardinality(H) /\ p = Parity(s, bit)
  OBVIOUS
<1>5. /\ IsFiniteSet(H) /\ c \in Nat /\ p \in 0 .. 1 /\ p = c % 2 /\ n + 1 \notin H
      /\ (x \div bit) % 2 = p
  <2>1. IsFiniteSet(H) /\ c \in Nat /\ p \in 0 .. 1
    BY <1>4, ParityIs
  <2>2. p = c % 2 /\ (x \div bit) % 2 = p
    BY <1>4 DEF Parity, Agrees
  <2>3. n + 1 \notin H
    BY <1>2, <1>4 DEF Having
  <2> QED
    BY <2>1, <2>2, <2>3
<1>6. CASE p = 0
  <2>1. Having(t, bit) = H
    BY <1>2, <1>3, <1>4, <1>5, <1>6 DEF Having
  <2> QED
    BY <1>1, <1>4, <1>5, <1>6, <2>1 DEF Parity
<1>7. CASE p = 1
  <2>1. Having(t, bit) = H \cup {n + 1}
    BY <1>2, <1>3, <1>4, <1>5, <1>7 DEF Having
  <2>2. Cardinality(H \cup {n + 1}) = c + 1
    BY <1>4, <1>5, FS_AddElement
  <2>3. (c + 1) % 2 = 0
    BY <1>5, <1>7
  <2> QED
    BY <1>1, <2>1, <2>2, <2>3 DEF Parity
<1> QED
  BY <1>5, <1>6, <1>7

\* calcFcs and CheckcalcFcs: bytes and their exclusive or leave 0.
LEMMA FcsCloses ==
  ASSUME NEW s \in Seq(Nat)
  PROVE  XorOf(s) \in Nat /\ XorOf(Append(s, XorOf(s))) = 0
<1>1. PICK p1 \in 0 .. 1, p2 \in 0 .. 1, p4 \in 0 .. 1, p8 \in 0 .. 1,
           p16 \in 0 .. 1, p32 \in 0 .. 1, p64 \in 0 .. 1, p128 \in 0 .. 1 :
        /\ p1 = Parity(s, 1) /\ p2 = Parity(s, 2) /\ p4 = Parity(s, 4) /\ p8 = Parity(s, 8)
        /\ p16 = Parity(s, 16) /\ p32 = Parity(s, 32) /\ p64 = Parity(s, 64)
        /\ p128 = Parity(s, 128)
  BY ParityIs
<1>2. PICK x \in Nat : x = p1 + 2 * p2 + 4 * p4 + 8 * p8 + 16 * p16 + 32 * p32 + 64 * p64
                           + 128 * p128
  OBVIOUS
<1>3. XorOf(s) = x
  BY <1>1, <1>2 DEF XorOf, Parity, Having
<1>4. /\ (x \div 1) % 2 = p1 /\ (x \div 2) % 2 = p2
      /\ (x \div 4) % 2 = p4 /\ (x \div 8) % 2 = p8
  BY <1>2
<1>5. /\ (x \div 16) % 2 = p16 /\ (x \div 32) % 2 = p32
      /\ (x \div 64) % 2 = p64 /\ (x \div 128) % 2 = p128
  BY <1>2
<1>6. PICK t : t = Append(s, x)
  OBVIOUS
<1>7. /\ Parity(t, 1) = 0 /\ Parity(t, 2) = 0 /\ Parity(t, 4) = 0 /\ Parity(t, 8) = 0
      /\ Parity(t, 16) = 0 /\ Parity(t, 32) = 0 /\ Parity(t, 64) = 0 /\ Parity(t, 128) = 0
  <2>1. ASSUME NEW bit, Agrees(x, s, bit) PROVE Parity(t, bit) = 0
    BY <1>6, <2>1, ParityOfAppend
  <2>2. /\ Agrees(x, s, 1) /\ Agrees(x, s, 2) /\ Agrees(x, s, 4) /\ Agrees(x, s, 8)
        /\ Agrees(x, s, 16) /\ Agrees(x, s, 32) /\ Agrees(x, s, 64) /\ Agrees(x, s, 128)
    BY <1>1, <1>4, <1>5 DEF Agrees
  <2> QED
    BY <2>1, <2>2
<1>8. XorOf(t) = 0
  BY <1>7 DEF XorOf, Parity, Having
<1> QED
  BY <1>3, <1>6, <1>8

\* SOF, n bytes, and their exclusive or.
Framed(b, body, n) ==
  /\ b \in Seq(Nat) /\ Len(b) = n + 2 /\ b[1] = MT_RPC_SOF
  /\ \A i \in 1 .. n : b[i + 1] = body[i]
  /\ XorOf([i \in 1 .. n + 1 |-> b[i + 1]]) = 0

\* What Bytes puts around a body.
LEMMA FramedIs ==
  ASSUME NEW body \in Seq(Nat), NEW n \in Nat, n = Len(body),
         NEW b, b = <<MT_RPC_SOF>> \o Append(body, XorOf(body))
  PROVE  Framed(b, body, n)
<1>1. PICK x \in Nat : x = XorOf(body)
  BY FcsCloses
<1>2. PICK e \in Seq(Nat) : e = Append(body, x)
  BY AppendProperties
<1>3. Len(e) = n + 1 /\ DOMAIN e = 1 .. n + 1 /\ \A i \in 1 .. n : e[i] = body[i]
  BY <1>2, AppendProperties, LenProperties
<1>4. PICK f \in Seq(Nat) : f = <<MT_RPC_SOF>> /\ Len(f) = 1 /\ f[1] = MT_RPC_SOF
  <2>1. <<MT_RPC_SOF>> \in Seq(Nat)
    BY DEF MT_RPC_SOF
  <2> QED
    BY <2>1
<1>5. b = f \o e
  BY <1>1, <1>2, <1>4
<1>6. b \in Seq(Nat) /\ Len(b) = n + 2 /\ b[1] = MT_RPC_SOF
  BY <1>3, <1>4, <1>5, ConcatProperties
<1>7. \A i \in 1 .. n + 1 : b[i + 1] = e[i]
  BY <1>3, <1>4, <1>5, ConcatProperties
<1>8. [i \in 1 .. n + 1 |-> b[i + 1]] = e
  BY <1>3, <1>7
<1>9. XorOf(e) = 0
  BY <1>1, <1>2, FcsCloses
<1>10. XorOf([i \in 1 .. n + 1 |-> b[i + 1]]) = 0
  BY <1>8, <1>9, Zenon
<1>11. ASSUME NEW i \in 1 .. n PROVE b[i + 1] = body[i]
  <2>1. i \in 1 .. n + 1
    OBVIOUS
  <2> QED
    BY <1>3, <1>7, <2>1
<1> QED
  BY <1>6, <1>10, <1>11 DEF Framed

\* The bytes of a command.
IsCommand(b, cmd) ==
  /\ b \in Seq(Nat) /\ b[1] = MT_RPC_SOF /\ b[3] = cmd.option
  /\ IF cmd.option \in SetOptions THEN Len(b) = 6 /\ b[2] = 1 /\ b[5] = cmd.state
                                  ELSE Len(b) = 5 /\ b[2] = 0 /\ cmd.state = 0
  /\ XorOf([i \in 1 .. Len(b) - 1 |-> b[i + 1]]) = 0

\* Both kinds of commands have it.
LEMMA CommandIs ==
  ASSUME NEW cmd \in Commands
  PROVE  IsCommand(Bytes(cmd), cmd)
<1>1. cmd.option \in Nat /\ cmd.state \in Nat
      /\ (cmd.option \notin SetOptions => cmd.state = 0)
  BY CmdAssumption
<1>2. CASE cmd.option \in SetOptions
  <2>0. <<1, cmd.option, 0, cmd.state>> \in Seq(Nat)
    BY <1>1
  <2>1. PICK body \in Seq(Nat) : body = <<1, cmd.option, 0, cmd.state>>
    BY <2>0
  <2>2. Len(body) = 4 /\ body[1] = 1 /\ body[2] = cmd.option /\ body[4] = cmd.state
    BY <2>1
  <2>3. PICK b : b = Bytes(cmd)
    OBVIOUS
  <2>4. b = <<MT_RPC_SOF>> \o Append(body, XorOf(body))
    BY <1>2, <2>1, <2>3 DEF Bytes
  <2>5. Framed(b, body, 4)
    BY <2>2, <2>4, FramedIs
  <2>6. b[2] = body[1] /\ b[3] = body[2] /\ b[5] = body[4]
    BY <2>5 DEF Framed
  <2>7. Len(b) = 6 /\ 4 + 1 = Len(b) - 1
    BY <2>5 DEF Framed
  <2> QED
    BY <1>2, <2>2, <2>3, <2>5, <2>6, <2>7 DEF IsCommand, Framed
<1>3. CASE cmd.option \notin SetOptions
  <2>0. <<0, cmd.option, 0>> \in Seq(Nat)
    BY <1>1
  <2>1. PICK body \in Seq(Nat) : body = <<0, cmd.option, 0>>
    BY <2>0
  <2>2. Len(body) = 3 /\ body[1] = 0 /\ body[2] = cmd.option
    BY <2>1
  <2>3. PICK b : b = Bytes(cmd)
    OBVIOUS
  <2>4. b = <<MT_RPC_SOF>> \o Append(body, XorOf(body))
    BY <1>3, <2>1, <2>3 DEF Bytes
  <2>5. Framed(b, body, 3)
    BY <2>2, <2>4, FramedIs
  <2>6. b[2] = body[1] /\ b[3] = body[2]
    BY <2>5 DEF Framed
  <2>7. Len(b) = 5 /\ 3 + 1 = Len(b) - 1
    BY <2>5 DEF Framed
  <2> QED
    BY <1>1, <1>3, <2>2, <2>3, <2>5, <2>6, <2>7 DEF IsCommand, Framed
<1> QED
  BY <1>2, <1>3

-----------------------------------------------------------------------------
(* CommandStream: commands behind one another in a stream of bytes.        *)

\* The bytes w are those of the commands cs, one behind the other: at[k] is
\* where the k-th ends.
Laid(w, cs, at) ==
  /\ at[0] = 0 /\ at[Len(cs)] = Len(w)
  /\ \A k \in 0 .. Len(cs) : at[k] \in Nat
  /\ \A k \in 0 .. Len(cs) : \A m \in 0 .. Len(cs) : k <= m => at[k] <= at[m]
  /\ \A k \in 1 .. Len(cs) :
       /\ at[k] = at[k - 1] + Len(Bytes(cs[k]))
       /\ \A i \in 1 .. Len(Bytes(cs[k])) : w[at[k - 1] + i] = Bytes(cs[k])[i]

\* The places at2 are the places at, and one behind them.
Longer(at, at2, l) == \A k \in 0 .. l : at2[k] = at[k]

\* One more command arrives behind the others.
LEMMA LaidAppend ==
  ASSUME NEW w \in Seq(Nat), NEW cs \in Seq(Commands), NEW cmd \in Commands, NEW at,
         Laid(w, cs, at)
  PROVE  \E at2 : Laid(w \o Bytes(cmd), Append(cs, cmd), at2) /\ Longer(at, at2, Len(cs))
<1>1. PICK b \in Seq(Nat) : b = Bytes(cmd)
  BY CommandIs DEF IsCommand
<1>2. PICK c \in Seq(Commands) : c = Append(cs, cmd)
  BY AppendProperties
<1>3. PICK n \in Nat, m \in Nat, e \in Nat : n = Len(cs) /\ m = Len(w) /\ e = Len(b)
  BY LenProperties
<1>4. Len(c) = n + 1 /\ c[n + 1] = cmd /\ \A k \in 1 .. n : c[k] = cs[k]
  BY <1>2, <1>3, AppendProperties
<1>5. PICK v \in Seq(Nat) : v = w \o b
  BY ConcatProperties
<1>6. /\ Len(v) = m + e
      /\ \A i \in 1 .. m : v[i] = w[i]
      /\ \A i \in 1 .. e : v[m + i] = b[i]
  BY <1>3, <1>5, PartsAre DEF Parts
<1>7. PICK at2 : at2 = [k \in 0 .. n + 1 |-> IF k <= n THEN at[k] ELSE m + e]
  OBVIOUS
<1>8. at2[n + 1] = m + e /\ \A k \in 0 .. n : at2[k] = at[k]
  BY <1>7
<1>9. /\ at[0] = 0 /\ at[n] = m
      /\ \A k \in 0 .. n : at[k] \in Nat
      /\ \A k \in 0 .. n : \A l \in 0 .. n : k <= l => at[k] <= at[l]
  BY <1>3 DEF Laid
<1>10. \A k \in 0 .. n + 1 : k \in 0 .. n \/ k = n + 1
  OBVIOUS
<1>11. \A k \in 0 .. n : at[k] <= m
  BY <1>9
<1>12. at2[0] = 0 /\ \A k \in 0 .. n + 1 : at2[k] \in Nat
  <2>1. 0 \in 0 .. n /\ m + e \in Nat
    OBVIOUS
  <2>2. at2[0] = 0 /\ at2[n + 1] \in Nat
    BY <1>8, <1>9, <2>1
  <2>3. ASSUME NEW k \in 0 .. n PROVE at2[k] \in Nat
    BY <1>8, <1>9
  <2> QED
    BY <1>10, <2>2, <2>3
<1>13. ASSUME NEW k \in 0 .. n + 1, NEW l \in 0 .. n + 1, k <= l PROVE at2[k] <= at2[l]
  <2>1. CASE l \in 0 .. n
    <3>1. k \in 0 .. n
      BY <1>13, <2>1
    <3>2. at[k] <= at[l] /\ at2[k] = at[k] /\ at2[l] = at[l]
      BY <1>8, <1>9, <1>13, <2>1, <3>1
    <3> QED
      BY <3>2
  <2>2. CASE l = n + 1 /\ k \in 0 .. n
    <3>1. at2[l] = m + e /\ at2[k] = at[k] /\ at[k] <= m /\ at[k] \in Nat
      BY <1>8, <1>9, <1>11, <2>2
    <3> QED
      BY <3>1
  <2>3. CASE l = n + 1 /\ k = n + 1
    BY <1>8, <2>3
  <2> QED
    BY <1>10, <2>1, <2>2, <2>3
<1>14. ASSUME NEW k \in 1 .. n + 1
       PROVE  /\ at2[k] = at2[k - 1] + Len(Bytes(c[k]))
              /\ \A i \in 1 .. Len(Bytes(c[k])) : v[at2[k - 1] + i] = Bytes(c[k])[i]
  <2>1. CASE k \in 1 .. n
    <3>1. k \in 0 .. n /\ k - 1 \in 0 .. n
      BY <2>1
    <3>2. at[k - 1] \in Nat /\ at[k] \in Nat
      BY <1>9, <3>1
    <3> DEFINE p == at[k - 1]
               q == at[k]
               d == Bytes(cs[k])
    <3> HIDE DEF p, q, d
    <3>3. q = p + Len(d) /\ (\A i \in 1 .. Len(d) : w[p + i] = d[i])
      BY <1>3, <2>1 DEF Laid, p, q, d
    <3>4. q <= m /\ p \in Nat /\ q \in Nat
      BY <1>11, <3>1, <3>2 DEF p, q
    <3>5. c[k] = cs[k] /\ at2[k] = q /\ at2[k - 1] = p
      BY <1>4, <1>8, <2>1, <3>1 DEF p, q
    <3>6. Len(d) \in Nat
      <4>1. cs[k] \in Commands
        BY <1>3, <2>1, ElementOfSeq
      <4>2. PICK x \in Commands : x = cs[k]
        BY <4>1
      <4>3. Bytes(x) \in Seq(Nat)
        BY CommandIs DEF IsCommand
      <4> QED
        BY <4>2, <4>3, LenProperties DEF d
    <3>7. \A i \in 1 .. Len(d) : p + i \in 1 .. m
      BY <3>3, <3>4, <3>6
    <3>8. \A i \in 1 .. Len(d) : v[p + i] = d[i]
      BY <1>6, <3>3, <3>7
    <3> QED
      BY <3>3, <3>5, <3>8 DEF d
  <2>2. CASE k = n + 1
    <3>1. at2[k] = m + e /\ at2[k - 1] = m /\ Bytes(c[k]) = b
      <4>1. k - 1 = n /\ n \in 0 .. n
        BY <2>2
      <4> QED
        BY <1>1, <1>4, <1>8, <1>9, <2>2, <4>1
    <3> QED
      BY <1>3, <1>6, <3>1
  <2> QED
    BY <2>1, <2>2
<1>15. Laid(v, c, at2)
  <2>1. PICK l \in Nat : l = n + 1 /\ l = Len(c)
    BY <1>4
  <2>2. \A k \in 0 .. l : at2[k] \in Nat
    BY <1>12, <2>1
  <2>3. \A k \in 0 .. l : \A h \in 0 .. l : k <= h => at2[k] <= at2[h]
    BY <1>13, <2>1
  <2>4. at2[0] = 0 /\ at2[l] = Len(v)
    BY <1>6, <1>8, <1>12, <2>1
  <2>5. \A k \in 1 .. l :
          /\ at2[k] = at2[k - 1] + Len(Bytes(c[k]))
          /\ \A i \in 1 .. Len(Bytes(c[k])) : v[at2[k - 1] + i] = Bytes(c[k])[i]
    BY <1>14, <2>1
  <2>6. l = Len(c)
    BY <2>1
  <2> HIDE <2>1
  <2> QED
    BY <2>2, <2>3, <2>4, <2>5, <2>6, Zenon DEF Laid
<1>16. Longer(at, at2, n)
  BY <1>8 DEF Longer
<1> QED
  BY <1>1, <1>2, <1>3, <1>5, <1>15, <1>16

\* Where the first command is: its bytes are the first of w.
First(w, cs, at, b) ==
  /\ b \in Seq(Nat) /\ b = Bytes(cs[1]) /\ cs[1] \in Commands
  /\ at[1] = Len(b) /\ 5 <= Len(b) /\ Len(b) <= 6 /\ Len(b) <= Len(w)
  /\ \A i \in 1 .. Len(b) : w[i] = b[i]
  /\ \A k \in 1 .. Len(cs) : at[k] \in Nat /\ Len(b) <= at[k] /\ at[k] <= Len(w)

\* If there is a command, it starts where w does.
LEMMA FirstIs ==
  ASSUME NEW w \in Seq(Nat), NEW cs \in Seq(Commands), NEW at, Laid(w, cs, at), Len(cs) >= 1
  PROVE  First(w, cs, at, Bytes(cs[1]))
<1>1. PICK n \in Nat, m \in Nat : n = Len(cs) /\ m = Len(w) /\ n >= 1
  BY LenProperties
<1>2. PICK x \in Commands : x = cs[1]
  BY <1>1, ElementOfSeq
<1>3. PICK b \in Seq(Nat) : b = Bytes(x) /\ 5 <= Len(b) /\ Len(b) <= 6
  <2>1. IsCommand(Bytes(x), x)
    BY CommandIs
  <2>2. PICK d \in Seq(Nat) : d = Bytes(x)
    BY <2>1 DEF IsCommand
  <2>3. PICK e \in Nat : e = Len(d)
    BY LenProperties
  <2>4. e = 5 \/ e = 6
    BY <2>1, <2>2, <2>3, Zenon DEF IsCommand
  <2>5. 5 <= e /\ e <= 6
    BY <2>4
  <2> QED
    BY <2>2, <2>3, <2>5
<1>4. 1 \in 1 .. n /\ 1 - 1 = 0 /\ 1 \in 0 .. n /\ n \in 0 .. n
  BY <1>1
<1>5. /\ at[0] = 0 /\ at[n] = m
      /\ at[1] = at[1 - 1] + Len(Bytes(cs[1]))
      /\ \A i \in 1 .. Len(Bytes(cs[1])) : w[at[1 - 1] + i] = Bytes(cs[1])[i]
  BY <1>1, <1>4 DEF Laid
<1>6. at[1] = Len(b) /\ \A i \in 1 .. Len(b) : w[i] = b[i]
  <2>1. PICK e \in Nat : e = Len(b)
    BY LenProperties
  <2>2. at[1 - 1] = 0 /\ Bytes(cs[1]) = b
    BY <1>2, <1>3, <1>4, <1>5, Zenon
  <2>3. at[1] = 0 + e /\ \A i \in 1 .. e : w[0 + i] = b[i]
    BY <1>5, <2>1, <2>2, Zenon
  <2>4. at[1] = e /\ \A i \in 1 .. e : w[i] = b[i]
    BY <2>3
  <2> QED
    BY <2>1, <2>4, Zenon
<1>7. \A k \in 1 .. n : at[k] \in Nat /\ at[1] <= at[k] /\ at[k] <= m
  <2>1. \A k \in 0 .. n : at[k] \in Nat
    BY <1>1 DEF Laid
  <2>2. \A k \in 0 .. n : \A l \in 0 .. n : k <= l => at[k] <= at[l]
    BY <1>1 DEF Laid
  <2> QED
    BY <1>4, <1>5, <2>1, <2>2
<1> QED
  BY <1>1, <1>2, <1>3, <1>4, <1>6, <1>7 DEF First

\* The places at2 are those of at without the first, counted from there.
Shorter(at, at2, l, e) == \A k \in 0 .. l : at2[k] = at[k + 1] - e

\* The bytes behind the first command are those of the others.
LEMMA LaidTail ==
  ASSUME NEW b \in Seq(Nat), NEW v \in Seq(Nat), NEW cs \in Seq(Commands), NEW at,
         Laid(b \o v, cs, at), Len(cs) >= 1, Len(b) = at[1]
  PROVE  \E at2 : Laid(v, Tail(cs), at2) /\ Shorter(at, at2, Len(cs) - 1, at[1])
<1>1. PICK w \in Seq(Nat) : w = b \o v
  BY ConcatProperties
<1>2. PICK n \in Nat, m \in Nat, e \in Nat : n + 1 = Len(cs) /\ m = Len(v) /\ e = Len(b)
  <2>1. Len(cs) \in Nat /\ Len(v) \in Nat /\ Len(b) \in Nat /\ Len(cs) - 1 \in Nat
    BY LenProperties
  <2>2. (Len(cs) - 1) + 1 = Len(cs)
    BY <2>1
  <2> QED
    BY <2>1, <2>2
<1>3. PICK c \in Seq(Commands) : c = Tail(cs)
  <2>1. cs # <<>>
    BY <1>2, EmptySeq
  <2> QED
    BY <2>1, HeadTailProperties
<1>4. Len(c) = n /\ \A k \in 1 .. n : c[k] = cs[k + 1]
  <2>1. cs # <<>>
    BY <1>2, EmptySeq
  <2>2. Len(Tail(cs)) = Len(cs) - 1
    BY <2>1, HeadTailProperties
  <2>3. Len(c) = n
    BY <1>2, <1>3, <2>2
  <2>4. \A k \in 1 .. Len(Tail(cs)) : Tail(cs)[k] = cs[k + 1]
    BY <2>1, HeadTailProperties
  <2> QED
    BY <1>3, <2>3, <2>4
<1>5. Len(w) = e + m /\ \A i \in 1 .. m : w[e + i] = v[i]
  <2>1. Parts(w, b, v, e, m)
    BY <1>1, <1>2, PartsAre
  <2> QED
    BY <2>1 DEF Parts
<1>6. PICK at2 : at2 = [k \in 0 .. n |-> at[k + 1] - e]
  OBVIOUS
<1>7. /\ at[1] = e /\ at[n + 1] = e + m
      /\ \A k \in 0 .. n + 1 : at[k] \in Nat
      /\ \A k \in 0 .. n + 1 : \A l \in 0 .. n + 1 : k <= l => at[k] <= at[l]
  BY <1>1, <1>2, <1>5 DEF Laid
<1>8. ASSUME NEW k \in 0 .. n
      PROVE  /\ at2[k] = at[k + 1] - e /\ at2[k] \in Nat
             /\ at[k + 1] \in Nat /\ e <= at[k + 1] /\ at[k + 1] <= e + m
  <2>1. /\ k + 1 \in 0 .. n + 1 /\ 1 \in 0 .. n + 1 /\ n + 1 \in 0 .. n + 1
        /\ 1 <= k + 1 /\ k + 1 <= n + 1
    OBVIOUS
  <2>2. at[k + 1] \in Nat /\ at[1] <= at[k + 1] /\ at[k + 1] <= at[n + 1]
    BY <1>7, <2>1
  <2>3. at2[k] = at[k + 1] - e
    BY <1>6
  <2> QED
    BY <1>7, <2>2, <2>3
<1>9. at2[0] = 0 /\ at2[n] = m
  <2>1. 0 \in 0 .. n /\ n \in 0 .. n /\ 0 + 1 = 1
    OBVIOUS
  <2>2. at2[0] = at[1] - e /\ at2[n] = at[n + 1] - e
    BY <1>8, <2>1
  <2> QED
    BY <1>7, <2>2
<1>10. ASSUME NEW k \in 0 .. n, NEW l \in 0 .. n, k <= l PROVE at2[k] <= at2[l]
  <2>1. k + 1 \in 0 .. n + 1 /\ l + 1 \in 0 .. n + 1 /\ k + 1 <= l + 1
    BY <1>10
  <2>2. at[k + 1] <= at[l + 1]
    BY <1>7, <2>1
  <2> QED
    BY <1>8, <2>2
<1>11. ASSUME NEW k \in 1 .. n
       PROVE  /\ at2[k] = at2[k - 1] + Len(Bytes(c[k]))
              /\ \A i \in 1 .. Len(Bytes(c[k])) : v[at2[k - 1] + i] = Bytes(c[k])[i]
  <2>1. k - 1 \in 0 .. n /\ k \in 0 .. n /\ (k - 1) + 1 = k /\ k + 1 \in 1 .. n + 1
        /\ (k + 1) - 1 = k
    OBVIOUS
  <2>2. at[k] \in Nat /\ e <= at[k] /\ at2[k - 1] = at[k] - e
    BY <1>8, <2>1
  <2>3. at[k + 1] \in Nat /\ at[k + 1] <= e + m /\ at2[k] = at[k + 1] - e
    BY <1>8, <2>1
  <2> DEFINE p == at[k]
             q == at[k + 1]
             d == Bytes(cs[k + 1])
  <2>4. \A j \in 1 .. n + 1 :
          /\ at[j] = at[j - 1] + Len(Bytes(cs[j]))
          /\ \A i \in 1 .. Len(Bytes(cs[j])) : w[at[j - 1] + i] = Bytes(cs[j])[i]
    BY <1>1, <1>2 DEF Laid
  <2>5. /\ at[k + 1] = at[(k + 1) - 1] + Len(Bytes(cs[k + 1]))
        /\ \A i \in 1 .. Len(Bytes(cs[k + 1])) : w[at[(k + 1) - 1] + i] = Bytes(cs[k + 1])[i]
    BY <2>1, <2>4
  <2>6. q = p + Len(d) /\ (\A i \in 1 .. Len(d) : w[p + i] = d[i])
    BY <2>1, <2>5
  <2>7. Len(d) \in Nat
    <3>1. PICK x \in Commands : x = cs[k + 1]
      BY <1>2, <2>1, ElementOfSeq
    <3>2. Bytes(x) \in Seq(Nat)
      BY CommandIs DEF IsCommand
    <3> QED
      BY <3>1, <3>2, LenProperties
  <2>8. Bytes(c[k]) = d
    BY <1>4
  <2> HIDE DEF p, q, d
  <2>9. p \in Nat /\ e <= p /\ q \in Nat /\ q <= e + m /\ at2[k - 1] = p - e /\ at2[k] = q - e
    BY <2>2, <2>3 DEF p, q
  <2>10. ASSUME NEW i \in 1 .. Len(d) PROVE v[(p - e) + i] = d[i]
    <3>0. (p - e) + i \in 1 .. m /\ e + ((p - e) + i) = p + i
      BY <2>6, <2>7, <2>9
    <3>1. PICK j \in 1 .. m : j = (p - e) + i /\ e + j = p + i
      BY <3>0
    <3> QED
      BY <1>5, <2>6, <3>1
  <2> QED
    BY <2>6, <2>7, <2>8, <2>9, <2>10
<1>12. Laid(v, c, at2)
  <2>1. \A k \in 0 .. n : at2[k] \in Nat
    BY <1>8
  <2>2. \A k \in 0 .. n : \A h \in 0 .. n : k <= h => at2[k] <= at2[h]
    BY <1>10
  <2>3. at2[0] = 0 /\ at2[n] = Len(v)
    BY <1>2, <1>9
  <2>4. n = Len(c)
    BY <1>4
  <2> QED
    BY <1>11, <2>1, <2>2, <2>3, <2>4, Zenon DEF Laid
<1>13. Shorter(at, at2, n, at[1])
  BY <1>7, <1>8 DEF Shorter
<1>14. Len(cs) - 1 = n
  BY <1>2
<1> QED
  BY <1>3, <1>12, <1>13, <1>14, Zenon

-----------------------------------------------------------------------------
(* CommandStream: the invariant.                                           *)

Runs == {cmd \in Commands : cmd.option \in SetOptions \cup GetOptions}

\* The bytes that have arrived and are not handled: a message that is being
\* read is in the buffer.
Waiting == IF pc \in {"rest", "handle"} THEN buffer \o rcv ELSE rcv

StreamTypes ==
  /\ pc \in {"idle", "ioctl", "header", "rest", "handle", "closed"}
  /\ hup \in BOOLEAN
  /\ buffer \in Seq(Nat) /\ rcv \in Seq(Nat) /\ flight \in Seq(Seq(Nat))
  /\ sent \in Seq(Commands)
  /\ client \in {"open", "closing", "fin"}
  /\ hup \/ pc = "closed" => client = "fin"
  /\ client = "fin" => flight = <<>>

\* The messages on their way are the commands on.
InFlight(on) == Len(flight) = Len(on) /\ \A i \in 1 .. Len(on) : flight[i] = Bytes(on[i])

\* What FIONREAD said, less what was read, ends with the j-th command.
Reading(cs, at, j) ==
  /\ j \in 0 .. Len(cs)
  /\ pc \in {"rest", "handle"} => j >= 1
  /\ hup /\ pc \in {"header", "rest", "handle"} => j = Len(cs)
  /\ pc = "header" => byteToRead = at[j]
  /\ pc = "rest" => byteToRead = at[j] /\ byteRead = 4 /\ Len(buffer) = 4
  /\ pc = "handle" => /\ byteToRead = at[j] - at[1]
                      /\ byteRead = at[1] /\ Len(buffer) = at[1]

\* The client has sent the commands past, which are handled, cs, which have
\* arrived, and on.
Placed(past, cs, on, at, j) ==
  /\ past \in Seq(Commands) /\ cs \in Seq(Commands) /\ on \in Seq(Commands)
  /\ sent = past \o cs \o on
  /\ done = Only(past, Runs)
  /\ InFlight(on)
  /\ Laid(Waiting, cs, at)
  /\ Reading(cs, at, j)
  /\ pc = "closed" => cs = <<>> /\ on = <<>>

Whole == StreamTypes /\ \E past, cs, on, at, j : Placed(past, cs, on, at, j)

\* When commands arrive whole, the stream is one of whole commands.
StreamInv == splits \in BOOLEAN /\ (~splits => Whole)

\* at ends at 0 only if there are no commands.
LEMMA NoneLeft ==
  ASSUME NEW w \in Seq(Nat), NEW cs \in Seq(Commands), NEW at, NEW j, Laid(w, cs, at),
         j \in 0 .. Len(cs), at[j] = 0
  PROVE  j = 0
<1>1. Len(cs) \in Nat
  BY LenProperties
<1>2. CASE j # 0
  <2>1. Len(cs) >= 1 /\ j \in 1 .. Len(cs)
    BY <1>1, <1>2
  <2>2. PICK b \in Seq(Nat) : First(w, cs, at, b)
    BY <2>1, FirstIs DEF First
  <2>3. 5 <= Len(b) /\ Len(b) <= at[j]
    BY <2>1, <2>2 DEF First
  <2> QED
    BY <2>3
<1> QED
  BY <1>2

\* A sequence without elements is the empty one.
LEMMA EmptyIs ==
  ASSUME NEW T, NEW s \in Seq(T), Len(s) = 0
  PROVE  s = <<>>
  BY EmptySeq

\* At the start nothing was sent.
LEMMA WholeInit == ASSUME CmdInit, ~splits PROVE Whole
<1>1. StreamTypes
  <2>1. <<>> \in Seq(Nat) /\ <<>> \in Seq(Seq(Nat)) /\ <<>> \in Seq(Commands)
    BY EmptySeq
  <2> QED
    BY <2>1 DEF CmdInit, StreamTypes
<1>2. Len(<<>>) = 0 /\ <<>> \in Seq(Commands)
  BY EmptySeq
<1>3. sent = <<>> \o <<>> \o <<>>
  BY <1>2, ConcatEmptySeq DEF CmdInit
<1>4. done = Only(<<>>, Runs)
  <2>1. PICK f : IsKept(f, <<>>, Runs, 0) /\ Only(<<>>, Runs) = f[0]
    BY <1>2, OnlyIs
  <2> QED
    BY <2>1 DEF IsKept, CmdInit
<1>5. PICK at : at = [k \in 0 .. 0 |-> 0]
  OBVIOUS
<1>6. Laid(<<>>, <<>>, at)
  BY <1>2, <1>5 DEF Laid
<1>7. Waiting = <<>>
  BY DEF Waiting, CmdInit
<1>8. Reading(<<>>, at, 0)
  BY <1>2 DEF Reading, CmdInit
<1>9. InFlight(<<>>)
  BY <1>2 DEF InFlight, CmdInit
<1>10. pc # "closed"
  BY DEF CmdInit
<1>11. Placed(<<>>, <<>>, <<>>, at, 0)
  BY <1>2, <1>3, <1>4, <1>6, <1>7, <1>8, <1>9, <1>10 DEF Placed
<1> QED
  BY <1>1, <1>11 DEF Whole

\* poll() returns: only the round begins.
LEMMA WholePoll == ASSUME Whole, PollReturns PROVE Whole'
<1>1. PICK past, cs, on, at, j : Placed(past, cs, on, at, j)
  BY DEF Whole
<1>2. StreamTypes'
  BY DEF Whole, StreamTypes, PollReturns, netVars, modes
<1>3. Laid(Waiting, cs, at)'
  BY <1>1 DEF Placed, Waiting, PollReturns, netVars, modes
<1>4. Reading(cs, at, j)'
  BY <1>1 DEF Placed, Reading, PollReturns
<1>5. InFlight(on)'
  BY <1>1 DEF Placed, InFlight, PollReturns, netVars, modes
<1>6. Placed(past, cs, on, at, j)'
  BY <1>1, <1>3, <1>4, <1>5 DEF Placed, PollReturns, netVars, modes
<1> QED
  BY <1>2, <1>6 DEF Whole

\* FIONREAD counts the commands that have arrived, and they are whole.
LEMMA WholeIoctl == ASSUME Whole, Ioctl PROVE Whole'
<1>1. PICK past, cs, on, at, j : Placed(past, cs, on, at, j)
  BY DEF Whole
<1>2. StreamTypes'
  BY DEF Whole, StreamTypes, Ioctl, netVars, modes
<1>3. Laid(Waiting, cs, at)'
  BY <1>1 DEF Placed, Waiting, Ioctl, netVars, modes
<1>4. Reading(cs, at, Len(cs))'
  <2>1. at[Len(cs)] = Len(rcv)
    BY <1>1 DEF Placed, Laid, Waiting, Ioctl
  <2>2. Len(cs) \in Nat
    BY <1>1, LenProperties DEF Placed
  <2> QED
    BY <2>1, <2>2 DEF Reading, Ioctl
<1>5. InFlight(on)'
  BY <1>1 DEF Placed, InFlight, Ioctl, netVars, modes
<1>6. Placed(past, cs, on, at, Len(cs))'
  BY <1>1, <1>3, <1>4, <1>5 DEF Placed, Ioctl, netVars, modes
<1> QED
  BY <1>2, <1>6 DEF Whole

\* The round ends; with the client's FIN seen, nothing is left behind.
LEMMA WholeAllRead == ASSUME Whole, AllRead PROVE Whole'
<1>1. PICK past, cs, on, at, j : Placed(past, cs, on, at, j)
  BY DEF Whole
<1>2. StreamTypes'
  BY DEF Whole, StreamTypes, AllRead, AfterProcess, netVars, modes
<1>3. Waiting = rcv /\ Waiting' = rcv
  BY DEF Waiting, AllRead, AfterProcess, netVars, modes
<1>4. Laid(Waiting, cs, at)'
  BY <1>1, <1>3 DEF Placed
<1>5. j \in 0 .. Len(cs) /\ at[j] = 0 /\ (hup => j = Len(cs))
  BY <1>1 DEF Placed, Reading, AllRead
<1>6. ASSUME hup PROVE cs = <<>> /\ on = <<>>
  <2>1. cs \in Seq(Commands) /\ on \in Seq(Commands) /\ rcv \in Seq(Nat) /\ Laid(rcv, cs, at)
    BY <1>1, <1>3 DEF Placed, Whole, StreamTypes
  <2>2. j = 0
    BY <1>5, <2>1, NoneLeft
  <2>3. Len(cs) = 0
    BY <1>5, <1>6, <2>2
  <2>4. Len(on) = 0
    BY <1>1, <1>6 DEF Whole, StreamTypes, Placed, InFlight
  <2> QED
    BY <2>1, <2>3, <2>4, EmptyIs
<1>7. Reading(cs, at, j)'
  BY <1>5 DEF Reading, AllRead, AfterProcess
<1>8. InFlight(on)'
  BY <1>1 DEF Placed, InFlight, AllRead, netVars, modes
<1>9. Placed(past, cs, on, at, j)'
  BY <1>1, <1>4, <1>6, <1>7, <1>8 DEF Placed, AllRead, AfterProcess, netVars, modes
<1> QED
  BY <1>2, <1>9 DEF Whole

-----------------------------------------------------------------------------
(* CommandStream: each step keeps it.                                      *)

\* A read of n bytes, which are there.
LEMMA ReadIs ==
  ASSUME rcv \in Seq(Nat), NEW n \in Nat, n # 0, n <= Len(rcv)
  PROVE  ReadCount(n) = n
<1>1. PICK l \in Nat : l = Len(rcv)
  BY LenProperties
<1>2. rcv # <<>>
  BY <1>1, EmptySeq
<1> QED
  BY <1>1, <1>2 DEF ReadCount

\* The header of the first command is there, and read() returns all of it.
LEMMA WholeReadHeader == ASSUME Whole, ReadHeader PROVE Whole'
<1>1. PICK past, cs, on, at, j : Placed(past, cs, on, at, j)
  BY DEF Whole
<1>2. rcv \in Seq(Nat) /\ cs \in Seq(Commands) /\ Laid(rcv, cs, at) /\ byteToRead = at[j]
      /\ byteToRead # 0 /\ j \in 0 .. Len(cs) /\ (hup => j = Len(cs))
  BY <1>1 DEF Whole, StreamTypes, Placed, Waiting, Reading, ReadHeader
<1>3. PICK n \in Nat, l \in Nat : n = Len(cs) /\ l = Len(rcv)
  BY <1>2, LenProperties
<1>4. j >= 1 /\ n >= 1
  <2>1. at[0] = 0
    BY <1>2 DEF Laid
  <2> QED
    BY <1>2, <1>3, <2>1
<1>5. PICK b \in Seq(Nat) : First(rcv, cs, at, b)
  <2>1. First(rcv, cs, at, Bytes(cs[1]))
    BY <1>2, <1>3, <1>4, FirstIs
  <2> QED
    BY <2>1 DEF First
<1>6. l >= 5
  BY <1>3, <1>5 DEF First
<1>7. ReadCount(4) = 4
  BY <1>2, <1>3, <1>6, ReadIs
<1>8. PICK h \in Seq(Nat), t \in Seq(Nat) : CutAt(rcv, 4, h, t)
  <2>1. 4 \in 0 .. Len(rcv)
    BY <1>3, <1>6
  <2> QED
    BY <1>2, <2>1, CutFacts
<1>9. buffer' = h /\ rcv' = t
  <2>2. h \o <<>> = h
    BY ConcatEmptySeq
  <2> QED
    <3>1. buffer' = Padded(SubSeq(rcv, 1, 4)) /\ rcv' = SubSeq(rcv, 4 + 1, Len(rcv))
      <4>1. /\ buffer' = Padded(SubSeq(rcv, 1, ReadCount(4)))
            /\ rcv' = IF ReadCount(4) > 0 THEN SubSeq(rcv, ReadCount(4) + 1, Len(rcv)) ELSE rcv
        BY Zenon DEF ReadHeader
      <4>2. 4 > 0
        OBVIOUS
      <4> QED
        BY <1>7, <4>1, <4>2, Zenon
    <3>2. h = SubSeq(rcv, 1, 4) /\ t = SubSeq(rcv, 4 + 1, Len(rcv)) /\ Len(h) = 4
      BY <1>8 DEF CutAt
    <3>3. Padded(h) = h
      <4>1. [i \in 1 .. 4 - Len(h) |-> 0] = <<>>
        BY <3>2
      <4> QED
        BY <2>2, <4>1 DEF Padded
    <3> QED
      BY <2>2, <3>1, <3>2, <3>3
<1>10. byteRead' = 4 /\ Len(h) = 4 /\ h \o t = rcv
  BY <1>7, <1>8 DEF ReadHeader, CutAt
<1>11. StreamTypes'
  BY <1>9 DEF Whole, StreamTypes, ReadHeader, netVars, modes
<1>12. Laid(Waiting, cs, at)'
  BY <1>2, <1>9, <1>10 DEF Waiting, ReadHeader
<1>13. Reading(cs, at, j)'
  BY <1>2, <1>4, <1>9, <1>10 DEF Reading, ReadHeader
<1>14. InFlight(on)'
  BY <1>1 DEF Placed, InFlight, ReadHeader
<1>15. Placed(past, cs, on, at, j)'
  BY <1>1, <1>12, <1>13, <1>14 DEF Placed, ReadHeader
<1> QED
  BY <1>11, <1>15 DEF Whole

\* The buffer holds the first e bytes b of a message.
Begun(b, e) == e \in Nat /\ Len(buffer) = e /\ \A i \in 1 .. e : buffer[i] = b[i]

\* Bytes can be taken together in either order.
LEMMA BytesRegroup ==
  ASSUME NEW p \in Seq(Nat), NEW q \in Seq(Nat), NEW r \in Seq(Nat)
  PROVE  (p \o q) \o r = p \o (q \o r)
<1>1. PICK T : T = Nat
  OBVIOUS
<1>2. p \in Seq(T) /\ q \in Seq(T) /\ r \in Seq(T)
  BY <1>1
<1> QED
  BY <1>2, ConcatAssociative

\* The length in the header is the command's, and so is the rest.
LEMMA WholeReadRest == ASSUME Whole, ReadRest PROVE Whole'
<1>1. PICK past, cs, on, at, j : Placed(past, cs, on, at, j)
  BY DEF Whole
<1>2. /\ rcv \in Seq(Nat) /\ buffer \in Seq(Nat) /\ cs \in Seq(Commands)
      /\ Laid(buffer \o rcv, cs, at) /\ byteToRead = at[j] /\ byteRead = 4 /\ Len(buffer) = 4
      /\ j \in 1 .. Len(cs) /\ (hup => j = Len(cs))
  <2>1. Len(cs) \in Nat
    BY <1>1, LenProperties DEF Placed
  <2> QED
    BY <1>1, <2>1 DEF Whole, StreamTypes, Placed, Waiting, Reading, ReadRest
<1>3. PICK n \in Nat, l \in Nat : n = Len(cs) /\ l = Len(rcv)
  BY <1>2, LenProperties
<1>4. PICK w \in Seq(Nat) : w = buffer \o rcv
  BY <1>2, ConcatProperties
<1>5. PICK b \in Seq(Nat) : First(w, cs, at, b) /\ b = Bytes(cs[1])
  <2>1. Len(cs) >= 1
    BY <1>2, <1>3
  <2>2. First(w, cs, at, Bytes(cs[1]))
    BY <1>2, <1>4, <2>1, FirstIs
  <2> QED
    BY <2>2 DEF First
<1>6. PICK e \in Nat : e = Len(b) /\ 5 <= e /\ e <= 6 /\ at[1] = e /\ e <= Len(w)
  BY <1>5, LenProperties DEF First
<1>7. Len(w) = 4 + l /\ \A i \in 1 .. 4 : w[i] = buffer[i]
  <2>1. Parts(w, buffer, rcv, 4, l)
    BY <1>2, <1>3, <1>4, PartsAre
  <2> QED
    BY <2>1 DEF Parts
<1>8. MsgLen + 1 = e - 4 /\ MsgLen \in 0 .. 1
  <2>1. b[2] = e - 5
    <3>1. PICK x \in Commands : x = cs[1]
      BY <1>5 DEF First
    <3>2. IsCommand(b, x)
      BY <1>5, <3>1, CommandIs
    <3> QED
      <4>1. (e = 6 /\ b[2] = 1) \/ (e = 5 /\ b[2] = 0)
        BY <1>6, <3>2, Zenon DEF IsCommand
      <4> QED
        BY <4>1
  <2>2. buffer[2] = e - 5
    <3>1. 2 \in 1 .. Len(b) /\ 2 \in 1 .. 4
      BY <1>6
    <3>2. w[2] = b[2] /\ w[2] = buffer[2]
      BY <1>5, <1>7, <3>1 DEF First
    <3> QED
      BY <2>1, <3>2
  <2>3. Byte(1) = e - 5
    BY <1>2, <2>2 DEF Byte
  <2>4. Char(e - 5) = e - 5
    BY <1>6 DEF Char
  <2> QED
    BY <1>6, <2>3, <2>4 DEF MsgLen
<1>9. ReadCount(MsgLen + 1) = e - 4
  <2>0. e - 4 \in Nat /\ e - 4 # 0 /\ e - 4 <= l
    <3>1. e <= 4 + l /\ 5 <= e
      BY <1>6, <1>7
    <3> QED
      BY <3>1
  <2>1. PICK k \in Nat : k = e - 4 /\ k # 0 /\ k <= l
    BY <2>0
  <2> QED
    BY <1>2, <1>3, <1>8, <2>1, ReadIs
<1>10. PICK h \in Seq(Nat), t \in Seq(Nat) : CutAt(rcv, e - 4, h, t)
  <2>1. e - 4 \in 0 .. Len(rcv)
    BY <1>3, <1>6, <1>7
  <2> QED
    BY <1>2, <2>1, CutFacts
<1>11. buffer' = buffer \o h /\ rcv' = t /\ byteRead' = e
  <2>1. e - 4 > 0 /\ 4 + (e - 4) = e
    BY <1>6
  <2>2. buffer' = buffer \o SubSeq(rcv, 1, e - 4)
        /\ rcv' = SubSeq(rcv, e - 4 + 1, Len(rcv)) /\ byteRead' = 4 + (e - 4)
    BY <1>2, <1>9, <2>1 DEF ReadRest
  <2> QED
    BY <1>10, <2>1, <2>2 DEF CutAt
<1>12. byteToRead' = at[j] - e /\ pc' = "handle"
  <2>1. 4 + (e - 4) = e /\ ~(e < 0) /\ ~(e < MsgLen)
    BY <1>6, <1>8
  <2> QED
    BY <1>2, <1>9, <2>1 DEF ReadRest
<1>13. (buffer \o h) \in Seq(Nat) /\ Len(buffer \o h) = e /\ (buffer \o h) \o t = w
  <2>1. Len(h) = e - 4 /\ rcv = h \o t
    BY <1>10 DEF CutAt
  <2>2. (buffer \o h) \in Seq(Nat) /\ Len(buffer \o h) = Len(buffer) + Len(h)
    BY <1>2, ConcatProperties
  <2>3. (buffer \o h) \o t = buffer \o (h \o t)
    BY <1>2, BytesRegroup
  <2> QED
    BY <1>2, <1>4, <1>6, <2>1, <2>2, <2>3
<1>14. StreamTypes'
  BY <1>11, <1>12, <1>13 DEF Whole, StreamTypes, ReadRest, modes
<1>15. Laid(Waiting, cs, at)'
  BY <1>2, <1>4, <1>11, <1>12, <1>13 DEF Waiting
<1>16. Reading(cs, at, j)'
  <2>1. hup' = hup
    BY DEF ReadRest
  <2>2. Len(buffer') = e /\ byteRead' = e /\ byteToRead' = at[j] - e /\ at[1] = e
    BY <1>6, <1>11, <1>12, <1>13
  <2>3. j \in 0 .. Len(cs) /\ j >= 1
    BY <1>2, <1>3
  <2> QED
    BY <1>2, <1>12, <2>1, <2>2, <2>3, Zenon DEF Reading
<1>17. InFlight(on)'
  BY <1>1 DEF Placed, InFlight, ReadRest
<1>18. Placed(past, cs, on, at, j)'
  BY <1>1, <1>12, <1>15, <1>16, <1>17 DEF Placed, ReadRest
<1> QED
  BY <1>14, <1>18 DEF Whole

\* What Socket_ProcessIncoming finds in a buffer that holds a command b.
Found(b, cmd) ==
  /\ Byte(0) = MT_RPC_SOF /\ FcsMatches(byteRead)
  /\ Byte(2) = cmd.option
  /\ cmd.option \in SetOptions => Data = cmd.state
  /\ cmd.option \notin SetOptions => cmd.state = 0

\* It finds the start of frame, the option and the data, and the FCS matches.
LEMMA FoundIs ==
  ASSUME NEW b \in Seq(Nat), NEW cmd \in Commands, b = Bytes(cmd),
         buffer \in Seq(Nat), NEW e \in Nat, e = Len(b), Begun(b, e), byteRead = e
  PROVE  Found(b, cmd)
<1>1. IsCommand(b, cmd)
  BY CommandIs
<1>2. /\ b[1] = MT_RPC_SOF /\ b[3] = cmd.option
      /\ \/ cmd.option \in SetOptions /\ e = 6 /\ b[2] = 1 /\ b[5] = cmd.state
         \/ cmd.option \notin SetOptions /\ e = 5 /\ b[2] = 0 /\ cmd.state = 0
  BY <1>1, Zenon DEF IsCommand
<1>3. \A i \in 0 .. e - 1 : Byte(i) = b[i + 1]
  BY DEF Byte, Begun
<1>4. Byte(e) = 0
  BY DEF Byte, Begun
<1>5. e - 1 >= 4
  BY <1>2
<1>6. Byte(0) = b[1] /\ Byte(1) = b[2] /\ Byte(2) = b[3] /\ Byte(4) = b[5]
  <2>1. 0 \in 0 .. e - 1 /\ 1 \in 0 .. e - 1 /\ 2 \in 0 .. e - 1 /\ 4 \in 0 .. e - 1
    BY <1>5
  <2>2. Byte(0) = b[0 + 1] /\ Byte(1) = b[1 + 1] /\ Byte(2) = b[2 + 1] /\ Byte(4) = b[4 + 1]
    BY <1>3, <2>1
  <2> QED
    BY <2>2
<1>7. FcsMatches(byteRead)
  <2>1. XorOf([i \in 1 .. e - 1 |-> b[i + 1]]) = 0
    BY <1>1, Zenon DEF IsCommand
  <2>2. \A i \in 1 .. e - 1 : Byte(i) = b[i + 1]
    BY <1>3
  <2>3. [i \in 1 .. e - 1 |-> Byte(i)] = [i \in 1 .. e - 1 |-> b[i + 1]]
    BY <2>2
  <2>4. XorOf([i \in 1 .. e - 1 |-> Byte(i)]) = Byte(e)
    BY <1>4, <2>1, <2>3, Zenon
  <2> QED
    BY <2>4, Zenon DEF FcsMatches
<1>8. cmd.option \in SetOptions => Data = cmd.state
  BY <1>2, <1>6 DEF Data
<1>9. cmd.option \notin SetOptions => cmd.state = 0
  BY <1>2
<1> QED
  BY <1>2, <1>6, <1>7, <1>8, <1>9 DEF Found

\* A command is executed as it was sent, if there is a device for it.
LEMMA ExecutedIs ==
  ASSUME NEW b, NEW cmd \in Commands, Found(b, cmd), Socket_ProcessIncoming
  PROVE  done' = IF cmd \in Runs THEN Append(done, cmd) ELSE done
<1>1. cmd = [option |-> cmd.option, state |-> cmd.state]
  BY CmdAssumption
<1>2. cmd \in Runs <=> cmd.option \in SetOptions \cup GetOptions
  BY DEF Runs
<1>3. CASE cmd.option \in SetOptions
  <2>1. Data = cmd.state /\ cmd.option \notin GetOptions
    BY <1>3 DEF Found, SetOptions, GetOptions
  <2>2. done' = Append(done, [option |-> Byte(2), state |-> Data])
    BY <1>3, <2>1 DEF Socket_ProcessIncoming, Found, Execute
  <2> QED
    BY <1>1, <1>2, <1>3, <2>1, <2>2 DEF Found
<1>4. CASE cmd.option \in GetOptions
  <2>1. cmd.state = 0 /\ cmd.option \notin SetOptions
    BY <1>4 DEF Found, SetOptions, GetOptions
  <2>2. done' = Append(done, [option |-> Byte(2), state |-> 0])
    BY <1>4, <2>1 DEF Socket_ProcessIncoming, Found, Execute
  <2> QED
    BY <1>1, <1>2, <1>4, <2>1, <2>2 DEF Found
<1>5. CASE cmd.option \notin SetOptions \cup GetOptions
  BY <1>2, <1>5 DEF Socket_ProcessIncoming, Found, Execute
<1> QED
  BY <1>3, <1>4, <1>5

\* In the state before handling, the buffer holds the first command.
Ready(past, cs, on, at, j, b, cmd) ==
  /\ Placed(past, cs, on, at, j)
  /\ cmd \in Commands /\ cs # <<>> /\ cmd = Head(cs) /\ Len(cs) \in Nat /\ Len(cs) >= 1
  /\ buffer \in Seq(Nat) /\ rcv \in Seq(Nat) /\ b \in Seq(Nat) /\ b = Bytes(cmd)
  /\ at[1] = Len(b) /\ Len(b) >= 5 /\ Begun(b, Len(b)) /\ byteRead = Len(b)
  /\ Laid(buffer \o rcv, cs, at) /\ Len(buffer) = at[1]
  /\ j \in 1 .. Len(cs) /\ byteToRead = at[j] - at[1] /\ (hup => j = Len(cs))

\* That is so whenever Handle or HandleOverrun may run.
LEMMA ReadyIs ==
  ASSUME Whole, pc = "handle"
  PROVE  \E past, cs, on, at, j, b, cmd : Ready(past, cs, on, at, j, b, cmd)
<1>1. PICK past, cs, on, at, j : Placed(past, cs, on, at, j)
  BY DEF Whole
<1>2. /\ rcv \in Seq(Nat) /\ buffer \in Seq(Nat) /\ cs \in Seq(Commands)
      /\ Laid(buffer \o rcv, cs, at) /\ byteToRead = at[j] - at[1]
      /\ byteRead = at[1] /\ Len(buffer) = at[1]
      /\ Len(cs) \in Nat /\ j \in 1 .. Len(cs) /\ (hup => j = Len(cs))
  <2>1. Len(cs) \in Nat
    BY <1>1, LenProperties DEF Placed
  <2> QED
    BY <1>1, <2>1 DEF Whole, StreamTypes, Placed, Waiting, Reading
<1>3. PICK w \in Seq(Nat) : w = buffer \o rcv
  BY <1>2, ConcatProperties
<1>4. Len(cs) >= 1 /\ cs # <<>>
  BY <1>2, EmptySeq
<1>5. First(w, cs, at, Bytes(cs[1]))
  BY <1>2, <1>3, <1>4, FirstIs
<1>6. PICK cmd \in Commands : cmd = cs[1] /\ cmd = Head(cs)
  <2>1. cs[1] = Head(cs)
    BY <1>2, <1>4
  <2> QED
    BY <1>5, <2>1 DEF First
<1>7. PICK b \in Seq(Nat) : b = Bytes(cmd) /\ First(w, cs, at, b)
  BY <1>5, <1>6 DEF First
<1>8. PICK e \in Nat : e = Len(b) /\ at[1] = e /\ e >= 5 /\ (\A i \in 1 .. e : w[i] = b[i])
  <2>1. Len(b) \in Nat
    BY LenProperties
  <2> QED
    BY <1>7, <2>1 DEF First
<1>9. \A i \in 1 .. e : w[i] = buffer[i]
  <2>1. PICK l \in Nat : l = Len(rcv)
    BY <1>2, LenProperties
  <2>2. Len(buffer) = e
    BY <1>2, <1>8
  <2>3. Parts(w, buffer, rcv, e, l)
    BY <1>2, <1>3, <2>1, <2>2, PartsAre
  <2> QED
    BY <2>3 DEF Parts
<1>10. Begun(b, e)
  BY <1>2, <1>8, <1>9 DEF Begun
<1> QED
  BY <1>1, <1>2, <1>4, <1>6, <1>7, <1>8, <1>10 DEF Ready

\* CheckcalcFcs is never given an empty message.
LEMMA NoOverrun == ASSUME Whole PROVE ~HandleOverrun
<1>1. ASSUME HandleOverrun PROVE FALSE
  <2>1. PICK past, cs, on, at, j, b, cmd : Ready(past, cs, on, at, j, b, cmd)
    BY <1>1, ReadyIs DEF HandleOverrun
  <2>2. Len(b) >= 5 /\ byteRead = Len(b) /\ byteRead = 0
    BY <1>1, <2>1 DEF Ready, HandleOverrun
  <2> QED
    BY <2>2
<1> QED
  BY <1>1

\* The first command is handled, and the next one is now the first.
LEMMA WholeHandle == ASSUME Whole, Handle PROVE Whole'
<1>1. PICK past, cs, on, at, j, b, cmd : Ready(past, cs, on, at, j, b, cmd)
  BY ReadyIs DEF Handle
<1>2. /\ past \in Seq(Commands) /\ cs \in Seq(Commands) /\ on \in Seq(Commands)
      /\ cs # <<>> /\ cmd \in Commands /\ cmd = Head(cs)
      /\ sent = past \o cs \o on /\ done = Only(past, Runs)
  BY <1>1 DEF Ready, Placed
<1>3. Found(b, cmd)
  <2>1. PICK b0 \in Seq(Nat), e \in Nat : b0 = b /\ e = Len(b0)
    BY <1>1, LenProperties DEF Ready
  <2>2. b0 = Bytes(cmd) /\ buffer \in Seq(Nat) /\ Begun(b0, e) /\ byteRead = e
    BY <1>1, <2>1 DEF Ready
  <2>3. Found(b0, cmd)
    BY <1>2, <2>1, <2>2, FoundIs
  <2> QED
    BY <2>1, <2>3
<1>4. done' = IF cmd \in Runs THEN Append(done, cmd) ELSE done
  BY <1>2, <1>3, ExecutedIs DEF Handle
<1>5. PICK p \in Seq(Commands), c \in Seq(Commands) : p = Append(past, cmd) /\ c = Tail(cs)
  BY <1>2, AppendProperties, HeadTailProperties
<1>6. p \o c = past \o cs
  BY <1>2, <1>5, HeadGoesOver
<1>7. done' = Only(p, Runs)
  <2>1. PICK T : T = Runs
    OBVIOUS
  <2>2. Only(p, T) = IF cmd \in T THEN Append(Only(past, T), cmd) ELSE Only(past, T)
    <3>1. PICK s \in Seq(Commands), x \in Commands : s = past /\ x = cmd
      BY <1>2
    <3>2. PICK t : t = Append(s, x)
      OBVIOUS
    <3>3. Only(t, T) = IF x \in T THEN Append(Only(s, T), x) ELSE Only(s, T)
      BY <3>2, OnlyAppend
    <3> QED
      BY <1>5, <3>1, <3>2, <3>3
  <2> QED
    BY <1>2, <1>4, <2>1, <2>2
<1>8. PICK at2 : Laid(rcv, c, at2) /\ Shorter(at, at2, Len(cs) - 1, at[1])
  <2>1. PICK u \in Seq(Nat), v \in Seq(Nat) : u = buffer /\ v = rcv
    BY <1>1 DEF Ready
  <2>2. Laid(u \o v, cs, at) /\ Len(cs) >= 1 /\ Len(u) = at[1]
    BY <1>1, <2>1 DEF Ready
  <2>3. \E a2 : Laid(v, Tail(cs), a2) /\ Shorter(at, a2, Len(cs) - 1, at[1])
    BY <1>2, <2>2, LaidTail
  <2> QED
    BY <1>5, <2>1, <2>3
<1>9. PICK n \in Nat : n + 1 = Len(cs) /\ n = Len(c)
  <2>1. Len(cs) \in Nat /\ Len(cs) >= 1 /\ Len(c) = Len(cs) - 1
    BY <1>1, <1>2, <1>5, HeadTailProperties DEF Ready
  <2>2. Len(cs) - 1 \in Nat /\ (Len(cs) - 1) + 1 = Len(cs)
    BY <2>1
  <2> QED
    BY <2>1, <2>2
<1>10. /\ pc' = "header" /\ rcv' = rcv /\ buffer' = buffer /\ hup' = hup
       /\ byteToRead' = byteToRead /\ flight' = flight /\ sent' = sent /\ client' = client
  BY DEF Handle, netVars, modes
<1>11. StreamTypes'
  BY <1>10 DEF Whole, StreamTypes, Handle
<1>12. Reading(c, at2, j - 1)'
  <2>1. j \in 1 .. n + 1 /\ byteToRead = at[j] - at[1] /\ (hup => j = n + 1)
    BY <1>1, <1>9 DEF Ready
  <2>2. j - 1 \in 0 .. n /\ (j - 1) + 1 = j /\ (n + 1) - 1 = n
    BY <2>1
  <2>3. at2[j - 1] = at[j] - at[1]
    BY <1>8, <1>9, <2>2 DEF Shorter
  <2>4. hup => j - 1 = n
    BY <2>1
  <2> QED
    BY <1>9, <1>10, <2>1, <2>2, <2>3, <2>4 DEF Reading
<1>13. Laid(Waiting, c, at2)'
  BY <1>8, <1>10 DEF Waiting
<1>14. InFlight(on)'
  BY <1>1, <1>10 DEF Ready, Placed, InFlight
<1>15. Placed(p, c, on, at2, j - 1)'
  BY <1>2, <1>5, <1>6, <1>7, <1>10, <1>12, <1>13, <1>14 DEF Placed
<1> QED
  BY <1>11, <1>15 DEF Whole

\* An element behind q is behind p and q.
LEMMA AppendBehind ==
  ASSUME NEW S, NEW p \in Seq(S), NEW q \in Seq(S), NEW x \in S
  PROVE  p \o Append(q, x) = Append(p \o q, x)
<1>1. p \o q \in Seq(S)
  BY ConcatProperties
<1>2. /\ Append(q, x) = q \o <<x>> /\ Append(p \o q, x) = (p \o q) \o <<x>>
      /\ <<x>> \in Seq(S)
  BY <1>1, AppendIsConcat
<1> QED
  BY <1>2, ConcatAssociative

\* A command joins those on their way.
LEMMA WholeSendData == ASSUME Whole, SendData PROVE Whole'
<1>0. PICK past \in Seq(Commands), cs \in Seq(Commands), on \in Seq(Commands) :
        \E at, j : Placed(past, cs, on, at, j)
  BY DEF Whole, Placed
<1>1. PICK at, j : Placed(past, cs, on, at, j)
  BY <1>0
<1>2. PICK cmd \in Commands : sent' = Append(sent, cmd) /\ flight' = Append(flight, Bytes(cmd))
  BY DEF SendData
<1>3. PICK p \in Seq(Commands) : p = past \o cs
  BY <1>1, ConcatProperties DEF Placed
<1>4. PICK o \in Seq(Commands) : o = Append(on, cmd)
  BY <1>1, AppendProperties DEF Placed
<1>5. on \in Seq(Commands) /\ sent = p \o on /\ sent \in Seq(Commands)
  BY <1>1, <1>3 DEF Placed, Whole, StreamTypes
<1>6. sent' = p \o o
  <2>1. p \o Append(on, cmd) = Append(p \o on, cmd)
    BY AppendBehind
  <2> QED
    BY <1>2, <1>4, <1>5, <2>1
<1>7. /\ pc' = pc /\ hup' = hup /\ byteToRead' = byteToRead /\ byteRead' = byteRead
      /\ buffer' = buffer /\ done' = done /\ rcv' = rcv /\ client' = client /\ client = "open"
  BY DEF SendData, serverVars, modes
<1>8. PICK f \in Seq(Seq(Nat)), b \in Seq(Nat) : f = flight /\ b = Bytes(cmd)
  BY CommandIs DEF IsCommand, Whole, StreamTypes
<1>9. PICK g \in Seq(Seq(Nat)) : g = Append(f, b) /\ g = flight'
  BY <1>2, <1>8, AppendProperties
<1>10. StreamTypes'
  <2>1. sent' \in Seq(Commands)
    BY <1>2, <1>5, AppendProperties
  <2> QED
    BY <1>7, <1>9, <2>1 DEF Whole, StreamTypes
<1>11. InFlight(o)'
  <2>1. PICK n \in Nat : n = Len(on) /\ n = Len(f)
    BY <1>1, <1>8, LenProperties DEF Placed, InFlight
  <2>2. Len(g) = n + 1 /\ g[n + 1] = b /\ \A i \in 1 .. n : g[i] = f[i]
    <3>1. PICK h \in Seq(Seq(Nat)) : h = Append(f, b)
      BY AppendProperties
    <3>2. Len(h) = Len(f) + 1 /\ h[Len(f) + 1] = b /\ \A i \in 1 .. Len(f) : h[i] = f[i]
      BY <3>1, AppendProperties
    <3> QED
      BY <1>9, <2>1, <3>1, <3>2, Zenon
  <2>3. Len(o) = n + 1 /\ o[n + 1] = cmd /\ \A i \in 1 .. n : o[i] = on[i]
    <3>1. Len(o) = Len(on) + 1 /\ o[Len(on) + 1] = cmd /\ \A i \in 1 .. Len(on) : o[i] = on[i]
      BY <1>4, AppendProperties
    <3> QED
      BY <2>1, <3>1, Zenon
  <2>4. \A i \in 1 .. n : f[i] = Bytes(on[i])
    BY <1>1, <1>8, <2>1 DEF Placed, InFlight
  <2>5. ASSUME NEW i \in 1 .. n + 1 PROVE g[i] = Bytes(o[i])
    <3>1. CASE i \in 1 .. n
      BY <2>2, <2>3, <2>4, <3>1
    <3>2. CASE i = n + 1
      BY <1>8, <2>2, <2>3, <3>2
    <3> QED
      BY <3>1, <3>2
  <2> QED
    BY <1>9, <2>2, <2>3, <2>5 DEF InFlight
<1>12. Laid(Waiting, cs, at)' /\ Reading(cs, at, j)'
  BY <1>1, <1>7 DEF Placed, Waiting, Reading
<1>13. pc' # "closed"
  BY <1>7 DEF Whole, StreamTypes
<1>14. Placed(past, cs, o, at, j)'
  BY <1>1, <1>3, <1>4, <1>6, <1>7, <1>11, <1>12, <1>13 DEF Placed
<1> QED
  BY <1>10, <1>14 DEF Whole

\* The steps that only move the client's connection on.
LEMMA WholeClient == ASSUME Whole, Close \/ FinArrives PROVE Whole'
<1>1. PICK past, cs, on, at, j : Placed(past, cs, on, at, j)
  BY DEF Whole
<1>2. /\ pc' = pc /\ hup' = hup /\ byteToRead' = byteToRead /\ byteRead' = byteRead
      /\ buffer' = buffer /\ done' = done /\ rcv' = rcv /\ flight' = flight /\ sent' = sent
  BY DEF Close, FinArrives, serverVars, modes
<1>3. StreamTypes'
  BY <1>2 DEF Whole, StreamTypes, Close, FinArrives
<1>4. Placed(past, cs, on, at, j)'
  BY <1>1, <1>2 DEF Placed, Waiting, Reading, InFlight
<1> QED
  BY <1>3, <1>4 DEF Whole

\* A whole command arrives behind the others, also while one is being read.
LEMMA WholeArrive == ASSUME Whole, ~splits, Arrive PROVE Whole'
<1>0. PICK past \in Seq(Commands), cs \in Seq(Commands), on \in Seq(Commands) :
        \E at, j : Placed(past, cs, on, at, j)
  BY DEF Whole, Placed
<1>1. PICK at, j : Placed(past, cs, on, at, j)
  BY <1>0
<1>2. /\ past \in Seq(Commands) /\ cs \in Seq(Commands) /\ on \in Seq(Commands)
      /\ sent = past \o cs \o on /\ Len(flight) = Len(on)
      /\ \A i \in 1 .. Len(on) : flight[i] = Bytes(on[i])
      /\ flight \in Seq(Seq(Nat)) /\ rcv \in Seq(Nat) /\ buffer \in Seq(Nat)
      /\ flight # <<>> /\ ~hup /\ pc # "closed"
  BY <1>1 DEF Placed, InFlight, Whole, StreamTypes, Arrive
<1>3. PICK n \in Nat : n = Len(on) /\ n = Len(flight) /\ n >= 1
  <2>1. Len(flight) \in Nat /\ Len(flight) # 0
    BY <1>2, EmptyIs, LenProperties
  <2> QED
    BY <1>2, <2>1
<1>4. on # <<>>
  <2>1. Len(<<>>) = 0 /\ Len(on) # 0
    BY <1>3
  <2> QED
    BY <2>1
<1>5. PICK cmd \in Commands, o \in Seq(Commands) : cmd = Head(on) /\ o = Tail(on)
  BY <1>2, <1>4, HeadTailProperties
<1>6. PICK b \in Seq(Nat), f \in Seq(Seq(Nat)) : b = Head(flight) /\ f = Tail(flight)
  BY <1>2, HeadTailProperties
<1>7. b = Bytes(cmd)
  <2>1. Head(on) = on[1] /\ Head(flight) = flight[1] /\ 1 \in 1 .. n
    BY <1>2, <1>3
  <2> QED
    BY <1>2, <1>3, <1>5, <1>6, <2>1
<1>8. rcv' = rcv \o b /\ flight' = f
  <2>1. PICK k \in 1 .. Len(b) : /\ splits \/ k = Len(b)
                                 /\ rcv' = rcv \o SubSeq(b, 1, k)
                                 /\ flight' = IF k = Len(b) THEN Tail(flight)
                                              ELSE <<SubSeq(b, k + 1, Len(b))>> \o Tail(flight)
    BY <1>6 DEF Arrive
  <2>2. SubSeq(b, 1, Len(b)) = b
    BY SubSeqFull
  <2> QED
    BY <1>6, <2>1, <2>2, Zenon
<1>9. /\ pc' = pc /\ hup' = hup /\ byteToRead' = byteToRead /\ byteRead' = byteRead
      /\ buffer' = buffer /\ done' = done /\ sent' = sent /\ client' = client
  BY DEF Arrive, serverVars, modes
<1>10. StreamTypes'
  <2>1. rcv' \in Seq(Nat)
    BY <1>2, <1>8, ConcatProperties
  <2>2. client # "fin"
    BY <1>2 DEF Whole, StreamTypes
  <2> QED
    BY <1>6, <1>8, <1>9, <2>1, <2>2 DEF Whole, StreamTypes
<1>11. PICK w \in Seq(Nat) : w = Waiting /\ w \o b = Waiting'
  <2>1. CASE pc \in {"rest", "handle"}
    <3>1. Waiting = buffer \o rcv /\ Waiting' = buffer \o (rcv \o b)
      BY <1>8, <1>9, <2>1 DEF Waiting
    <3>2. (buffer \o rcv) \o b = buffer \o (rcv \o b)
      BY <1>2, BytesRegroup
    <3>3. buffer \o rcv \in Seq(Nat)
      BY <1>2, ConcatProperties
    <3> QED
      BY <3>1, <3>2, <3>3
  <2>2. CASE pc \notin {"rest", "handle"}
    BY <1>2, <1>8, <1>9, <2>2 DEF Waiting
  <2> QED
    BY <2>1, <2>2
<1>12. PICK c \in Seq(Commands) : c = Append(cs, cmd)
  BY <1>2, AppendProperties
<1>13. PICK at2 : Laid(w \o b, c, at2) /\ Longer(at, at2, Len(cs))
  <2>1. Laid(w, cs, at)
    BY <1>1, <1>11 DEF Placed
  <2>2. \E a2 : Laid(w \o Bytes(cmd), Append(cs, cmd), a2) /\ Longer(at, a2, Len(cs))
    BY <1>2, <2>1, LaidAppend
  <2> QED
    BY <1>7, <1>12, <2>2
<1>14. sent = past \o c \o o
  <2>1. PICK p \in Seq(Commands) : p = past \o cs
    BY <1>2, ConcatProperties
  <2>2. Append(p, cmd) \o o = p \o on
    <3>1. Append(p, Head(on)) \o Tail(on) = p \o on
      BY <1>4, HeadGoesOver
    <3> QED
      BY <1>5, <3>1, Zenon
  <2>3. past \o c = Append(p, cmd)
    <3>1. past \o Append(cs, cmd) = Append(past \o cs, cmd)
      BY AppendBehind
    <3> QED
      BY <1>12, <2>1, <3>1
  <2> QED
    BY <1>2, <2>1, <2>2, <2>3
<1>15. InFlight(o)'
  <2>1. /\ Len(f) = n - 1 /\ Len(o) = n - 1
        /\ \A i \in 1 .. n - 1 : f[i] = flight[i + 1] /\ o[i] = on[i + 1]
    <3>1. Len(f) = n - 1 /\ Len(o) = n - 1
      BY <1>2, <1>3, <1>4, <1>5, <1>6, HeadTailProperties
    <3>2. (\A i \in 1 .. Len(f) : f[i] = flight[i + 1]) /\ (\A i \in 1 .. Len(o) : o[i] = on[i + 1])
      BY <1>2, <1>4, <1>5, <1>6, HeadTailProperties
    <3> QED
      BY <3>1, <3>2
  <2>2. ASSUME NEW i \in 1 .. n - 1 PROVE f[i] = Bytes(o[i])
    <3>1. i + 1 \in 1 .. n
      BY <1>3
    <3> QED
      BY <1>2, <1>3, <2>1, <3>1
  <2> QED
    BY <1>8, <2>1, <2>2 DEF InFlight
<1>16. Reading(c, at2, j)'
  <2>1. PICK l \in Nat : l = Len(cs)
    BY <1>2, LenProperties
  <2>2. Len(c) = l + 1
    BY <1>2, <1>12, <2>1, AppendProperties
  <2>3. j \in 0 .. l /\ (pc \in {"rest", "handle"} => j >= 1)
    BY <1>1, <2>1 DEF Placed, Reading
  <2>4. at2[j] = at[j] /\ (j >= 1 => at2[1] = at[1]) /\ j \in 0 .. l + 1
    BY <1>13, <2>1, <2>3 DEF Longer
  <2> QED
    BY <1>1, <1>2, <1>9, <2>1, <2>2, <2>3, <2>4, Zenon DEF Placed, Reading
<1>17. Placed(past, c, o, at2, j)'
  BY <1>1, <1>2, <1>9, <1>11, <1>13, <1>14, <1>15, <1>16 DEF Placed
<1> QED
  BY <1>10, <1>17 DEF Whole

\* Nothing changes.
LEMMA WholeStutters == ASSUME Whole, UNCHANGED cmdVars PROVE Whole'
<1>1. PICK past, cs, on, at, j : Placed(past, cs, on, at, j)
  BY DEF Whole
<1>2. StreamTypes'
  BY DEF Whole, StreamTypes, cmdVars, netVars, modes
<1>3. Placed(past, cs, on, at, j)'
  BY <1>1 DEF Placed, Waiting, Reading, InFlight, cmdVars, netVars, modes
<1> QED
  BY <1>2, <1>3 DEF Whole

\* When commands arrive whole, the bytes in the socket and in the buffer are
\* always whole commands, in the order they were sent, and what FIONREAD said,
\* less what was read, ends at the end of one of them: the reader of
\* Socket_ProcessIncoming is never in the middle of a command when it looks for
\* the start of one.
THEOREM StreamInvariant == CmdSpec => []StreamInv
<1>1. CmdInit => StreamInv
  <2>1. CmdInit => splits \in BOOLEAN
    BY CmdAssumption DEF CmdInit
  <2> QED
    BY <2>1, WholeInit DEF StreamInv
<1>2. StreamInv /\ [CmdNext]_cmdVars => StreamInv'
  <2> SUFFICES ASSUME StreamInv, [CmdNext]_cmdVars PROVE StreamInv'
    OBVIOUS
  <2>1. splits' = splits
    BY DEF CmdNext, ServerStep, PollReturns, Ioctl, AllRead, ReadHeader, ReadRest, Handle,
           HandleOverrun, SendData, Close, Arrive, FinArrives, cmdVars, netVars, modes
  <2>2. ASSUME ~splits PROVE Whole'
    <3> Whole
      BY <2>2 DEF StreamInv
    <3>1. CASE PollReturns \/ Ioctl \/ AllRead
      BY <3>1, WholePoll, WholeIoctl, WholeAllRead
    <3>2. CASE ReadHeader \/ ReadRest
      BY <3>2, WholeReadHeader, WholeReadRest
    <3>3. CASE Handle
      BY <3>3, WholeHandle
    <3>4. CASE HandleOverrun
      BY <3>4, NoOverrun
    <3>5. CASE SendData
      BY <3>5, WholeSendData
    <3>6. CASE Close \/ FinArrives
      BY <3>6, WholeClient
    <3>7. CASE Arrive
      BY <2>2, <3>7, WholeArrive
    <3>8. CASE UNCHANGED cmdVars
      BY <3>8, WholeStutters
    <3> QED
      BY <3>1, <3>2, <3>3, <3>4, <3>5, <3>6, <3>7, <3>8 DEF CmdNext, ServerStep
  <2> QED
    BY <2>1, <2>2 DEF StreamInv
<1> QED
  BY <1>1, <1>2, PTL DEF CmdSpec

\* What is executed of the commands all is what is of p, then what is of q.
RunsOf(all, p, q) == Only(all, Runs) = Only(p, Runs) \o Only(q, Runs)

\* Commands are executed or not one by one.
LEMMA RunsConcat ==
  ASSUME NEW p \in Seq(Commands), NEW q \in Seq(Commands)
  PROVE  RunsOf(p \o q, p, q)
<1>1. PICK T : T = Runs
  OBVIOUS
<1>2. Only(p \o q, T) = Only(p, T) \o Only(q, T)
  BY OnlyConcat
<1> QED
  BY <1>1, <1>2 DEF RunsOf

\* What is executed is a prefix of what there is to execute.
LEMMA ExecutedIsPrefix == ASSUME StreamInv PROVE ExecutedAsSent
<1>1. ASSUME ~splits PROVE IsPrefix(done, Executable) /\ (pc = "closed" => done = Executable)
  <2>1. Whole
    BY <1>1 DEF StreamInv
  <2>2. PICK past \in Seq(Commands), cs \in Seq(Commands), on \in Seq(Commands) :
          \E at, j : Placed(past, cs, on, at, j)
    BY <2>1 DEF Whole, Placed
  <2>3. /\ past \in Seq(Commands) /\ cs \in Seq(Commands) /\ on \in Seq(Commands)
        /\ sent = past \o cs \o on /\ done = Only(past, Runs)
        /\ pc = "closed" => cs = <<>> /\ on = <<>>
    BY <2>2 DEF Placed
  <2>4. PICK r \in Seq(Commands) : r = cs \o on
    BY <2>3, ConcatProperties
  <2>5. sent = past \o r
    BY <2>3, <2>4, ConcatAssociative
  <2>6. PICK d \in Seq(Commands), e \in Seq(Commands) : d = done /\ e = Only(r, Runs)
    BY <2>3, <2>4, OnlyFacts
  <2>7. PICK x \in Seq(Commands) : x = Executable /\ x = d \o e
    <3>1. RunsOf(past \o r, past, r)
      BY RunsConcat
    <3>2. Executable = Only(past \o r, Runs)
      BY <2>5 DEF Executable, Runs
    <3>3. d \o e \in Seq(Commands)
      BY ConcatProperties
    <3> QED
      BY <2>3, <2>6, <3>1, <3>2, <3>3 DEF RunsOf
  <2>8. IsPrefix(d, x)
    <3>1. PICK m \in Nat, l \in Nat : m = Len(d) /\ l = Len(e)
      BY LenProperties
    <3>2. Len(x) = m + l /\ m <= m + l
      BY <2>7, <3>1, ConcatProperties
    <3>3. SubSeq(x, 1, m) = d
      <4>1. /\ SubSeq(x, 1, m) \in Seq(Commands) /\ Len(SubSeq(x, 1, m)) = m
            /\ \A i \in 1 .. m : SubSeq(x, 1, m)[i] = x[i]
        <5>1. \A i \in 1 .. m : x[i] \in Commands
          BY <3>2, ElementOfSeq
        <5>2. /\ SubSeq(x, 1, m) \in Seq(Commands)
              /\ Len(SubSeq(x, 1, m)) = IF 1 <= m THEN m - 1 + 1 ELSE 0
              /\ \A i \in 1 .. m - 1 + 1 : SubSeq(x, 1, m)[i] = x[1 + i - 1]
          BY <5>1, SubSeqProperties
        <5> QED
          BY <5>2
      <4>2. \A i \in 1 .. m : x[i] = d[i]
        <5>1. Parts(x, d, e, m, l)
          BY <2>7, <3>1, PartsAre
        <5> QED
          BY <5>1 DEF Parts
      <4> QED
        BY <3>1, <4>1, <4>2, SeqEqual
    <3>4. SubSeq(d, 1, m) = d
      BY <3>1, SubSeqFull
    <3> QED
      BY <3>1, <3>2, <3>3, <3>4 DEF IsPrefix
  <2>9. ASSUME pc = "closed" PROVE d = x
    <3>1. r = <<>>
      BY <2>3, <2>4, <2>9, ConcatEmptySeq, EmptySeq
    <3>2. past \o r = past
      BY <2>3, <3>1, ConcatEmptySeq
    <3> QED
      BY <2>3, <2>5, <2>6, <2>7, <3>2 DEF Executable, Runs
  <2> QED
    BY <2>6, <2>7, <2>8, <2>9
<1> QED
  BY <1>1 DEF ExecutedAsSent

\* When commands arrive whole, whatever they are and however many pile up, what
\* the gateway hands to write() is the commands the client sent, in order and with
\* their states, none left out before another, and the connection is closed only
\* after the last.
THEOREM CommandsExecutedAsSent == CmdSpec => []ExecutedAsSent
  BY StreamInvariant, ExecutedIsPrefix, PTL
=============================================================================
