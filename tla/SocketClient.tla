----------------------------- MODULE SocketClient -----------------------------
(***************************************************************************)
(* The receiving side of the client library, socket_client.c: the thread   *)
(* rxThreadFunc reads messages from the gateway's socket and hands them to *)
(* the thread handleThreadFunc through rxBuf, rxProcBuf, one mutex and one *)
(* condition variable.                                                     *)
(*                                                                         *)
(* Messages are numbered in the order they are received; a list of         *)
(* messages is the sequence of their numbers.  A pointer into a list that  *)
(* was freed keeps its sequence, and "freed" says which nodes are gone.    *)
(***************************************************************************)
EXTENDS Integers, Sequences, Functions

CONSTANTS
  Inputs,   \* what recv() may find on the socket, a subset of InputKinds
  MaxMsgs,  \* bound: messages received in a run
  MaxOther  \* bound: other inputs in a run

\* "msg"     a whole message
\* "badlen"  a header, then fewer bytes than its length field announces
\* "part"    one byte of a header
\* "end"     end of the stream or an error of recv()
\* "hup"     poll() reports neither POLLIN nor POLLPRI
\* "nomem"   a whole message, but malloc() fails
InputKinds == {"msg", "badlen", "part", "end", "hup", "nomem"}

ASSUME ConstAssumption ==
  /\ Inputs \subseteq InputKinds
  /\ MaxMsgs \in Nat /\ MaxOther \in Nat

VARIABLES
  rxPc,          \* reader: "poll", "count", "queue", "lock", "move", "signal", "exit"
  hPc,           \* handler: "lock", "wait", "waiting", "relock", "walk", "count",
                 \* "free"; "crash": it touched a node already freed
  mutex,         \* clientRxMutex: "free" or the thread that holds it
  rxBuf,         \* list the reader fills
  rxProcBuf,     \* list handed over; the pointer is never cleared
  walk,          \* the handler's searchList: the nodes it has still to visit
  freed,         \* nodes given back to malloc
  messageCount,  \* the shared counter
  rxTmp, hTmp,   \* the value each thread has loaded of it
  received,      \* history: messages read from the socket
  handled,       \* history: messages given to the callback, in order
  others,        \* history: inputs that were no message
  misused        \* history: the reader has unlocked the handler's mutex

rxVars == <<rxPc, rxBuf, rxTmp>>
hVars == <<hPc, walk, freed, hTmp, handled>>
vars == <<rxVars, hVars, mutex, rxProcBuf, messageCount, received, others, misused>>


Init ==
  /\ rxPc = "poll" /\ hPc = "lock"
  /\ mutex = "free"
  /\ rxBuf = <<>> /\ rxProcBuf = <<>> /\ walk = <<>>
  /\ freed = {}
  /\ messageCount = 0 /\ rxTmp = 0 /\ hTmp = 0
  /\ received = 0 /\ handled = <<>> /\ others = 0
  /\ misused = FALSE

-----------------------------------------------------------------------------
(* rxThreadFunc.                                                           *)

\* where the reader goes when an iteration read no message: rxBuf is looked at
AfterRead == IF rxBuf # <<>> THEN "lock" ELSE "poll"

RecvMessage ==
  /\ rxPc = "poll" /\ "msg" \in Inputs
  /\ received < MaxMsgs
  /\ received' = received + 1
  /\ rxPc' = "count"
  /\ UNCHANGED <<rxBuf, rxTmp, hVars, mutex, rxProcBuf, messageCount, others, misused>>

\* messageCount++ is a load and a store, outside the mutex
CountReceived ==
  /\ rxPc = "count"
  /\ rxTmp' = messageCount
  /\ rxPc' = "queue"
  /\ UNCHANGED <<rxBuf, hVars, mutex, rxProcBuf, messageCount, received, others, misused>>

QueueMessage ==
  /\ rxPc = "queue"
  /\ messageCount' = rxTmp + 1
  /\ rxBuf' = Append(rxBuf, received)
  /\ rxPc' = "lock"
  /\ UNCHANGED <<rxTmp, hVars, mutex, rxProcBuf, received, others, misused>>

OtherInput(kind) ==
  /\ rxPc = "poll" /\ kind \in Inputs
  /\ others < MaxOther
  /\ others' = others + 1
  /\ UNCHANGED <<rxBuf, rxTmp, hVars, rxProcBuf, messageCount, received>>

\* "Impossible. ... ;)": a header of another size is dropped
RecvPart ==
  /\ \E kind \in {"part", "hup"} : OtherInput(kind)
  /\ rxPc' = AfterRead
  /\ UNCHANGED <<mutex, misused>>

\* The length is wrong: the mutex is unlocked though the reader does not hold
\* it.  A normal mutex is then free, whoever held it.
RecvBadLength ==
  /\ \E kind \in {"badlen", "hup"} : OtherInput(kind)
  /\ mutex' = "free"
  /\ misused' = (misused \/ mutex # "free")
  /\ rxPc' = AfterRead

\* recv() returned 0 or less, or malloc() failed: the thread ends.  With "hup"
\* n was not assigned, so any of these three may follow.
RecvEnds ==
  /\ \E kind \in {"end", "nomem", "hup"} : OtherInput(kind)
  /\ rxPc' = "exit"
  /\ UNCHANGED <<mutex, misused>>

\* Mutant of RxLock: the reader does not wait for the mutex.
RxLockTried ==
  /\ rxPc = "lock"
  /\ mutex' = "rx"
  /\ rxPc' = "move"
  /\ UNCHANGED <<rxBuf, rxTmp, hVars, rxProcBuf, messageCount, received, others, misused>>

RxLock ==
  /\ rxPc = "lock" /\ mutex = "free"
  /\ mutex' = "rx"
  /\ rxPc' = "move"
  /\ UNCHANGED <<rxBuf, rxTmp, hVars, rxProcBuf, messageCount, received, others, misused>>

\* Mutant of MoveList: a list already handed over is kept.
MoveListOnce ==
  /\ rxPc = "move"
  /\ rxProcBuf' = IF rxProcBuf = <<>> THEN rxBuf ELSE rxProcBuf
  /\ rxBuf' = <<>>
  /\ mutex' = "free"
  /\ rxPc' = "signal"
  /\ UNCHANGED <<rxTmp, hVars, messageCount, received, others, misused>>

\* rxProcBuf is overwritten whether the handler has finished with it or not
MoveList ==
  /\ rxPc = "move"
  /\ rxProcBuf' = rxBuf
  /\ rxBuf' = <<>>
  /\ mutex' = "free"
  /\ rxPc' = "signal"
  /\ UNCHANGED <<rxTmp, hVars, messageCount, received, others, misused>>

\* pthread_cond_signal, after the mutex is released; without a waiter it is lost
Signal ==
  /\ rxPc = "signal"
  /\ hPc' = IF hPc = "waiting" THEN "relock" ELSE hPc
  /\ rxPc' = "poll"
  /\ UNCHANGED <<rxBuf, rxTmp, walk, freed, hTmp, handled, mutex, rxProcBuf,
                 messageCount, received, others, misused>>

RxStep == \/ CountReceived \/ QueueMessage \/ RxLock \/ MoveList \/ Signal
RxInput == RecvMessage \/ RecvPart \/ RecvBadLength \/ RecvEnds

-----------------------------------------------------------------------------
(* handleThreadFunc.                                                       *)

FirstLock ==
  /\ hPc = "lock" /\ mutex = "free"
  /\ mutex' = "handle"
  /\ hPc' = "wait"
  /\ UNCHANGED <<rxVars, walk, freed, hTmp, handled, rxProcBuf, messageCount, received, others, misused>>

\* Mutant of CondWait: the mutex is kept.
WaitWithMutex ==
  /\ hPc = "wait"
  /\ hPc' = "waiting"
  /\ UNCHANGED <<rxVars, walk, freed, hTmp, handled, mutex, rxProcBuf, messageCount,
                 received, others, misused>>

\* pthread_cond_wait gives the mutex up
CondWait ==
  /\ hPc = "wait"
  /\ mutex' = "free"
  /\ hPc' = "waiting"
  /\ UNCHANGED <<rxVars, walk, freed, hTmp, handled, rxProcBuf, messageCount, received, others, misused>>

\* and takes it again before it returns; the walk starts at rxProcBuf
Relock ==
  /\ hPc = "relock" /\ mutex = "free"
  /\ mutex' = "handle"
  /\ walk' = rxProcBuf
  /\ hPc' = "walk"
  /\ UNCHANGED <<rxVars, freed, hTmp, handled, rxProcBuf, messageCount, received, others, misused>>

\* Mutant of Callback: the message is cleared before the call.
CallbackCleared ==
  /\ hPc = "walk" /\ walk # <<>> /\ Head(walk) \notin freed
  /\ handled' = Append(handled, 0)
  /\ hPc' = "count"
  /\ UNCHANGED <<rxVars, walk, freed, hTmp, mutex, rxProcBuf, messageCount, received, others, misused>>

Callback ==
  /\ hPc = "walk" /\ walk # <<>> /\ Head(walk) \notin freed
  /\ handled' = Append(handled, Head(walk))
  /\ hPc' = "count"
  /\ UNCHANGED <<rxVars, walk, freed, hTmp, mutex, rxProcBuf, messageCount, received, others, misused>>

\* The node was freed before: what follows is undefined, nothing more is said
TouchFreed ==
  /\ hPc = "walk" /\ walk # <<>> /\ Head(walk) \in freed
  /\ hPc' = "crash"
  /\ UNCHANGED <<rxVars, walk, freed, hTmp, handled, mutex, rxProcBuf, messageCount,
                 received, others, misused>>

CountHandled ==
  /\ hPc = "count"
  /\ hTmp' = messageCount
  /\ hPc' = "free"
  /\ UNCHANGED <<rxVars, walk, freed, handled, mutex, rxProcBuf, messageCount, received, others, misused>>

\* Mutant of FreeNode: the node is not given back.
KeepNode ==
  /\ hPc = "free"
  /\ messageCount' = hTmp - 1
  /\ walk' = Tail(walk)
  /\ hPc' = "walk"
  /\ UNCHANGED <<rxVars, freed, hTmp, handled, mutex, rxProcBuf, received, others, misused>>

FreeNode ==
  /\ hPc = "free"
  /\ messageCount' = hTmp - 1
  /\ freed' = freed \cup {Head(walk)}
  /\ walk' = Tail(walk)
  /\ hPc' = "walk"
  /\ UNCHANGED <<rxVars, hTmp, handled, mutex, rxProcBuf, received, others, misused>>

WalkDone ==
  /\ hPc = "walk" /\ walk = <<>>
  /\ hPc' = "wait"
  /\ UNCHANGED <<rxVars, walk, freed, hTmp, handled, mutex, rxProcBuf, messageCount,
                 received, others, misused>>

HandleStep == \/ FirstLock \/ CondWait \/ Relock \/ Callback \/ TouchFreed
              \/ CountHandled \/ FreeNode \/ WalkDone

-----------------------------------------------------------------------------
\* After the crash nothing is specified, so nothing happens.
Next == hPc # "crash" /\ (RxInput \/ RxStep \/ HandleStep)

\* Both threads are scheduled and a free mutex is taken; nothing is assumed of
\* what arrives on the socket.
Fairness == WF_vars(hPc # "crash" /\ RxStep) /\ WF_vars(hPc # "crash" /\ HandleStep)
Spec == Init /\ [][Next]_vars /\ Fairness

-----------------------------------------------------------------------------
(* Properties.                                                             *)

\* Every variable keeps its type; every message in a list, in the callback's
\* history or freed is one that was received.
TypeOK ==
  /\ rxPc \in {"poll", "count", "queue", "lock", "move", "signal", "exit"}
  /\ hPc \in {"lock", "wait", "waiting", "relock", "walk", "count", "free", "crash"}
  /\ mutex \in {"free", "rx", "handle"}
  /\ received \in Nat /\ others \in Nat /\ misused \in BOOLEAN
  /\ rxBuf \in Seq(1 .. received) /\ rxProcBuf \in Seq(1 .. received)
  /\ walk \in Seq(1 .. received) /\ handled \in Seq(1 .. received)
  /\ freed \subseteq 1 .. received
  /\ messageCount \in Int /\ rxTmp \in Int /\ hTmp \in Int

HandlerInside == hPc \in {"wait", "walk", "count", "free"}

\* "Mutex to handle rx": the list is not replaced while the handler walks it,
\* unless a wrong length has made the reader unlock the handler's mutex.
ListExclusive == misused \/ ~(rxPc = "move" /\ HandlerInside)

\* Messages reach the callback in the order they were received and none twice,
\* though lists are overwritten, signals are lost and a wrong length unlocks
\* the mutex under the handler; a message can only be missing.
HandledInOrder ==
  \A i, j \in DOMAIN handled : i < j => handled[i] < handled[j]

\* The last message received is never lost: it is on its way into a list, or in
\* one the handler will still walk, or given to the callback.  (A walk
\* need not follow: a signal given before the handler waits is lost.)  Earlier
\* ones can be overwritten; none is freed before it was handled.
LastMessageKept ==
  received > 0 =>
    \/ rxPc \in {"count", "queue"}
    \/ received \in Range(rxBuf) \cup Range(handled)
    \/ received \in (Range(rxProcBuf) \cup Range(walk)) \ freed

\* The reader never stays blocked on the mutex.
ReaderGetsMutex == rxPc = "lock" ~> (rxPc # "lock" \/ hPc = "crash")

\* A buffer "already free" is called an "impossible error": the handler never
\* walks a list it has freed.
NeverWalksFreed == hPc # "crash"

=============================================================================
