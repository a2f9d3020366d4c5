----------------------------- MODULE ClientFrames -----------------------------
(***************************************************************************)
(* How the client library finds the gateway's broadcasts in its stream.    *)
(* zbSocProcessRpc sends the first six bytes of a frame, SOF, length, cmd0,*)
(* cmd1, ..., whatever the length; rxThreadFunc reads two of them and then *)
(* as many as the length asks for, plus three.  What becomes of a message  *)
(* then is in module SocketClient, where this is the choice between its    *)
(* inputs "msg", "badlen" and "part".                                      *)
(***************************************************************************)
EXTENDS Integers, Sequences, SequencesExt

CONSTANTS
  DataLengths,   \* lengths of the data of the SoC's frames
  Contents,      \* values of the bytes behind the length
  Splits,        \* whether TCP may deliver a broadcast in parts: a set of BOOLEAN
  MaxBroadcasts  \* bound: broadcasts in a run

ASSUME FramesAssumption ==
  /\ DataLengths \subseteq 0 .. 250 /\ Contents \subseteq 0 .. 255
  /\ Splits \subseteq BOOLEAN
  /\ MaxBroadcasts \in Nat

SOF == 254
BroadcastSize == 6
HeaderSize == 2        \* SRPC_FRAME_HDR_SZ

VARIABLES
  split,     \* this network's choice of Splits
  onWay,     \* network: broadcasts written and not delivered, in bytes
  sock,      \* kernel: bytes that can be read
  reading,   \* the header rxThreadFunc has read, <<>> while it polls
  asSent,    \* history: lengths of the broadcasts
  apart,     \* history: since the client had last read all there was, broadcasts
             \* have come whole, and none before the one before it was read
  queued     \* history: messages put into rxBuf, and apart at that time

framesVars == <<split, onWay, sock, reading, asSent, apart, queued>>

Broadcast6(n, len, v) ==
  [i \in 1 .. BroadcastSize |->
     [frame |-> n, pos |-> i, val |-> CASE i = 1 -> SOF [] i = 2 -> len [] OTHER -> v]]

FramesInit ==
  /\ split \in Splits
  /\ onWay = <<>> /\ sock = <<>> /\ reading = <<>>
  /\ asSent = <<>> /\ apart = TRUE /\ queued = <<>>

-----------------------------------------------------------------------------
(* The gateway and the network.                                            *)

SendBroadcast ==
  /\ Len(asSent) < MaxBroadcasts
  /\ \E len \in DataLengths, v \in Contents :
       /\ onWay' = onWay \o Broadcast6(Len(asSent) + 1, len, v)
       /\ asSent' = Append(asSent, len)
  /\ UNCHANGED <<split, sock, reading, apart, queued>>

Deliver ==
  /\ onWay # <<>>
  /\ \E n \in IF split THEN 1 .. BroadcastSize ELSE {BroadcastSize} :
       /\ n <= Len(onWay)
       /\ sock' = sock \o SubSeq(onWay, 1, n)
       /\ onWay' = SubSeq(onWay, n + 1, Len(onWay))
       /\ apart' = (apart /\ n = BroadcastSize /\ sock = <<>> /\ reading = <<>>)
  /\ UNCHANGED <<split, reading, asSent, queued>>

-----------------------------------------------------------------------------
(* rxThreadFunc.                                                           *)

Least(m, n) == IF m < n THEN m ELSE n

\* what is left when recv() has returned up to n bytes
Drop(n) == SubSeq(sock, Least(n, Len(sock)) + 1, Len(sock))

CaughtUp == sock' = <<>> /\ onWay = <<>> /\ reading' = <<>>

\* One byte is no header and is dropped ("Impossible. ... ;)").
RecvHeader ==
  /\ reading = <<>> /\ sock # <<>>
  /\ sock' = Drop(HeaderSize)
  /\ reading' = IF Len(sock) = 1 THEN <<>> ELSE SubSeq(sock, 1, HeaderSize)
  /\ apart' = (apart \/ CaughtUp)
  /\ UNCHANGED <<split, onWay, asSent, queued>>

\* Mutant of BodySize: the FCS is forgotten.
BodyNoFcs(len) == len + 2

\* what is read behind a header: cmd0, cmd1, data and FCS
BodySize(len) == len + 3

\* Behind the header, recv() waits for something to come; it returns what there
\* is, at most what was asked for.  With less, the message is dropped.  The copy
\* that is queued leaves out the last three bytes.
RecvBody ==
  LET len == reading[HeaderSize].val
      size == BodySize(len)
  IN /\ reading # <<>> /\ sock # <<>>
     /\ sock' = Drop(size)
     /\ queued' = IF Len(sock) < size THEN queued
                  ELSE Append(queued, [bytes |-> SubSeq(reading \o sock, 1, len + HeaderSize),
                                       apart |-> apart])
     /\ reading' = <<>>
     /\ apart' = (apart \/ CaughtUp)
     /\ UNCHANGED <<split, onWay, asSent>>

FramesNext == SendBroadcast \/ Deliver \/ RecvHeader \/ RecvBody

FramesSpec == FramesInit /\ [][FramesNext]_framesVars

-----------------------------------------------------------------------------
(* Property.                                                               *)

IsStart(msg) ==
  \A i \in DOMAIN msg : msg[i].frame = msg[1].frame /\ msg[i].pos = i

Unread(n) == \/ \E i \in DOMAIN sock : sock[i].frame = n
             \/ \E i \in DOMAIN onWay : onWay[i].frame = n

\* The client finds every broadcast, in order, while all are of one byte of
\* data and TCP splits none, however many wait to be read.  With other lengths or
\* split ones it loses its place; but whenever it has read all there was it has
\* found it again: what it queues until the next disorder is the start of one
\* broadcast, of at most one byte of data.
QueuedAreBroadcasts ==
  /\ ~split /\ Range(asSent) \subseteq {1} =>
       /\ \A i \in DOMAIN queued : IsStart(queued[i].bytes) /\ queued[i].bytes[1].frame = i
       /\ \A n \in DOMAIN asSent : n <= Len(queued) \/ Unread(n)
  /\ \A i \in DOMAIN queued : queued[i].apart =>
       IsStart(queued[i].bytes) /\ asSent[queued[i].bytes[1].frame] <= 1

=============================================================================
