------------------------------ MODULE SerialRpc ------------------------------
(***************************************************************************)
(* zbSocProcessRpc (zbSocCmd.c): one frame is taken from the serial port   *)
(* and its first six bytes are broadcast.  The port is read without        *)
(* blocking while the SoC is still sending.  Where a read that finds       *)
(* nothing fails, it is tried again a few times and then the frame is      *)
(* given up; where it returns 0, as with the VMIN = VTIME = 0 that         *)
(* zbSocUartConfig sets, it is tried again without end.                    *)
(*                                                                         *)
(* A frame is SOF, length, cmd0, cmd1, data, FCS.  A byte is modelled as   *)
(* its place (the frame and the position in it) and its value.  Module     *)
(* Gateway takes a frame as a unit; this module is what is under its       *)
(* actions ServeNoise and TakeFrame.                                       *)
(***************************************************************************)
EXTENDS Integers, Sequences, FiniteSets

CONSTANTS
  ByteMod,     \* values of a uint8_t: 256, less in small instances
  Lengths,     \* data lengths of the SoC's frames
  DataValues,  \* values of the bytes behind the length
  EmptyReads,  \* what read() may return when nothing has come: -1 (EAGAIN), 0
  MallocFails, \* whether malloc() may fail
  MaxFrames,   \* bound: frames in a run
  MaxLost      \* bound: bytes lost on the line in a run

\* an MT frame has at most 250 bytes of data
ASSUME ConstAssumption ==
  /\ ByteMod \in Nat /\ ByteMod > 5
  /\ Lengths \subseteq 0 .. ByteMod - 6
  /\ DataValues \subseteq 0 .. ByteMod - 1
  /\ EmptyReads \subseteq {-1, 0}
  /\ MallocFails \in BOOLEAN
  /\ MaxFrames \in Nat /\ MaxLost \in Nat

MT_RPC_SOF == ByteMod - 2     \* 0xFE
MaxRetries == 5
SentBytes == 6                \* whatever the length of the frame

VARIABLES
  emptyRead,      \* what read() returns when nothing has come, on this system
  pc,             \* "poll", "len", "body", "send"; "print": it prints without end
  line,           \* kernel: bytes received and not yet read
  soc,            \* bytes of the SoC's frame that are still to come
  frames,         \* number of frames the SoC has begun
  rpcLen,         \* bytes of the body still to be read (uint8_t)
  rpcBuff,        \* the buffer, as far as it is filled
  retryAttempts,  \* static: reads of this frame that found nothing
  sent,           \* history: broadcasts
  lost            \* history: for each byte lost, the frame it was of

vars == <<emptyRead, pc, line, soc, frames, rpcLen, rpcBuff, retryAttempts, sent, lost>>

Frame(n, len, d) ==
  [i \in 1 .. len + 5 |->
     [frame |-> n, pos |-> i,
      val |-> IF i = 1 THEN MT_RPC_SOF ELSE IF i = 2 THEN len ELSE d]]

Uint8(n) == n % ByteMod

Init ==
  /\ emptyRead \in EmptyReads
  /\ pc = "poll" /\ line = <<>> /\ soc = <<>> /\ frames = 0
  /\ rpcLen = 0 /\ rpcBuff = <<>> /\ retryAttempts = 0 /\ sent = <<>> /\ lost = <<>>

-----------------------------------------------------------------------------
(* The gateway.                                                            *)

\* Mutant of ReadSof: every byte is a start of frame.
ReadAnyStart ==
  /\ pc = "poll" /\ line # <<>>
  /\ line' = Tail(line)
  /\ pc' = "len" /\ retryAttempts' = 0 /\ rpcBuff' = <<Head(line)>>
  /\ UNCHANGED <<emptyRead, soc, frames, lost, rpcLen, sent>>

\* A byte that is no start of frame is dropped.  (The result of this read is not
\* looked at, as poll() has reported the port.  If what it reported was a hang-up
\* and no byte, sofByte keeps whatever it was; that is left out.)
ReadSof ==
  /\ pc = "poll" /\ line # <<>>
  /\ line' = Tail(line)
  /\ IF Head(line).val = MT_RPC_SOF
       THEN pc' = "len" /\ retryAttempts' = 0 /\ rpcBuff' = <<Head(line)>>
       ELSE UNCHANGED <<emptyRead, pc, retryAttempts, rpcBuff>>
  /\ UNCHANGED <<emptyRead, soc, frames, lost, rpcLen, sent>>

\* The length has not come: the frame is left, its start is gone.
NoLength ==
  /\ pc = "len" /\ line = <<>>
  /\ pc' = "poll"
  /\ UNCHANGED <<emptyRead, line, soc, frames, lost, rpcLen, rpcBuff, retryAttempts, sent>>

\* Mutant of ReadLength: the start and the length are counted, too.
ReadLengthWhole ==
  /\ pc = "len" /\ line # <<>>
  /\ line' = Tail(line)
  /\ rpcLen' = Uint8(Head(line).val + 5)
  /\ rpcBuff' = Append(rpcBuff, Head(line))
  /\ \/ pc' = IF rpcLen' = 0 THEN "send" ELSE "body"
     \/ MallocFails /\ pc' = "poll"
  /\ UNCHANGED <<emptyRead, soc, frames, lost, retryAttempts, sent>>

ReadLength ==
  /\ pc = "len" /\ line # <<>>
  /\ line' = Tail(line)
  /\ rpcLen' = Uint8(Head(line).val + 3)
  /\ rpcBuff' = Append(rpcBuff, Head(line))
  /\ \/ pc' = IF rpcLen' = 0 THEN "send" ELSE "body"
     \/ MallocFails /\ pc' = "poll"
  /\ UNCHANGED <<emptyRead, soc, frames, lost, retryAttempts, sent>>

\* Mutant of ReadBody: the read takes whatever is there.
ReadAll ==
  /\ pc = "body" /\ line # <<>>
  /\ line' = <<>>
  /\ rpcBuff' = rpcBuff \o line
  /\ rpcLen' = IF Len(line) < rpcLen THEN rpcLen - Len(line) ELSE 0
  /\ pc' = IF rpcLen' = 0 THEN "send" ELSE "body"
  /\ UNCHANGED <<emptyRead, soc, frames, lost, retryAttempts, sent>>

ReadBody ==
  /\ pc = "body" /\ line # <<>>
  /\ LET n == IF Len(line) < rpcLen THEN Len(line) ELSE rpcLen
     IN /\ line' = SubSeq(line, n + 1, Len(line))
        /\ rpcBuff' = rpcBuff \o SubSeq(line, 1, n)
        /\ rpcLen' = rpcLen - n
  /\ pc' = IF rpcLen' = 0 THEN "send" ELSE "body"
  /\ UNCHANGED <<emptyRead, soc, frames, lost, retryAttempts, sent>>

\* bytesRead is unsigned: -1 shows as a number greater than what was asked for
ReadFailed == Uint8(emptyRead) > rpcLen

\* Nothing has come.  An error is tried again, five times; 0 is no error, and
\* is tried again without end.  (-1 for a length of ByteMod - 1 would pass as
\* ByteMod - 1 bytes; no frame is so long.)
Retry ==
  /\ pc = "body" /\ line = <<>>
  /\ IF ReadFailed
       THEN /\ retryAttempts < MaxRetries
            /\ retryAttempts' = retryAttempts + 1
            /\ UNCHANGED <<emptyRead, pc, rpcLen>>
       ELSE /\ rpcLen' = rpcLen - Uint8(emptyRead)
            /\ pc' = IF rpcLen' = 0 THEN "send" ELSE "body"
            /\ UNCHANGED retryAttempts
  /\ UNCHANGED <<emptyRead, line, soc, frames, lost, rpcBuff, sent>>

\* Mutant of GiveUp: no retry is made, and what has come is not looked at.
GiveUpAtOnce ==
  /\ pc = "body"
  /\ ReadFailed
  /\ retryAttempts' = retryAttempts + 1
  /\ pc' = "poll"
  /\ UNCHANGED <<emptyRead, line, soc, frames, lost, rpcLen, rpcBuff, sent>>

GiveUp ==
  /\ pc = "body" /\ line = <<>>
  /\ ReadFailed
  /\ retryAttempts >= MaxRetries
  /\ retryAttempts' = retryAttempts + 1
  /\ pc' = "poll"
  /\ UNCHANGED <<emptyRead, line, soc, frames, lost, rpcLen, rpcBuff, sent>>

\* what is behind the bytes that were read
Junk == [frame |-> 0, pos |-> 0, val |-> 0]

\* The frame is broadcast and printed, cmd0 + 5 bytes of it, counted in a
\* uint8_t: from cmd0 = 251 on the counter never gets there.
Broadcast ==
  /\ pc = "send"
  /\ sent' = Append(sent, [i \in 1 .. SentBytes |->
               IF i <= Len(rpcBuff) THEN rpcBuff[i] ELSE Junk])
  /\ \E cmd0 \in IF Len(rpcBuff) >= 3 THEN {rpcBuff[3].val} ELSE 0 .. ByteMod - 1 :
       pc' = IF cmd0 + 5 < ByteMod THEN "poll" ELSE "print"
  /\ UNCHANGED <<emptyRead, line, soc, frames, lost, rpcLen, rpcBuff, retryAttempts>>

RpcStep == \/ ReadSof \/ NoLength \/ ReadLength \/ ReadBody \/ Retry \/ GiveUp
           \/ Broadcast

-----------------------------------------------------------------------------
(* The SoC.                                                                *)

BeginFrame ==
  /\ soc = <<>> /\ frames < MaxFrames
  /\ frames' = frames + 1
  /\ \E len \in Lengths, d \in DataValues : soc' = Frame(frames + 1, len, d)
  /\ UNCHANGED <<emptyRead, pc, line, rpcLen, rpcBuff, retryAttempts, sent, lost>>

ByteArrives ==
  /\ soc # <<>>
  /\ line' = Append(line, Head(soc))
  /\ soc' = Tail(soc)
  /\ UNCHANGED <<emptyRead, pc, frames, rpcLen, rpcBuff, retryAttempts, sent, lost>>

\* A byte is lost on the line: a UART has no acknowledgement.
ByteLost ==
  /\ soc # <<>> /\ Len(lost) < MaxLost
  /\ soc' = Tail(soc)
  /\ lost' = Append(lost, Head(soc).frame)
  /\ UNCHANGED <<emptyRead, pc, line, frames, rpcLen, rpcBuff, retryAttempts, sent>>

Next == RpcStep \/ BeginFrame \/ ByteArrives \/ ByteLost

\* The gateway is always scheduled.  Nothing is assumed of the SoC: it may stop
\* in the middle of a frame.
Spec == Init /\ [][Next]_vars /\ WF_vars(RpcStep)

-----------------------------------------------------------------------------
(* Properties.                                                             *)

Bytes == [frame : 0 .. MaxFrames, pos : 0 .. ByteMod, val : 0 .. ByteMod - 1]

\* Every variable keeps its type, and rpcBuff never outgrows what malloc() was
\* asked for: the body that is outstanding always fits behind what was read.
TypeOK ==
  /\ emptyRead \in {-1, 0}
  /\ pc \in {"poll", "len", "body", "send", "print"}
  /\ line \in Seq(Bytes) /\ soc \in Seq(Bytes) /\ rpcBuff \in Seq(Bytes)
  /\ frames \in 0 .. MaxFrames
  /\ rpcLen \in 0 .. ByteMod - 1
  /\ retryAttempts \in 0 .. MaxRetries + 1
  /\ sent \in Seq([1 .. SentBytes -> Bytes]) /\ lost \in Seq(1 .. MaxFrames)
  /\ pc \in {"body", "send"} => Len(rpcBuff) + rpcLen <= Uint8(rpcBuff[2].val + 3) + 2

Damaged(f) == \E i \in DOMAIN lost : lost[i] = f

\* A broadcast begins with a start of frame, and no frame is broadcast twice or
\* behind a later one: after a frame was given up at any byte, its rest is never
\* taken for a frame.  If the line lost nothing of it, all bytes are its own and
\* in place.  (For as long as no byte behind a length has the value of SOF.)
SentAreFrames ==
  /\ \A s \in DOMAIN sent : sent[s][1].frame > 0 /\ sent[s][1].pos = 1
  /\ \A s \in DOMAIN sent : \A i \in 1 .. SentBytes :
       sent[s][i] # Junk /\ ~Damaged(sent[s][1].frame)
       => sent[s][i].pos = i /\ sent[s][i].frame = sent[s][1].frame
  /\ \A s, t \in DOMAIN sent : s < t => sent[s][1].frame < sent[t][1].frame

Lost(f) == {i \in DOMAIN lost : lost[i] = f}

\* The bytes in the buffer that are of other frames than the first one is.
Overread == {i \in DOMAIN rpcBuff : rpcBuff[i].frame # rpcBuff[1].frame}

\* Nothing but a loss on the line makes zbSocProcessRpc read over the end of a
\* frame: what is read with a frame that came whole is its own, however its bytes
\* came between the reads.
OverreadsForLoss == Overread # {} => Damaged(rpcBuff[1].frame)

\* If the length was not among what was lost, no more bytes of later frames are
\* taken than are missing.  (If it was, cmd0 is read as the length, and takes as
\* many frames with it as that number of bytes covers.)
OverreadsNoMore ==
  /\ Len(rpcBuff) >= 2
  /\ rpcBuff[2].frame = rpcBuff[1].frame /\ rpcBuff[2].pos = 2
  => Cardinality(Overread) <= Cardinality(Lost(rpcBuff[1].frame))

OverreadsAsLost == OverreadsForLoss /\ OverreadsNoMore

\* A frame is only given up while the SoC has not finished sending it, or after
\* a byte of it was lost.
GivenUpIsUnfinished ==
  [][pc = "body" /\ pc' = "poll" /\ sent' = sent
     => \/ soc # <<>> /\ rpcBuff[1].frame = Head(soc).frame
        \/ Damaged(rpcBuff[1].frame)]_vars

\* If the SoC finishes every frame it begins, zbSocProcessRpc returns from each
\* that lost no byte, whatever an empty read is, unless it prints one with a
\* cmd0 that is too great.  (From one that lost a byte it need not: where an empty
\* read is 0 it waits until other frames have made up for it.)
RpcReturns ==
  []<>(soc = <<>>) =>
    (pc # "poll" ~> \/ pc = "poll"
                    \/ Damaged(rpcBuff[1].frame)
                    \/ pc = "print" /\ rpcBuff[3].val + 5 >= ByteMod)

\* "retryAttempts++ < 5", and then "something went wrong": a frame that is never
\* finished is left after some reads that found nothing.
StalledFrameIsLeft == pc = "body" ~> pc # "body"

=============================================================================
