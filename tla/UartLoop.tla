------------------------------ MODULE UartLoop ------------------------------
(***************************************************************************)
(* The program of Uart v1.0 (main.c): a SIGIO handler sets wait_flag, the  *)
(* loop looks at it every two seconds, reads byte by byte until nothing is *)
(* left, sends the bytes back one at a time, flushing the output queue     *)
(* after each, and clears wait_flag.                                       *)
(*                                                                         *)
(* Bytes are numbered in the order they arrive.  The driver raises SIGIO   *)
(* for what arrives once FASYNC is set; a signal that is pending already   *)
(* stays one signal, and the handler may run between any two steps.  With  *)
(* VMIN = VTIME = 0 a read() that finds nothing returns 0 at once.         *)
(***************************************************************************)
EXTENDS Integers, Sequences, SequencesExt

CONSTANTS
  BUFSIZE,   \* room in buff: 256, less in small instances
  MaxBytes   \* bound: bytes that arrive in a run

ASSUME LoopAssumption == BUFSIZE \in Nat \ {0} /\ MaxBytes \in Nat

VARIABLES
  loopPc,    \* "setup", "test", "read", "write", "flush", "clear"; "overrun"
  wait_flag,
  pending,   \* kernel: SIGIO is pending
  input,     \* kernel: bytes received and not yet read
  output,    \* kernel: bytes written and not yet sent
  buff,      \* the bytes read in this round, buff[0] .. buff[i-1]
  ret,       \* index of the byte to be sent back next
  arrived,   \* number of bytes that have arrived
  wire,      \* history: bytes sent, in order
  flushed,   \* history: bytes the flush discarded
  gap        \* history: bytes that came in the setup, or between the last
             \* read of a round and the clearing of wait_flag

deviceVars == <<output, wire, flushed>>
loopVars == <<loopPc, wait_flag, pending, input, deviceVars, buff, ret, arrived, gap>>

LoopInit ==
  /\ loopPc = "setup" /\ wait_flag = FALSE /\ pending = FALSE
  /\ input = <<>> /\ output = <<>> /\ buff = <<>> /\ ret = 0
  /\ arrived = 0 /\ wire = <<>> /\ flushed = {} /\ gap = {}

-----------------------------------------------------------------------------
(* main                                                                    *)

\* fcntl(FASYNC): the device was opened and configured, its input flushed
SetAsync ==
  /\ loopPc = "setup"
  /\ loopPc' = "test"
  /\ UNCHANGED <<wait_flag, pending, input, deviceVars, buff, ret, arrived, gap>>

TestFlag ==
  /\ loopPc = "test" /\ wait_flag
  /\ loopPc' = "read"
  /\ UNCHANGED <<wait_flag, pending, input, deviceVars, buff, ret, arrived, gap>>

\* Mutant of ReadByte: one byte is read for a signal.
ReadOneByte ==
  /\ loopPc = "read" /\ input # <<>>
  /\ input' = Tail(input)
  /\ buff' = Append(buff, Head(input))
  /\ loopPc' = "write"
  /\ UNCHANGED <<wait_flag, pending, deviceVars, ret, arrived, gap>>

\* No one looks whether buff has room.
ReadByte ==
  /\ loopPc = "read" /\ input # <<>>
  /\ input' = Tail(input)
  /\ buff' = Append(buff, Head(input))
  /\ loopPc' = IF Len(buff) < BUFSIZE THEN "read" ELSE "overrun"
  /\ UNCHANGED <<wait_flag, pending, deviceVars, ret, arrived, gap>>

\* read() finds nothing; buff[i] = '\0' needs room, too
ReadEmpty ==
  /\ loopPc = "read" /\ input = <<>>
  /\ loopPc' = IF Len(buff) = BUFSIZE THEN "overrun"
           ELSE IF buff = <<>> THEN "clear" ELSE "write"
  /\ UNCHANGED <<wait_flag, pending, input, deviceVars, buff, ret, arrived, gap>>

WriteByte ==
  /\ loopPc = "write" /\ ret < Len(buff)
  /\ output' = Append(output, buff[ret + 1])
  /\ loopPc' = "flush"
  /\ UNCHANGED <<wait_flag, pending, input, wire, flushed, buff, ret, arrived, gap>>

\* tcflush(TCOFLUSH)
FlushOutput ==
  /\ loopPc = "flush"
  /\ flushed' = flushed \cup Range(output) /\ output' = <<>>
  /\ ret' = ret + 1 /\ loopPc' = "write"
  /\ UNCHANGED <<wait_flag, pending, input, wire, buff, arrived, gap>>

\* Mutant of WriteDone: i is not reset.
WriteDoneKept ==
  /\ loopPc = "write" /\ ret = Len(buff)
  /\ ret' = 0 /\ loopPc' = "clear"
  /\ UNCHANGED <<wait_flag, pending, input, deviceVars, buff, arrived, gap>>

WriteDone ==
  /\ loopPc = "write" /\ ret = Len(buff)
  /\ buff' = <<>> /\ ret' = 0 /\ loopPc' = "clear"
  /\ UNCHANGED <<wait_flag, pending, input, deviceVars, arrived, gap>>

ClearFlag ==
  /\ loopPc = "clear"
  /\ wait_flag' = FALSE
  /\ loopPc' = "test"
  /\ UNCHANGED <<pending, input, deviceVars, buff, ret, arrived, gap>>

MainStep == \/ SetAsync \/ TestFlag \/ ReadByte \/ ReadEmpty
            \/ WriteByte \/ FlushOutput \/ WriteDone \/ ClearFlag

\* signal_handler_IO
Handler ==
  /\ pending /\ loopPc # "overrun"
  /\ pending' = FALSE /\ wait_flag' = TRUE
  /\ UNCHANGED <<loopPc, input, deviceVars, buff, ret, arrived, gap>>

-----------------------------------------------------------------------------
(* The device                                                              *)

ByteArrives ==
  /\ arrived < MaxBytes
  /\ arrived' = arrived + 1
  /\ input' = Append(input, arrived')
  /\ pending' = (pending \/ loopPc # "setup")
  /\ gap' = IF loopPc \in {"setup", "write", "flush", "clear"} THEN gap \cup {arrived'} ELSE gap
  /\ UNCHANGED <<loopPc, wait_flag, deviceVars, buff, ret>>

Transmit ==
  /\ output # <<>>
  /\ wire' = Append(wire, Head(output)) /\ output' = Tail(output)
  /\ UNCHANGED <<loopPc, wait_flag, pending, input, flushed, buff, ret, arrived, gap>>

LoopNext == MainStep \/ Handler \/ ByteArrives \/ Transmit

\* The process is scheduled and its signals delivered; the device does as it likes.
LoopSpec == LoopInit /\ [][LoopNext]_loopVars /\ WF_loopVars(MainStep) /\ WF_loopVars(Handler)

-----------------------------------------------------------------------------
(* A byte that arrives is read without another one having to come, however the *)
(* signal falls between the reads, the writes and the test of the flag; except *)
(* for bytes of the two gaps, whose signal is not raised or is cleared with    *)
(* those before it.  (Or buff overflows before.)                               *)
Waits(b) == \E i \in DOMAIN input : input[i] = b
OnlyGapStrands ==
  \A b \in 1 .. MaxBytes : (Waits(b) /\ b \notin gap) ~> (~Waits(b) \/ loopPc = "overrun")

(* What is sent back is what came, in order and nothing twice; a byte that was *)
(* read and is missing was discarded by a flush, or its round is not over.     *)
EchoedInOrder ==
  LET echoed == wire \o output
      known  == Range(echoed) \cup flushed \cup Range(buff) \cup Range(input)
  IN /\ \A i, j \in DOMAIN echoed : i < j => echoed[i] < echoed[j]
     /\ known = 1 .. arrived
=============================================================================
