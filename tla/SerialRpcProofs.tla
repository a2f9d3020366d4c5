---------------------------- MODULE SerialRpcProofs ----------------------------
(***************************************************************************)
(* Proofs about SerialRpc, for any lengths of frames, any number of frames *)
(* and any losses: the buffer is never outgrown, whatever bytes come; and  *)
(* while no byte behind a length is a start of frame, broadcasts are       *)
(* frames, in order, none is given up that has come whole, and only after  *)
(* a loss are bytes of other frames read with one.                         *)
(***************************************************************************)
EXTENDS SerialRpc, SequenceFacts, SequenceTheorems, TLAPS

\* Only the first byte of a frame looks like one.
SofIsStart == MT_RPC_SOF \notin DataValues

\* x was sent before y.
Precedes(x, y) == x.frame < y.frame \/ (x.frame = y.frame /\ x.pos < y.pos)

\* Byte i of w and all of its frame that comes behind it are there, in place.
Complete(w, i) ==
  \E n \in Lengths :
    /\ w[i].pos <= n + 5
    /\ i + (n + 5 - w[i].pos) <= Len(w)
    /\ \A k \in i .. i + (n + 5 - w[i].pos) :
         /\ w[k].frame = w[i].frame /\ w[k].pos = w[i].pos + (k - i)
         /\ w[k].pos = 2 => w[k].val = n

\* Bytes of frames 1 .. n as they were sent, after the losses l.
IsFlow(w, n, l) ==
  /\ \A i \in DOMAIN w : /\ w[i].frame \in 1 .. n /\ w[i].pos \in 1 .. ByteMod
                         /\ w[i].val = MT_RPC_SOF => w[i].pos = 1
  /\ \A i, j \in DOMAIN w : i < j => Precedes(w[i], w[j])
  /\ \A i \in DOMAIN w : (\E j \in DOMAIN l : l[j] = w[i].frame) \/ Complete(w, i)

\* What has been read of a frame, what waits to be read and what is still to come.
Begun == IF pc \in {"len", "body", "send"} THEN rpcBuff ELSE <<>>
Whole == Begun \o (line \o soc)

\* The buffer has a start, from the first read of the body on a length, too.
BufferInv ==
  /\ pc \in {"len", "body", "send"} => rpcBuff # <<>>
  /\ pc = "len" => Len(rpcBuff) = 1
  /\ pc \in {"body", "send"} => Len(rpcBuff) >= 2
  /\ pc = "body" => rpcLen > 0
  /\ pc \in {"len", "body", "send"} => retryAttempts <= MaxRetries

\* The SoC sends nothing but frames.
SocInv == \A i \in DOMAIN soc : soc[i].frame > 0

FlowInv ==
  /\ IsFlow(Whole, frames, lost)
  /\ Begun # <<>> => Begun[1].pos = 1
  /\ SentAreFrames
  /\ \A s \in DOMAIN sent : sent[s][1].frame <= frames
  /\ \A s \in DOMAIN sent : \A j \in DOMAIN Whole : Precedes(sent[s][1], Whole[j])

RpcInv == TypeOK /\ BufferInv /\ SocInv /\ (SofIsStart => FlowInv)

-----------------------------------------------------------------------------
(* Types, and the size of the buffer.                                      *)

\* A uint8_t.
LEMMA Uint8Facts ==
  /\ \A n \in Int : Uint8(n) \in 0 .. ByteMod - 1
  /\ \A n \in 0 .. ByteMod - 1 : Uint8(n) = n
BY ConstAssumption DEF Uint8

\* The numbers in a byte.
LEMMA BytesFacts ==
  /\ \A b \in Bytes : b.frame \in Nat /\ b.pos \in Nat /\ b.val \in 0 .. ByteMod - 1
  /\ Junk \in Bytes
  /\ ByteMod \in Nat /\ MaxFrames \in Nat
BY ConstAssumption DEF Bytes, Junk

\* The parts of the buffer's invariant that a step has to look at.
BufferOK ==
  /\ rpcBuff \in Seq(Bytes) /\ rpcLen \in 0 .. ByteMod - 1
  /\ pc \in {"body", "send"} => Len(rpcBuff) + rpcLen <= Uint8(rpcBuff[2].val + 3) + 2
  /\ BufferInv

\* A frame begins with its start.
LEMMA SofKeeps ==
  ASSUME TypeOK, BufferInv, ReadSof
  PROVE  BufferOK' /\ pc' \in {"poll", "len"} /\ line' \in Seq(Bytes)
         /\ retryAttempts' \in {0, retryAttempts}
<1>1. line \in Seq(Bytes) /\ rpcBuff \in Seq(Bytes) /\ line # <<>> /\ line' = Tail(line)
  BY DEF TypeOK, ReadSof
<1>2. Head(line) \in Bytes /\ Tail(line) \in Seq(Bytes)
  BY <1>1
<1>3. <<Head(line)>> \in Seq(Bytes) /\ Len(<<Head(line)>>) = 1 /\ <<Head(line)>> # <<>>
  BY <1>2
<1>4. pc = "poll" /\ rpcLen' = rpcLen
      /\ \/ pc' = "len" /\ retryAttempts' = 0 /\ rpcBuff' = <<Head(line)>>
         \/ UNCHANGED <<pc, retryAttempts, rpcBuff>>
  BY DEF ReadSof
<1>5. rpcBuff' \in Seq(Bytes) /\ rpcLen' \in 0 .. ByteMod - 1
  BY <1>1, <1>3, <1>4 DEF TypeOK
<1>6. BufferInv'
  BY <1>3, <1>4 DEF BufferInv, MaxRetries
<1> QED
  BY <1>1, <1>2, <1>4, <1>5, <1>6 DEF BufferOK

\* The length is put behind the start and says how much is read.
LEMMA LengthKeeps ==
  ASSUME TypeOK, BufferInv, ReadLength
  PROVE  BufferOK' /\ pc' \in {"poll", "body", "send"} /\ line' \in Seq(Bytes)
<1>1. /\ line \in Seq(Bytes) /\ rpcBuff \in Seq(Bytes) /\ line # <<>> /\ line' = Tail(line)
      /\ pc = "len" /\ Len(rpcBuff) = 1
      /\ rpcLen' = Uint8(Head(line).val + 3) /\ rpcBuff' = Append(rpcBuff, Head(line))
      /\ pc' = (IF rpcLen' = 0 THEN "send" ELSE "body") \/ pc' = "poll"
      /\ retryAttempts' = retryAttempts /\ retryAttempts <= MaxRetries
  BY DEF TypeOK, BufferInv, ReadLength
<1>2. Head(line) \in Bytes /\ Tail(line) \in Seq(Bytes) /\ Head(line).val + 3 \in Int
  <2>1. Head(line) \in Bytes /\ Tail(line) \in Seq(Bytes)
    BY <1>1
  <2> QED
    BY <2>1, BytesFacts
<1>3. rpcLen' \in 0 .. ByteMod - 1
  BY <1>1, <1>2, Uint8Facts
<1>4. /\ rpcBuff' \in Seq(Bytes) /\ Len(rpcBuff') = 2 /\ rpcBuff'[2] = Head(line)
      /\ rpcBuff' # <<>>
  <2>1. /\ Append(rpcBuff, Head(line)) \in Seq(Bytes)
        /\ Len(Append(rpcBuff, Head(line))) = Len(rpcBuff) + 1
        /\ Append(rpcBuff, Head(line))[Len(rpcBuff) + 1] = Head(line)
        /\ Append(rpcBuff, Head(line)) # <<>>
    <3>1. PICK r \in Seq(Bytes) : r = rpcBuff
      BY <1>1
    <3>2. PICK x \in Bytes : x = Head(line)
      BY <1>2
    <3>3. /\ Append(r, x) \in Seq(Bytes) /\ Len(Append(r, x)) = Len(r) + 1
          /\ Append(r, x)[Len(r) + 1] = x /\ Append(r, x) # <<>>
      OBVIOUS
    <3> QED
      BY <3>1, <3>2, <3>3, Zenon
  <2>2. Len(rpcBuff) + 1 = 2
    BY <1>1
  <2> QED
    BY <1>1, <2>1, <2>2, Zenon
<1>5. Len(rpcBuff') + rpcLen' <= Uint8(rpcBuff'[2].val + 3) + 2
  BY <1>1, <1>3, <1>4
<1>6. BufferInv'
  BY <1>1, <1>3, <1>4 DEF BufferInv
<1> QED
  BY <1>1, <1>2, <1>3, <1>4, <1>5, <1>6 DEF BufferOK

\* How many bytes a read of the body takes.
Taken == IF Len(line) < rpcLen THEN Len(line) ELSE rpcLen

\* The two parts of what waits to be read.
LEMMA BodyFacts ==
  ASSUME TypeOK, BufferInv, ReadBody
  PROVE  \E p, q \in Seq(Bytes), n \in Nat \ {0} :
           /\ line = p \o q /\ line' = q /\ rpcBuff' = rpcBuff \o p
           /\ Len(p) = n /\ n <= rpcLen /\ rpcLen' = rpcLen - n
<1>1. PICK n : n = Taken
  OBVIOUS
<1>2. /\ line \in Seq(Bytes) /\ line # <<>> /\ rpcLen \in 0 .. ByteMod - 1 /\ rpcLen > 0
      /\ line' = SubSeq(line, n + 1, Len(line)) /\ rpcBuff' = rpcBuff \o SubSeq(line, 1, n)
      /\ rpcLen' = rpcLen - n
  BY <1>1 DEF TypeOK, BufferInv, ReadBody, Taken
<1>3. Len(line) \in Nat \ {0}
  BY <1>2, EmptySeq, Zenon
<1>4. n \in 1 .. Len(line) /\ n <= rpcLen /\ n \in Nat \ {0}
  BY <1>1, <1>2, <1>3, BytesFacts DEF Taken
<1>5. \A i \in 1 .. Len(line) : line[i] \in Bytes
  BY <1>2, ElementOfSeq
<1>6. SubSeq(line, 1, n) \in Seq(Bytes) /\ Len(SubSeq(line, 1, n)) = n
  <2>1. \A i \in 1 .. n : line[i] \in Bytes
    BY <1>3, <1>4, <1>5
  <2>2. 1 \in Int /\ n \in Int /\ 1 <= n /\ n - 1 + 1 = n
    BY <1>4
  <2> QED
    BY <2>1, <2>2, SubSeqProperties
<1>7. SubSeq(line, n + 1, Len(line)) \in Seq(Bytes)
  <2>1. \A i \in n + 1 .. Len(line) : line[i] \in Bytes
    BY <1>3, <1>4, <1>5
  <2>2. n + 1 \in Int /\ Len(line) \in Int
    BY <1>3, <1>4
  <2> QED
    BY <2>1, <2>2, SubSeqProperties
<1>8. SubSeq(line, 1, n) \o SubSeq(line, n + 1, Len(line)) = line
  <2>1. /\ 1 \in 1 .. Len(line) + 1 /\ n \in 1 - 1 .. Len(line) /\ Len(line) \in n .. Len(line)
    BY <1>3, <1>4
  <2>2. SubSeq(line, 1, n) \o SubSeq(line, n + 1, Len(line)) = SubSeq(line, 1, Len(line))
    BY <1>2, <2>1, ConcatAdjacentSubSeq
  <2> QED
    BY <1>2, <2>2, SubSeqFull
<1> QED
  BY <1>2, <1>4, <1>6, <1>7, <1>8

\* A read of the body takes no more than is outstanding.
LEMMA BodyKeeps ==
  ASSUME TypeOK, BufferInv, ReadBody
  PROVE  BufferOK' /\ pc' \in {"body", "send"} /\ line' \in Seq(Bytes)
<1>1. PICK p, q \in Seq(Bytes), n \in Nat \ {0} :
        /\ line = p \o q /\ line' = q /\ rpcBuff' = rpcBuff \o p
        /\ Len(p) = n /\ n <= rpcLen /\ rpcLen' = rpcLen - n
  BY BodyFacts
<1>2. /\ pc = "body" /\ pc' = IF rpcLen' = 0 THEN "send" ELSE "body"
      /\ rpcBuff \in Seq(Bytes) /\ rpcLen \in 0 .. ByteMod - 1
      /\ Len(rpcBuff) >= 2
      /\ Len(rpcBuff) + rpcLen <= Uint8(rpcBuff[2].val + 3) + 2
      /\ retryAttempts' = retryAttempts /\ retryAttempts <= MaxRetries
  BY DEF TypeOK, BufferInv, ReadBody
<1>3. Len(rpcBuff) \in Nat /\ Len(p) \in Nat
  BY <1>1, <1>2
<1>4. /\ rpcBuff' \in Seq(Bytes) /\ Len(rpcBuff') = Len(rpcBuff) + n
      /\ rpcBuff'[2] = rpcBuff[2]
  <2>1. /\ rpcBuff' \in Seq(Bytes) /\ Len(rpcBuff') = Len(rpcBuff) + Len(p)
        /\ \A i \in 1 .. Len(rpcBuff) + Len(p) :
             rpcBuff'[i] = IF i <= Len(rpcBuff) THEN rpcBuff[i] ELSE p[i - Len(rpcBuff)]
    BY <1>1, <1>2, ConcatProperties
  <2>2. 2 \in 1 .. Len(rpcBuff) + Len(p) /\ 2 <= Len(rpcBuff)
    BY <1>2, <1>3
  <2> QED
    BY <1>1, <2>1, <2>2
<1>5. rpcLen' \in 0 .. ByteMod - 1
  BY <1>1, <1>2, BytesFacts
<1>6. rpcBuff' # <<>> /\ Len(rpcBuff') >= 2
  <2>1. Len(rpcBuff') >= 2
    BY <1>1, <1>2, <1>3, <1>4
  <2> QED
    BY <2>1
<1>7. Len(rpcBuff') + rpcLen' = Len(rpcBuff) + rpcLen
  BY <1>1, <1>2, <1>3, <1>4, BytesFacts
<1>8. Len(rpcBuff') + rpcLen' <= Uint8(rpcBuff'[2].val + 3) + 2
  BY <1>2, <1>4, <1>7
<1>9. BufferInv'
  BY <1>2, <1>5, <1>6 DEF BufferInv
<1> QED
  BY <1>1, <1>2, <1>4, <1>5, <1>8, <1>9 DEF BufferOK

\* An empty read that is no error, or one that passes as bytes, ends no later.
LEMMA RetryKeeps ==
  ASSUME TypeOK, BufferInv, Retry
  PROVE  BufferOK' /\ pc' \in {"body", "send"} /\ retryAttempts' \in 0 .. MaxRetries + 1
<1>1. /\ pc = "body" /\ rpcBuff' = rpcBuff /\ rpcBuff \in Seq(Bytes) /\ rpcBuff # <<>>
      /\ rpcLen \in 0 .. ByteMod - 1 /\ rpcLen > 0 /\ emptyRead \in {-1, 0}
      /\ Len(rpcBuff) >= 2
      /\ Len(rpcBuff) + rpcLen <= Uint8(rpcBuff[2].val + 3) + 2
      /\ retryAttempts \in 0 .. MaxRetries + 1
      /\ rpcBuff[2] \in Bytes
  <2>1. rpcBuff \in Seq(Bytes) /\ Len(rpcBuff) >= 2 /\ pc = "body"
    BY DEF TypeOK, BufferInv, Retry
  <2>2. 2 \in 1 .. Len(rpcBuff)
    BY <2>1
  <2>3. rpcBuff[2] \in Bytes
    BY <2>1, <2>2, ElementOfSeq
  <2> QED
    BY <2>1, <2>3 DEF TypeOK, BufferInv, Retry
<1>2. Uint8(emptyRead) \in 0 .. ByteMod - 1 /\ Uint8(rpcBuff[2].val + 3) \in Nat
  <2>1. emptyRead \in Int /\ rpcBuff[2].val + 3 \in Int
    BY <1>1, BytesFacts
  <2> QED
    BY <2>1, Uint8Facts, BytesFacts
<1>3. CASE ReadFailed
  <2>1. UNCHANGED <<pc, rpcLen>> /\ retryAttempts' = retryAttempts + 1
        /\ retryAttempts < MaxRetries
    BY <1>3 DEF Retry
  <2> QED
    BY <1>1, <2>1 DEF BufferOK, BufferInv, MaxRetries
<1>4. CASE ~ReadFailed
  <2>1. rpcLen' = rpcLen - Uint8(emptyRead) /\ pc' = (IF rpcLen' = 0 THEN "send" ELSE "body")
        /\ UNCHANGED retryAttempts
    BY <1>4 DEF Retry
  <2>2. rpcLen' \in 0 .. ByteMod - 1 /\ rpcLen' <= rpcLen
    BY <1>1, <1>2, <1>4, <2>1, BytesFacts DEF ReadFailed
  <2>3. Len(rpcBuff') + rpcLen' <= Uint8(rpcBuff'[2].val + 3) + 2
    <3>1. Len(rpcBuff) \in Nat
      BY <1>1
    <3> QED
      BY <1>1, <1>2, <2>2, <3>1, BytesFacts
  <2> QED
    BY <1>1, <2>1, <2>2, <2>3 DEF BufferOK, BufferInv
<1> QED
  BY <1>3, <1>4

\* Init satisfies the types, and nothing is begun.
LEMMA TypesStart == Init => TypeOK /\ BufferInv /\ SocInv
<1> SUFFICES ASSUME Init PROVE TypeOK /\ BufferInv /\ SocInv
  OBVIOUS
<1>1. \A S : <<>> \in Seq(S)
  OBVIOUS
<1>2. emptyRead \in {-1, 0} /\ 0 \in 0 .. MaxFrames /\ 0 \in 0 .. ByteMod - 1
  BY ConstAssumption DEF Init
<1>3. 0 \in 0 .. MaxRetries + 1
  BY DEF MaxRetries
<1> QED
  BY <1>1, <1>2, <1>3 DEF Init, TypeOK, BufferInv, SocInv

\* The bytes of a frame.
LEMMA FrameFacts ==
  ASSUME NEW n \in 1 .. MaxFrames, NEW len \in Lengths, NEW d \in DataValues
  PROVE  /\ Frame(n, len, d) \in Seq(Bytes) /\ Len(Frame(n, len, d)) = len + 5
         /\ len + 5 \in Nat /\ len \in Nat
         /\ \A i \in 1 .. len + 5 :
              Frame(n, len, d)[i] =
                [frame |-> n, pos |-> i,
                 val |-> IF i = 1 THEN MT_RPC_SOF ELSE IF i = 2 THEN len ELSE d]
<1>1. len \in 0 .. ByteMod - 6 /\ d \in 0 .. ByteMod - 1 /\ MT_RPC_SOF \in 0 .. ByteMod - 1
      /\ ByteMod \in Nat /\ n \in 0 .. MaxFrames
  BY ConstAssumption DEF MT_RPC_SOF
<1>2. ASSUME NEW i \in 1 .. len + 5
      PROVE  [frame |-> n, pos |-> i,
              val |-> IF i = 1 THEN MT_RPC_SOF ELSE IF i = 2 THEN len ELSE d] \in Bytes
  BY <1>1 DEF Bytes
<1>3. Frame(n, len, d) \in [1 .. len + 5 -> Bytes]
  BY <1>2 DEF Frame
<1>4. len + 5 \in Nat /\ len \in Nat
  BY <1>1
<1>5. Frame(n, len, d) \in Seq(Bytes)
  BY <1>3, <1>4, FunctionIsSeq
<1>6. Len(Frame(n, len, d)) = len + 5
  BY <1>3, <1>4, <1>5
<1>7. \A i \in 1 .. len + 5 :
              Frame(n, len, d)[i] =
                [frame |-> n, pos |-> i,
                 val |-> IF i = 1 THEN MT_RPC_SOF ELSE IF i = 2 THEN len ELSE d]
  BY DEF Frame
<1> QED
  BY <1>4, <1>5, <1>6, <1>7

\* The six bytes of a broadcast.
Six(b) == [i \in 1 .. SentBytes |-> IF i <= Len(b) THEN b[i] ELSE Junk]

\* They are bytes, however short the frame is.
LEMMA SixFacts ==
  ASSUME NEW b \in Seq(Bytes)
  PROVE  Six(b) \in [1 .. SentBytes -> Bytes]
<1>1. ASSUME NEW i \in 1 .. SentBytes, i <= Len(b) PROVE b[i] \in Bytes
  BY <1>1, ElementOfSeq
<1> QED
  BY <1>1, BytesFacts DEF Six

\* What is left of a frame when its next byte has come or is lost.
LEMMA SocTail ==
  ASSUME soc \in Seq(Bytes), SocInv, soc # <<>>, soc' = Tail(soc)
  PROVE  SocInv' /\ Head(soc).frame \in 1 .. MaxFrames
<1>1. Len(soc) \in Nat \ {0} /\ DOMAIN soc = 1 .. Len(soc)
  BY EmptySeq, LenProperties, Zenon
<1>2. Head(soc) = soc[1] /\ 1 \in DOMAIN soc /\ Head(soc) \in Bytes
  BY <1>1, HeadTailProperties
<1>3. /\ DOMAIN soc' = 1 .. (Len(soc) - 1)
      /\ \A i \in 1 .. (Len(soc) - 1) : soc'[i] = soc[i + 1] /\ i + 1 \in DOMAIN soc
  BY <1>1, HeadTailProperties, LenProperties
<1>4. SocInv'
  BY <1>3 DEF SocInv
<1>5. Head(soc).frame \in 0 .. MaxFrames /\ Head(soc).frame > 0
  BY <1>2 DEF SocInv, Bytes
<1> QED
  BY <1>4, <1>5, BytesFacts

\* Every step keeps the types and the size of the buffer.
LEMMA TypesKept ==
  ASSUME TypeOK, BufferInv, SocInv, [Next]_vars
  PROVE  TypeOK' /\ BufferInv' /\ SocInv'
<1>1. /\ emptyRead \in {-1, 0} /\ pc \in {"poll", "len", "body", "send", "print"}
      /\ line \in Seq(Bytes) /\ soc \in Seq(Bytes) /\ rpcBuff \in Seq(Bytes)
      /\ frames \in 0 .. MaxFrames /\ retryAttempts \in 0 .. MaxRetries + 1
      /\ sent \in Seq([1 .. SentBytes -> Bytes]) /\ lost \in Seq(1 .. MaxFrames)
      /\ BufferOK
  BY DEF TypeOK, BufferOK
<1>2. CASE ReadSof
  <2>1. BufferOK' /\ pc' \in {"poll", "len"} /\ line' \in Seq(Bytes)
        /\ retryAttempts' \in {0, retryAttempts}
    BY <1>2, SofKeeps
  <2>2. UNCHANGED <<emptyRead, soc, frames, lost, sent>>
    BY <1>2 DEF ReadSof
  <2> QED
    BY <1>1, <2>1, <2>2 DEF TypeOK, SocInv, BufferOK, MaxRetries
<1>3. CASE NoLength
  BY <1>1, <1>3 DEF TypeOK, SocInv, BufferOK, BufferInv, NoLength
<1>4. CASE ReadLength
  <2>1. BufferOK' /\ pc' \in {"poll", "body", "send"} /\ line' \in Seq(Bytes)
    BY <1>4, LengthKeeps
  <2>2. UNCHANGED <<emptyRead, soc, frames, lost, retryAttempts, sent>>
    BY <1>4 DEF ReadLength
  <2> QED
    BY <1>1, <2>1, <2>2 DEF TypeOK, SocInv, BufferOK
<1>5. CASE ReadBody
  <2>1. BufferOK' /\ pc' \in {"body", "send"} /\ line' \in Seq(Bytes)
    BY <1>5, BodyKeeps
  <2>2. UNCHANGED <<emptyRead, soc, frames, lost, retryAttempts, sent>>
    BY <1>5 DEF ReadBody
  <2> QED
    BY <1>1, <2>1, <2>2 DEF TypeOK, SocInv, BufferOK
<1>6. CASE Retry
  <2>1. BufferOK' /\ pc' \in {"body", "send"} /\ retryAttempts' \in 0 .. MaxRetries + 1
    BY <1>6, RetryKeeps
  <2>2. UNCHANGED <<emptyRead, line, soc, frames, lost, sent>>
    BY <1>6 DEF Retry
  <2> QED
    BY <1>1, <2>1, <2>2 DEF TypeOK, SocInv, BufferOK
<1>7. CASE GiveUp
  <2>1. /\ pc' = "poll" /\ retryAttempts' = retryAttempts + 1 /\ retryAttempts >= MaxRetries
        /\ UNCHANGED <<emptyRead, line, soc, frames, lost, rpcLen, rpcBuff, sent>>
    BY <1>7 DEF GiveUp
  <2>2. retryAttempts' \in 0 .. MaxRetries + 1
    <3>1. retryAttempts = MaxRetries
      BY <1>1, <1>7, <2>1 DEF GiveUp, BufferInv, MaxRetries
    <3> QED
      BY <2>1, <3>1 DEF MaxRetries
  <2> QED
    BY <1>1, <2>1, <2>2 DEF TypeOK, SocInv, BufferOK, BufferInv
<1>8. CASE Broadcast
  <2>1. /\ sent' = Append(sent, Six(rpcBuff)) /\ pc' \in {"poll", "print"}
        /\ UNCHANGED <<emptyRead, line, soc, frames, lost, rpcLen, rpcBuff, retryAttempts>>
    BY <1>8 DEF Broadcast, Six
  <2>2. sent' \in Seq([1 .. SentBytes -> Bytes])
    BY <1>1, <2>1, SixFacts, AppendProperties
  <2> QED
    BY <1>1, <2>1, <2>2 DEF TypeOK, SocInv, BufferOK, BufferInv
<1>9. CASE BeginFrame
  <2>1. PICK len \in Lengths, d \in DataValues : soc' = Frame(frames + 1, len, d)
    BY <1>9 DEF BeginFrame
  <2>2. /\ frames' = frames + 1 /\ frames < MaxFrames
        /\ UNCHANGED <<emptyRead, pc, line, rpcLen, rpcBuff, retryAttempts, sent, lost>>
    BY <1>9 DEF BeginFrame
  <2>3. frames' \in 1 .. MaxFrames
    BY <1>1, <2>2, BytesFacts
  <2>4. soc' \in Seq(Bytes) /\ \A i \in DOMAIN soc' : soc'[i].frame > 0
    <3>1. PICK n \in 1 .. MaxFrames : n = frames + 1
      BY <2>2, <2>3
    <3>2. /\ Frame(n, len, d) \in Seq(Bytes) /\ Len(Frame(n, len, d)) = len + 5
          /\ \A i \in 1 .. len + 5 :
               Frame(n, len, d)[i] =
                 [frame |-> n, pos |-> i,
                  val |-> IF i = 1 THEN MT_RPC_SOF ELSE IF i = 2 THEN len ELSE d]
      BY FrameFacts
    <3>3. DOMAIN Frame(n, len, d) = 1 .. len + 5
      BY <3>2, LenProperties
    <3>4. \A i \in 1 .. len + 5 : Frame(n, len, d)[i].frame = n
      BY <3>2
    <3> QED
      BY <2>1, <3>1, <3>2, <3>3, <3>4
  <2> QED
    BY <1>1, <2>2, <2>3, <2>4, BytesFacts DEF TypeOK, SocInv, BufferOK, BufferInv
<1>10. CASE ByteArrives
  <2>1. /\ soc # <<>> /\ line' = Append(line, Head(soc)) /\ soc' = Tail(soc)
        /\ UNCHANGED <<emptyRead, pc, frames, rpcLen, rpcBuff, retryAttempts, sent, lost>>
    BY <1>10 DEF ByteArrives
  <2>2. line' \in Seq(Bytes) /\ soc' \in Seq(Bytes)
    BY <1>1, <2>1, HeadTailProperties, AppendProperties
  <2>3. SocInv'
    BY <1>1, <2>1, SocTail
  <2> QED
    BY <1>1, <2>1, <2>2, <2>3 DEF TypeOK, BufferOK, BufferInv
<1>11. CASE ByteLost
  <2>1. /\ soc # <<>> /\ soc' = Tail(soc) /\ lost' = Append(lost, Head(soc).frame)
        /\ UNCHANGED <<emptyRead, pc, line, frames, rpcLen, rpcBuff, retryAttempts, sent>>
    BY <1>11 DEF ByteLost
  <2>2. soc' \in Seq(Bytes) /\ SocInv' /\ Head(soc).frame \in 1 .. MaxFrames
    BY <1>1, <2>1, SocTail, HeadTailProperties
  <2>3. lost' \in Seq(1 .. MaxFrames)
    BY <1>1, <2>1, <2>2, AppendProperties
  <2> QED
    BY <1>1, <2>1, <2>2, <2>3 DEF TypeOK, BufferOK, BufferInv
<1>12. CASE UNCHANGED vars
  BY <1>1, <1>12 DEF TypeOK, SocInv, BufferOK, BufferInv, vars
<1> QED
  BY <1>2, <1>3, <1>4, <1>5, <1>6, <1>7, <1>8, <1>9, <1>10, <1>11, <1>12 DEF Next, RpcStep

\* The types and the size of the buffer are kept whatever bytes come.
THEOREM TypeInvariant == Spec => [](TypeOK /\ BufferInv /\ SocInv)
<1>1. TypeOK /\ BufferInv /\ SocInv /\ [Next]_vars => TypeOK' /\ BufferInv' /\ SocInv'
  BY TypesKept
<1> QED
  BY <1>1, TypesStart, PTL DEF Spec

\* The client's buffer is never outgrown, and nothing leaves its type.
THEOREM TypeCorrect == Spec => []TypeOK
  BY TypeInvariant, PTL

-----------------------------------------------------------------------------
(* What may happen to the bytes on their way.                              *)

\* Two sequences, one behind the other.
LEMMA Joined ==
  ASSUME NEW p \in Seq(Bytes), NEW q \in Seq(Bytes)
  PROVE  /\ p \o q \in Seq(Bytes) /\ Len(p \o q) = Len(p) + Len(q)
         /\ Len(p) \in Nat /\ Len(q) \in Nat
         /\ DOMAIN p = 1 .. Len(p) /\ DOMAIN q = 1 .. Len(q)
         /\ DOMAIN (p \o q) = 1 .. (Len(p) + Len(q))
         /\ \A i \in 1 .. Len(p) : (p \o q)[i] = p[i] /\ i \in DOMAIN (p \o q)
         /\ \A i \in 1 .. Len(q) : (p \o q)[Len(p) + i] = q[i] /\ Len(p) + i \in DOMAIN (p \o q)
<1>1. p \o q \in Seq(Bytes) /\ Parts(p \o q, p, q, Len(p), Len(q))
  BY PartsAre
<1> QED
  BY <1>1, Zenon DEF Parts

\* The e elements of q are those of w from m + 1 on.
Behind(w, q, m, e) ==
  /\ m \in Nat /\ e \in Nat
  /\ Len(w) = m + e /\ DOMAIN w = 1 .. (m + e)
  /\ Len(q) = e /\ DOMAIN q = 1 .. e
  /\ \A i \in 1 .. e : q[i] = w[m + i]

\* What Complete says of the place i, as numbers: the frame's length k, the position x of
\* the byte, and the number b of bytes behind it.
CompleteAt(w, i, k, x, b) ==
  /\ x = w[i].pos /\ b = k + 5 - x /\ i + b <= Len(w)
  /\ \A j \in i .. i + b : /\ w[j].frame = w[i].frame /\ w[j].pos = x + (j - i)
                           /\ w[j].pos = 2 => w[j].val = k

\* The two say the same.
LEMMA CompleteMeans ==
  ASSUME NEW w, NEW i, w[i].pos \in Nat
  PROVE  Complete(w, i) <=> \E k \in Lengths, x, b \in Nat : CompleteAt(w, i, k, x, b)
<1>1. Lengths \subseteq Nat
  BY ConstAssumption
<1>2. ASSUME Complete(w, i) PROVE \E k \in Lengths, x, b \in Nat : CompleteAt(w, i, k, x, b)
  <2>1. PICK x \in Nat : x = w[i].pos
    OBVIOUS
  <2>2. PICK k \in Lengths :
          /\ x <= k + 5
          /\ i + (k + 5 - x) <= Len(w)
          /\ \A j \in i .. i + (k + 5 - x) :
               /\ w[j].frame = w[i].frame /\ w[j].pos = x + (j - i)
               /\ w[j].pos = 2 => w[j].val = k
    BY <1>2, <2>1 DEF Complete
  <2>3. PICK b : b = k + 5 - x
    OBVIOUS
  <2>4. b \in Nat
    BY <1>1, <2>2, <2>3
  <2>5. CompleteAt(w, i, k, x, b)
    BY <2>1, <2>2, <2>3, Zenon DEF CompleteAt
  <2> QED
    BY <2>4, <2>5
<1>3. ASSUME NEW k \in Lengths, NEW x \in Nat, NEW b \in Nat, CompleteAt(w, i, k, x, b)
      PROVE  Complete(w, i)
  <2>1. x <= k + 5
    BY <1>1, <1>3 DEF CompleteAt
  <2> QED
    BY <1>3, <2>1, Zenon DEF CompleteAt, Complete
<1> QED
  BY <1>2, <1>3

\* The bytes of w from a to a + b stand in v from i on.
Copied(w, a, v, i, b) == i + b <= Len(v) /\ \A j \in 0 .. b : v[i + j] = w[a + j]

\* A frame's bytes are complete wherever they stand.
LEMMA CompleteMoves ==
  ASSUME NEW w, NEW v, NEW a \in Nat, NEW i \in Nat,
         NEW k \in Lengths, NEW x \in Nat, NEW b \in Nat, CompleteAt(w, a, k, x, b),
         Copied(w, a, v, i, b)
  PROVE  CompleteAt(v, i, k, x, b)
<1>0. i + b <= Len(v) /\ \A j \in 0 .. b : v[i + j] = w[a + j]
  BY DEF Copied
<1>1. v[i] = w[a]
  <2>1. 0 \in 0 .. b /\ i + 0 = i /\ a + 0 = a
    OBVIOUS
  <2> QED
    BY <1>0, <2>1
<1>2. ASSUME NEW j \in i .. i + b
      PROVE  /\ v[j].frame = v[i].frame /\ v[j].pos = x + (j - i)
             /\ v[j].pos = 2 => v[j].val = k
  <2>1. PICK d \in 0 .. b : d = j - i
    OBVIOUS
  <2>2. j = i + d /\ a + d \in a .. a + b /\ (a + d) - a = d
    BY <2>1
  <2>3. /\ w[a + d].frame = w[a].frame /\ w[a + d].pos = x + ((a + d) - a)
        /\ w[a + d].pos = 2 => w[a + d].val = k
    BY <2>2 DEF CompleteAt
  <2>4. v[j] = w[a + d]
    BY <1>0, <2>1, <2>2
  <2> QED
    BY <1>1, <2>1, <2>2, <2>3, <2>4
<1> QED
  BY <1>0, <1>1, <1>2 DEF CompleteAt

\* The bytes that come behind others are a flow, too.
LEMMA FlowDrops ==
  ASSUME NEW w, NEW q, NEW m, NEW e, Behind(w, q, m, e), NEW n, NEW l, IsFlow(w, n, l)
  PROVE  IsFlow(q, n, l)
<1>1. /\ m \in Nat /\ e \in Nat /\ DOMAIN q = 1 .. e /\ Len(q) = e /\ Len(w) = m + e
      /\ \A i \in 1 .. e : q[i] = w[m + i] /\ m + i \in DOMAIN w
  BY DEF Behind
<1>2. /\ \A i \in DOMAIN w : /\ w[i].frame \in 1 .. n /\ w[i].pos \in 1 .. ByteMod
                             /\ w[i].val = MT_RPC_SOF => w[i].pos = 1
      /\ \A i, j \in DOMAIN w : i < j => Precedes(w[i], w[j])
      /\ \A i \in DOMAIN w : (\E j \in DOMAIN l : l[j] = w[i].frame) \/ Complete(w, i)
  BY DEF IsFlow
<1>3. \A i \in DOMAIN w : w[i].pos \in Nat
  BY <1>2, BytesFacts
<1>4. ASSUME NEW i \in 1 .. e, NEW j \in 1 .. e, i < j PROVE Precedes(q[i], q[j])
  <2>1. m + i < m + j
    BY <1>1, <1>4
  <2> QED
    BY <1>1, <1>2, <2>1
<1>5. ASSUME NEW i \in 1 .. e, Complete(w, m + i) PROVE Complete(q, i)
  <2>1. PICK a \in Nat : a = m + i
    BY <1>1
  <2>2. a \in DOMAIN w /\ q[i] = w[a] /\ q[i].pos \in Nat /\ w[a].pos \in Nat
    BY <1>1, <1>3, <2>1
  <2>3. PICK k \in Lengths, x \in Nat, b \in Nat : CompleteAt(w, a, k, x, b)
    BY <1>5, <2>1, <2>2, CompleteMeans
  <2>4. a + b <= m + e
    BY <1>1, <2>3 DEF CompleteAt
  <2>5. i + b <= Len(q) /\ \A j \in 0 .. b : q[i + j] = w[a + j]
    <3>1. i + b <= e /\ \A j \in 0 .. b : i + j \in 1 .. e /\ m + (i + j) = a + j
      BY <1>1, <2>1, <2>4
    <3> QED
      BY <1>1, <3>1
  <2>6. CompleteAt(q, i, k, x, b)
    <3>1. i \in Nat /\ Copied(w, a, q, i, b)
      BY <2>5 DEF Copied
    <3> QED
      BY <2>3, <3>1, CompleteMoves
  <2> QED
    BY <2>2, <2>6, CompleteMeans
<1>6. ASSUME NEW i \in 1 .. e
      PROVE  /\ q[i].frame \in 1 .. n /\ q[i].pos \in 1 .. ByteMod
             /\ q[i].val = MT_RPC_SOF => q[i].pos = 1
             /\ (\E j \in DOMAIN l : l[j] = q[i].frame) \/ Complete(q, i)
  BY <1>1, <1>2, <1>5
<1> QED
  BY <1>1, <1>4, <1>6 DEF IsFlow

\* Where byte i was before byte m + 1 was taken out.
Was(m, i) == IF i <= m THEN i ELSE i + 1

\* v is w without its element m + 1.
LosesOne(w, v, m) ==
  /\ m \in Nat /\ Len(w) \in Nat /\ m < Len(w) /\ DOMAIN w = 1 .. Len(w)
  /\ Len(v) = Len(w) - 1 /\ DOMAIN v = 1 .. (Len(w) - 1)
  /\ \A i \in DOMAIN v : v[i] = w[Was(m, i)]

\* A byte that is lost leaves a flow: its frame is damaged, the others are not.
LEMMA FlowLoses ==
  ASSUME NEW w, NEW v, NEW m, LosesOne(w, v, m), NEW n, NEW l, NEW g, IsFlow(w, n, l),
         \A j \in DOMAIN l : \E i \in DOMAIN g : g[i] = l[j],
         \E i \in DOMAIN g : g[i] = w[m + 1].frame
  PROVE  IsFlow(v, n, g)
<1>1. PICK z \in Nat : z = Len(w)
  BY DEF LosesOne
<1>2. /\ m \in Nat /\ m < z /\ DOMAIN w = 1 .. z /\ Len(v) = z - 1 /\ DOMAIN v = 1 .. (z - 1)
      /\ \A i \in DOMAIN v : v[i] = w[Was(m, i)] /\ Was(m, i) \in DOMAIN w
  BY <1>1 DEF LosesOne, Was
<1>3. /\ \A i \in DOMAIN w : /\ w[i].frame \in 1 .. n /\ w[i].pos \in 1 .. ByteMod
                             /\ w[i].val = MT_RPC_SOF => w[i].pos = 1
      /\ \A i, j \in DOMAIN w : i < j => Precedes(w[i], w[j])
      /\ \A i \in DOMAIN w : (\E j \in DOMAIN l : l[j] = w[i].frame) \/ Complete(w, i)
  BY DEF IsFlow
<1>4. \A i \in DOMAIN w : w[i].pos \in Nat
  BY <1>3, BytesFacts
<1>5. ASSUME NEW i \in DOMAIN v, NEW j \in DOMAIN v, i < j PROVE Precedes(v[i], v[j])
  <2>1. Was(m, i) < Was(m, j)
    BY <1>2, <1>5 DEF Was
  <2> QED
    BY <1>2, <1>3, <2>1
<1>6. ASSUME NEW i \in DOMAIN v, v[i].frame # w[m + 1].frame, Complete(w, Was(m, i))
      PROVE  Complete(v, i)
  <2>1. PICK a \in DOMAIN w : a = Was(m, i)
    BY <1>2
  <2>2. v[i] = w[a] /\ w[a].pos \in Nat /\ v[i].pos \in Nat /\ a \in Nat /\ i \in Nat
    BY <1>2, <1>4, <2>1
  <2>3. PICK k \in Lengths, x \in Nat, b \in Nat : CompleteAt(w, a, k, x, b)
    BY <1>6, <2>1, <2>2, CompleteMeans
  <2>4. a + b <= z /\ m + 1 \notin a .. a + b
    <3>1. \A j \in a .. a + b : w[j].frame = w[a].frame
      BY <2>3 DEF CompleteAt
    <3> QED
      BY <1>1, <1>6, <2>2, <2>3, <3>1 DEF CompleteAt
  <2>5. i + b <= Len(v) /\ \A j \in 0 .. b : i + j \in DOMAIN v /\ Was(m, i + j) = a + j
    <3>1. CASE i <= m
      <4>1. a = i /\ a + b <= m
        BY <1>2, <2>1, <2>2, <2>3, <2>4, <3>1 DEF Was
      <4> QED
        BY <1>2, <2>2, <2>3, <4>1 DEF Was
    <3>2. CASE ~(i <= m)
      <4>1. a = i + 1
        BY <2>1, <3>2 DEF Was
      <4>2. /\ i \in Nat /\ m \in Nat /\ b \in Nat /\ z \in Nat /\ i + 1 + b <= z
            /\ Len(v) = z - 1 /\ DOMAIN v = 1 .. (z - 1)
        BY <1>2, <2>2, <2>3, <2>4, <4>1
      <4>3. \A j \in 0 .. b : i + j \in 1 .. (z - 1) /\ ~(i + j <= m) /\ (i + j) + 1 = a + j
        BY <3>2, <4>1, <4>2
      <4> QED
        BY <4>2, <4>3 DEF Was
    <3> QED
      BY <3>1, <3>2
  <2>6. \A j \in 0 .. b : v[i + j] = w[a + j]
    BY <1>2, <2>5
  <2>7. CompleteAt(v, i, k, x, b)
    <3>1. i \in Nat /\ a \in Nat /\ Copied(w, a, v, i, b)
      BY <2>2, <2>5, <2>6 DEF Copied
    <3> QED
      BY <2>3, <3>1, CompleteMoves
  <2> QED
    BY <2>2, <2>7, CompleteMeans
<1>7. ASSUME NEW i \in DOMAIN v PROVE (\E j \in DOMAIN g : g[j] = v[i].frame) \/ Complete(v, i)
  BY <1>2, <1>3, <1>6
<1>8. ASSUME NEW i \in DOMAIN v
      PROVE  /\ v[i].frame \in 1 .. n /\ v[i].pos \in 1 .. ByteMod
             /\ v[i].val = MT_RPC_SOF => v[i].pos = 1
  BY <1>2, <1>3
<1> QED
  BY <1>5, <1>7, <1>8 DEF IsFlow

\* v is w with the whole of frame n behind it.
Grown(w, v, m, n, len, d) ==
  /\ m \in Nat /\ Len(w) = m /\ DOMAIN w = 1 .. m
  /\ Len(v) = m + (len + 5) /\ DOMAIN v = 1 .. (m + (len + 5))
  /\ \A i \in 1 .. m : v[i] = w[i]
  /\ \A i \in 1 .. len + 5 :
       v[m + i] = [frame |-> n, pos |-> i,
                   val |-> IF i = 1 THEN MT_RPC_SOF ELSE IF i = 2 THEN len ELSE d]

\* A flow goes on with the next frame.
LEMMA FlowGrows ==
  ASSUME SofIsStart, NEW w, NEW v, NEW m, NEW n \in Nat, NEW len \in Lengths,
         NEW d \in DataValues, Grown(w, v, m, n + 1, len, d), NEW l, IsFlow(w, n, l)
  PROVE  IsFlow(v, n + 1, l)
<1>1. PICK s : s = len + 5
  OBVIOUS
<1>2. /\ len \in 0 .. ByteMod - 6 /\ len \in Nat /\ s \in Nat /\ s <= ByteMod
      /\ MT_RPC_SOF # len /\ MT_RPC_SOF # d
  BY <1>1, ConstAssumption DEF SofIsStart, MT_RPC_SOF
<1>3. /\ m \in Nat /\ Len(w) = m /\ DOMAIN w = 1 .. m
      /\ Len(v) = m + s /\ DOMAIN v = 1 .. (m + s)
      /\ \A i \in 1 .. m : v[i] = w[i]
  BY <1>1 DEF Grown
<1>4. ASSUME NEW i \in 1 .. s
      PROVE  /\ v[m + i].frame = n + 1 /\ v[m + i].pos = i
             /\ v[m + i].val = IF i = 1 THEN MT_RPC_SOF ELSE IF i = 2 THEN len ELSE d
  <2>1. PICK y : y = IF i = 1 THEN MT_RPC_SOF ELSE IF i = 2 THEN len ELSE d
    OBVIOUS
  <2>2. v[m + i] = [frame |-> n + 1, pos |-> i, val |-> y]
    BY <1>1, <2>1, Zenon DEF Grown
  <2> QED
    BY <2>1, <2>2
<1>5. /\ \A i \in 1 .. m : /\ w[i].frame \in 1 .. n /\ w[i].pos \in 1 .. ByteMod
                           /\ w[i].val = MT_RPC_SOF => w[i].pos = 1
      /\ \A i, j \in 1 .. m : i < j => Precedes(w[i], w[j])
      /\ \A i \in 1 .. m : (\E j \in DOMAIN l : l[j] = w[i].frame) \/ Complete(w, i)
  BY <1>3 DEF IsFlow
<1>6. \A i \in DOMAIN v : i \in 1 .. m \/ \E j \in 1 .. s : i = m + j
  <2>1. ASSUME NEW i \in DOMAIN v, i \notin 1 .. m PROVE i - m \in 1 .. s /\ i = m + (i - m)
    BY <1>2, <1>3, <2>1
  <2> QED
    BY <2>1
<1>7. ASSUME NEW i \in DOMAIN v
      PROVE  /\ v[i].frame \in 1 .. n + 1 /\ v[i].pos \in 1 .. ByteMod
             /\ v[i].val = MT_RPC_SOF => v[i].pos = 1
  <2>1. CASE i \in 1 .. m
    <3>1. v[i] = w[i] /\ w[i].frame \in 1 .. n
      BY <1>3, <1>5, <2>1
    <3>2. w[i].frame \in 1 .. n + 1
      BY <3>1
    <3> QED
      BY <1>5, <2>1, <3>1, <3>2
  <2>2. CASE \E j \in 1 .. s : i = m + j
    <3>1. PICK j \in 1 .. s : i = m + j
      BY <2>2
    <3>2. /\ v[i].frame = n + 1 /\ v[i].pos = j
          /\ v[i].val = IF j = 1 THEN MT_RPC_SOF ELSE IF j = 2 THEN len ELSE d
      BY <1>4, <3>1
    <3>3. n + 1 \in 1 .. n + 1 /\ j \in 1 .. ByteMod
      BY <1>2, BytesFacts
    <3> QED
      BY <1>2, <3>2, <3>3
  <2> QED
    BY <1>6, <2>1, <2>2
<1>8. ASSUME NEW i \in DOMAIN v, NEW j \in DOMAIN v, i < j PROVE Precedes(v[i], v[j])
  <2>1. CASE i \in 1 .. m /\ j \in 1 .. m
    BY <1>3, <1>5, <1>8, <2>1
  <2>2. CASE i \in 1 .. m /\ \E a \in 1 .. s : j = m + a
    <3>1. v[j].frame = n + 1
      BY <1>4, <2>2
    <3>2. v[i].frame \in 1 .. n
      BY <1>3, <1>5, <2>2
    <3> QED
      BY <3>1, <3>2 DEF Precedes
  <2>3. CASE \E a, b \in 1 .. s : i = m + a /\ j = m + b
    <3>1. PICK a \in 1 .. s, b \in 1 .. s : i = m + a /\ j = m + b
      BY <2>3
    <3>2. v[i].frame = n + 1 /\ v[i].pos = a /\ v[j].frame = n + 1 /\ v[j].pos = b
      BY <1>4, <3>1
    <3>3. a < b
      BY <1>2, <1>3, <1>8, <3>1
    <3> QED
      BY <3>2, <3>3 DEF Precedes
  <2>4. ~(j \in 1 .. m /\ \E a \in 1 .. s : i = m + a)
    BY <1>2, <1>3, <1>8
  <2> QED
    BY <1>6, <2>1, <2>2, <2>3, <2>4
<1>9. ASSUME NEW i \in 1 .. m, Complete(w, i) PROVE Complete(v, i)
  <2>1. w[i].pos \in Nat /\ v[i] = w[i] /\ i \in Nat
    BY <1>3, <1>5, BytesFacts
  <2>2. PICK k \in Lengths, x \in Nat, b \in Nat : CompleteAt(w, i, k, x, b)
    BY <1>9, <2>1, CompleteMeans
  <2>3. i + b <= m
    BY <1>3, <2>2 DEF CompleteAt
  <2>4. Copied(w, i, v, i, b)
    <3>1. i + b <= Len(v) /\ \A j \in 0 .. b : i + j \in 1 .. m
      BY <1>2, <1>3, <2>2, <2>3
    <3> QED
      BY <1>3, <3>1 DEF Copied
  <2>5. CompleteAt(v, i, k, x, b)
    BY <2>1, <2>2, <2>4, CompleteMoves
  <2> QED
    BY <2>1, <2>5, CompleteMeans
<1>10. ASSUME NEW a \in 1 .. s PROVE Complete(v, m + a)
  <2>1. PICK i \in Nat : i = m + a
    BY <1>3
  <2>2. v[i].frame = n + 1 /\ v[i].pos = a /\ a \in Nat
    BY <1>4, <2>1
  <2>3. PICK b \in Nat : b = s - a
    BY <1>2
  <2>4. i + b = m + s
    BY <1>2, <1>3, <2>1, <2>3
  <2>5. ASSUME NEW j \in i .. i + b
        PROVE  /\ v[j].frame = v[i].frame /\ v[j].pos = a + (j - i)
               /\ v[j].pos = 2 => v[j].val = len
    <3>0. /\ j \in Int /\ m \in Nat /\ s \in Nat /\ a \in Int /\ 1 <= a
          /\ m + a <= j /\ j <= m + s
      BY <1>2, <1>3, <2>1, <2>3, <2>4
    <3>1. PICK c \in 1 .. s : c = j - m
      BY <3>0
    <3>2. j = m + c /\ c = a + (j - i)
      BY <1>3, <2>1, <3>1
    <3>3. v[j].frame = n + 1 /\ v[j].pos = c
          /\ v[j].val = IF c = 1 THEN MT_RPC_SOF ELSE IF c = 2 THEN len ELSE d
      BY <1>4, <3>2
    <3> QED
      BY <2>2, <3>2, <3>3
  <2>6. CompleteAt(v, i, len, a, b)
    <3>1. b = len + 5 - a /\ i + b <= Len(v) /\ a = v[i].pos
      BY <1>1, <1>2, <1>3, <2>2, <2>3, <2>4
    <3> QED
      BY <2>5, <3>1, Zenon DEF CompleteAt
  <2> QED
    BY <2>1, <2>2, <2>6, CompleteMeans
<1>11. ASSUME NEW i \in DOMAIN v PROVE (\E j \in DOMAIN l : l[j] = v[i].frame) \/ Complete(v, i)
  <2>1. CASE i \in 1 .. m
    BY <1>3, <1>5, <1>9, <2>1
  <2>2. CASE \E a \in 1 .. s : i = m + a
    BY <1>10, <2>2
  <2> QED
    BY <1>6, <2>1, <2>2
<1> QED
  BY <1>7, <1>8, <1>11 DEF IsFlow

-----------------------------------------------------------------------------
(* What the steps do to them.                                              *)

\* A sequence is its first element and the others.
LEMMA FirstAndRest ==
  ASSUME NEW s \in Seq(Bytes), s # <<>>
  PROVE  /\ Head(s) \in Bytes /\ <<Head(s)>> \in Seq(Bytes) /\ Tail(s) \in Seq(Bytes)
         /\ s = <<Head(s)>> \o Tail(s)
<1>1. Len(s) \in Nat \ {0}
  BY EmptySeq, Zenon
<1>2. 1 \in 1 .. Len(s) /\ Len(s) \in 1 .. Len(s)
  BY <1>1
<1>3. SubSeq(s, 1, Len(s)) = <<s[1]>> \o SubSeq(s, 1 + 1, Len(s))
  BY <1>2, SubSeqRecursiveFirst
<1>4. SubSeq(s, 1, Len(s)) = s /\ Tail(s) = SubSeq(s, 2, Len(s)) /\ Head(s) = s[1]
  BY SubSeqFull, TailIsSubSeq
<1>5. Head(s) \in Bytes /\ Tail(s) \in Seq(Bytes)
  BY HeadTailProperties
<1> QED
  BY <1>3, <1>4, <1>5

\* What is on its way are sequences of bytes.
LEMMA WholeFacts ==
  ASSUME TypeOK
  PROVE  /\ line \in Seq(Bytes) /\ soc \in Seq(Bytes) /\ rpcBuff \in Seq(Bytes)
         /\ Begun \in Seq(Bytes) /\ line \o soc \in Seq(Bytes) /\ Whole \in Seq(Bytes)
         /\ <<>> \o (line \o soc) = line \o soc /\ <<>> \in Seq(Bytes)
         /\ <<>> \o Whole = Whole
<1>1. line \in Seq(Bytes) /\ soc \in Seq(Bytes) /\ rpcBuff \in Seq(Bytes) /\ <<>> \in Seq(Bytes)
  BY DEF TypeOK
<1>2. Begun \in Seq(Bytes)
  BY <1>1 DEF Begun
<1>3. line \o soc \in Seq(Bytes)
  BY <1>1, ConcatProperties
<1>4. Whole \in Seq(Bytes)
  BY <1>2, <1>3, ConcatProperties DEF Whole
<1> QED
  BY <1>1, <1>2, <1>3, <1>4, ConcatEmptySeq

\* A read of the body moves bytes from the line to the buffer.
LEMMA BodyDrops ==
  ASSUME TypeOK, BufferInv, ReadBody
  PROVE  \E p \in Seq(Bytes) : Whole = p \o Whole'
<1>1. /\ line \in Seq(Bytes) /\ soc \in Seq(Bytes) /\ rpcBuff \in Seq(Bytes)
      /\ <<>> \in Seq(Bytes) /\ <<>> \o Whole = Whole
  BY WholeFacts
<1>2. PICK a, b \in Seq(Bytes) : line = a \o b /\ line' = b /\ rpcBuff' = rpcBuff \o a
  BY BodyFacts
<1>3. Begun = rpcBuff /\ Begun' = rpcBuff' /\ soc' = soc
  BY DEF ReadBody, Begun
<1>4. (rpcBuff \o a) \o (b \o soc) = rpcBuff \o ((a \o b) \o soc)
  <2>1. (a \o b) \o soc = a \o (b \o soc) /\ b \o soc \in Seq(Bytes)
    BY <1>1, <1>2, ConcatAssociative, ConcatProperties
  <2>2. PICK t \in Seq(Bytes) : t = b \o soc
    BY <2>1
  <2>3. PICK r \in Seq(Bytes) : r = rpcBuff
    BY <1>1
  <2>4. (r \o a) \o t = r \o (a \o t)
    BY ConcatAssociative
  <2> QED
    BY <2>1, <2>2, <2>3, <2>4
<1>5. Whole' = Whole
  BY <1>2, <1>3, <1>4 DEF Whole
<1> QED
  BY <1>1, <1>5

\* A byte that arrives moves from the SoC to the line.
LEMMA ArrivalDrops ==
  ASSUME TypeOK, ByteArrives
  PROVE  \E p \in Seq(Bytes) : Whole = p \o Whole'
<1>1. /\ line \in Seq(Bytes) /\ soc \in Seq(Bytes)
      /\ <<>> \in Seq(Bytes) /\ <<>> \o Whole = Whole
  BY WholeFacts
<1>2. soc # <<>> /\ line' = Append(line, Head(soc)) /\ soc' = Tail(soc) /\ Begun' = Begun
  BY DEF ByteArrives, Begun
<1>3. PICK h : h = <<Head(soc)>> /\ h \in Seq(Bytes)
  BY <1>1, <1>2, FirstAndRest
<1>4. soc = h \o soc' /\ soc' \in Seq(Bytes) /\ Head(soc) \in Bytes
  BY <1>1, <1>2, <1>3, FirstAndRest
<1>5. line' = line \o h
  BY <1>1, <1>2, <1>3, <1>4, AppendIsConcat
<1>6. (line \o h) \o soc' = line \o (h \o soc')
  BY <1>1, <1>3, <1>4, ConcatAssociative
<1>7. Whole' = Whole
  BY <1>2, <1>4, <1>5, <1>6 DEF Whole
<1> QED
  BY <1>1, <1>7

\* The gateway and the line only take bytes from the front.
LEMMA WholeDrops ==
  ASSUME TypeOK, BufferInv, TypeOK', RpcStep \/ ByteArrives
  PROVE  \E p \in Seq(Bytes) : Whole = p \o Whole'
<1>1. /\ line \in Seq(Bytes) /\ soc \in Seq(Bytes) /\ rpcBuff \in Seq(Bytes)
      /\ Begun \in Seq(Bytes) /\ line \o soc \in Seq(Bytes) /\ Whole \in Seq(Bytes)
      /\ <<>> \o (line \o soc) = line \o soc /\ <<>> \in Seq(Bytes)
      /\ <<>> \o Whole = Whole
  BY WholeFacts
<1>2. /\ line' \in Seq(Bytes) /\ line' \o soc' \in Seq(Bytes)
      /\ <<>> \o (line' \o soc') = line' \o soc'
  <2>1. line' \in Seq(Bytes) /\ soc' \in Seq(Bytes)
    BY DEF TypeOK
  <2>2. line' \o soc' \in Seq(Bytes)
    BY <2>1, ConcatProperties
  <2> QED
    BY <2>1, <2>2, ConcatEmptySeq
<1>3. CASE (ReadSof \/ ReadLength) /\ line # <<>> /\ line' = Tail(line) /\ soc' = soc
  <2>1. PICK h : h = <<Head(line)>> /\ h \in Seq(Bytes)
    BY <1>1, <1>3, FirstAndRest
  <2>2. line = h \o line' /\ Len(h) = 1
    BY <1>1, <1>3, <2>1, FirstAndRest
  <2>3. h \o (line' \o soc) = line \o soc
    <3>1. (h \o line') \o soc = h \o (line' \o soc)
      BY <1>1, <1>2, <2>1, ConcatAssociative
    <3> QED
      BY <2>2, <3>1
  <2>4. CASE ReadSof
    <3>1. pc = "poll" /\ Begun = <<>> /\ Whole = line \o soc
      BY <1>1, <2>4 DEF ReadSof, Begun, Whole
    <3>4. CASE Begun' = h
      <4>1. Whole' = Whole
        BY <1>3, <2>3, <3>1, <3>4 DEF Whole
      <4> QED
        BY <1>1, <4>1
    <3>5. CASE Begun' = <<>>
      <4>1. Whole' = line' \o soc
        BY <1>2, <1>3, <3>5 DEF Whole
      <4> QED
        BY <2>1, <2>3, <3>1, <4>1
    <3> QED
      BY <2>1, <2>4, <3>1, <3>4, <3>5 DEF ReadSof, Begun
  <2>5. CASE ReadLength
    <3>1. pc = "len" /\ Begun = rpcBuff /\ Whole = rpcBuff \o (line \o soc)
      BY <2>5 DEF ReadLength, Begun, Whole
    <3>2. rpcBuff' = rpcBuff \o h /\ rpcBuff' \in Seq(Bytes)
      <4>1. Head(line) \in Bytes /\ rpcBuff' = Append(rpcBuff, Head(line))
        BY <1>1, <1>3, <2>5, FirstAndRest DEF ReadLength
      <4> QED
        BY <1>1, <2>1, <4>1, AppendIsConcat, AppendProperties
    <3>3. rpcBuff' \o (line' \o soc) = Whole
      <4>1. PICK t \in Seq(Bytes) : t = line' \o soc
        BY <1>1, <1>2, ConcatProperties
      <4>2. PICK r \in Seq(Bytes) : r = rpcBuff
        BY <1>1
      <4>3. (r \o h) \o t = r \o (h \o t)
        BY <2>1, ConcatAssociative
      <4> QED
        BY <2>3, <3>1, <3>2, <4>1, <4>2, <4>3
    <3>4. CASE pc' \in {"body", "send"}
      <4>1. Whole' = Whole
        BY <1>3, <3>3, <3>4 DEF Whole, Begun
      <4> QED
        BY <1>1, <4>1
    <3>5. CASE pc' = "poll"
      <4>1. Whole' = line' \o soc
        BY <1>2, <1>3, <3>5 DEF Whole, Begun
      <4> QED
        BY <3>2, <3>3, <4>1
    <3> QED
      BY <2>5, <3>4, <3>5 DEF ReadLength
  <2> QED
    BY <1>3, <2>4, <2>5
<1>4. CASE ReadBody
  BY <1>4, BodyDrops
<1>5. CASE NoLength \/ Retry \/ GiveUp \/ Broadcast
  <2>0. UNCHANGED <<line, soc, rpcBuff>>
    BY <1>5 DEF NoLength, Retry, GiveUp, Broadcast
  <2>1. CASE Begun' = Begun
    <3>1. Whole' = Whole
      BY <2>0, <2>1 DEF Whole
    <3> QED
      BY <1>1, <3>1
  <2>2. CASE Begun' = <<>>
    <3>1. Whole' = line \o soc /\ Whole = Begun \o (line \o soc)
      BY <1>1, <1>2, <2>0, <2>2 DEF Whole
    <3> QED
      BY <1>1, <3>1
  <2>3. Begun' = Begun \/ Begun' = <<>>
    <3>1. pc' = pc \/ pc' = "poll" \/ pc' = "print" \/ (pc = "body" /\ pc' = "send")
      BY <1>5 DEF NoLength, Retry, GiveUp, Broadcast
    <3> QED
      BY <2>0, <3>1 DEF Begun
  <2> QED
    BY <2>1, <2>2, <2>3
<1>6. CASE ByteArrives
  BY <1>6, ArrivalDrops
<1>7. CASE ReadSof \/ ReadLength
  BY <1>3, <1>7 DEF ReadSof, ReadLength
<1> QED
  BY <1>4, <1>5, <1>6, <1>7 DEF RpcStep

\* Three sequences, one behind the other.
LEMMA JoinedThree ==
  ASSUME NEW p \in Seq(Bytes), NEW q \in Seq(Bytes), NEW r \in Seq(Bytes)
  PROVE  p \o (q \o r) = (p \o q) \o r /\ p \o q \in Seq(Bytes)
  BY ConcatAssociative, ConcatProperties

\* A sequence behind another is what is left when the first is dropped.
LEMMA BehindIt ==
  ASSUME NEW p \in Seq(Bytes), NEW q \in Seq(Bytes)
  PROVE  Behind(p \o q, q, Len(p), Len(q))
  BY Joined DEF Behind

\* The byte behind p is lost.
LEMMA TailLosesOne ==
  ASSUME NEW p \in Seq(Bytes), NEW s \in Seq(Bytes), s # <<>>
  PROVE  /\ LosesOne(p \o s, p \o Tail(s), Len(p))
         /\ (p \o s)[Len(p) + 1] = Head(s) /\ Len(p) + 1 \in DOMAIN (p \o s)
<1>1. PICK e \in Nat : Len(s) = e + 1
  <2>1. Len(s) \in Nat \ {0}
    BY EmptySeq, Zenon
  <2>2. Len(s) - 1 \in Nat /\ Len(s) = (Len(s) - 1) + 1
    BY <2>1
  <2> QED
    BY <2>2
<1>2. PICK t \in Seq(Bytes) : t = Tail(s)
  BY HeadTailProperties
<1>3. Len(t) = e /\ \A i \in 1 .. e : t[i] = s[i + 1]
  <2>1. Len(t) = Len(s) - 1 /\ \A i \in 1 .. Len(t) : t[i] = s[i + 1]
    BY <1>2, HeadTailProperties
  <2> QED
    BY <1>1, <2>1
<1>4. PICK m \in Nat : m = Len(p)
  OBVIOUS
<1>5. PICK w, v \in Seq(Bytes) : w = p \o s /\ v = p \o t
  BY Joined
<1>6. /\ Len(w) = m + (e + 1) /\ DOMAIN w = 1 .. (m + (e + 1))
      /\ \A i \in 1 .. m : w[i] = p[i]
      /\ \A i \in 1 .. e + 1 : w[m + i] = s[i] /\ m + i \in DOMAIN w
  <2>1. Parts(w, p, s, m, e + 1)
    BY <1>1, <1>4, <1>5, PartsAre
  <2> QED
    BY <2>1 DEF Parts
<1>7. /\ Len(v) = m + e /\ DOMAIN v = 1 .. (m + e)
      /\ \A i \in 1 .. m : v[i] = p[i]
      /\ \A i \in 1 .. e : v[m + i] = t[i]
  <2>1. Parts(v, p, t, m, e)
    BY <1>3, <1>4, <1>5, PartsAre
  <2> QED
    BY <2>1 DEF Parts
<1>8. ASSUME NEW i \in 1 .. (m + e) PROVE v[i] = w[Was(m, i)]
  <2>1. CASE i <= m
    BY <1>6, <1>7, <2>1 DEF Was
  <2>2. CASE ~(i <= m)
    <3>1. PICK j \in 1 .. e : i = m + j
      <4>1. i - m \in 1 .. e /\ i = m + (i - m)
        BY <2>2
      <4> QED
        BY <4>1
    <3>2. j + 1 \in 1 .. e + 1 /\ i + 1 = m + (j + 1)
      BY <3>1
    <3>3. v[i] = s[j + 1] /\ w[m + (j + 1)] = s[j + 1]
      BY <1>3, <1>6, <1>7, <3>1, <3>2
    <3> QED
      BY <2>2, <3>2, <3>3 DEF Was
  <2> QED
    BY <2>1, <2>2
<1>9. /\ Len(w) \in Nat /\ m < Len(w) /\ Len(v) = Len(w) - 1 /\ m + e = Len(w) - 1
      /\ DOMAIN w = 1 .. Len(w) /\ DOMAIN v = 1 .. (Len(w) - 1)
  BY <1>6, <1>7
<1>10. LosesOne(w, v, m)
  BY <1>7, <1>8, <1>9 DEF LosesOne
<1>11. w[m + 1] = s[1] /\ m + 1 \in DOMAIN w /\ Head(s) = s[1]
  <2>1. 1 \in 1 .. e + 1
    OBVIOUS
  <2> QED
    BY <1>6, <2>1, HeadTailProperties
<1> QED
  BY <1>2, <1>4, <1>5, <1>10, <1>11

\* The next frame is put behind p.
LEMMA FrameGrows ==
  ASSUME NEW p \in Seq(Bytes), NEW n \in 1 .. MaxFrames, NEW len \in Lengths,
         NEW d \in DataValues
  PROVE  Grown(p, p \o Frame(n, len, d), Len(p), n, len, d)
<1>1. PICK f \in Seq(Bytes) : f = Frame(n, len, d)
  BY FrameFacts
<1>2. /\ Len(f) = len + 5 /\ len + 5 \in Nat
      /\ \A i \in 1 .. len + 5 :
           f[i] = [frame |-> n, pos |-> i,
                   val |-> IF i = 1 THEN MT_RPC_SOF ELSE IF i = 2 THEN len ELSE d]
  BY <1>1, FrameFacts
<1>3. /\ Len(p) \in Nat /\ DOMAIN p = 1 .. Len(p)
      /\ Len(p \o f) = Len(p) + (len + 5) /\ DOMAIN (p \o f) = 1 .. (Len(p) + (len + 5))
      /\ \A i \in 1 .. Len(p) : (p \o f)[i] = p[i]
      /\ \A i \in 1 .. len + 5 : (p \o f)[Len(p) + i] = f[i]
  <2>1. Parts(p \o f, p, f, Len(p), len + 5)
    BY <1>2, PartsAre
  <2> QED
    BY <2>1 DEF Parts
<1>4. \A i \in 1 .. len + 5 :
        (p \o f)[Len(p) + i] =
          [frame |-> n, pos |-> i,
           val |-> IF i = 1 THEN MT_RPC_SOF ELSE IF i = 2 THEN len ELSE d]
  BY <1>2, <1>3, Zenon
<1> QED
  BY <1>1, <1>3, <1>4, Zenon DEF Grown

-----------------------------------------------------------------------------
(* Broadcasts.                                                             *)

\* The first bytes of broadcasts.
LEMMA FirstOfSent ==
  ASSUME TypeOK, NEW s \in DOMAIN sent
  PROVE  sent[s][1] \in Bytes /\ sent[s] \in [1 .. SentBytes -> Bytes]
<1>1. sent \in Seq([1 .. SentBytes -> Bytes]) /\ s \in 1 .. Len(sent)
  BY LenProperties DEF TypeOK
<1>2. sent[s] \in [1 .. SentBytes -> Bytes]
  BY <1>1, ElementOfSeq
<1>3. 1 \in 1 .. SentBytes
  BY DEF SentBytes
<1> QED
  BY <1>2, <1>3

\* What was damaged stays so, and what is on its way is what was or a later frame.
Later(w, v, n) ==
  \A j \in DOMAIN v : (\E i \in DOMAIN w : v[j] = w[i]) \/ (v[j].frame \in Nat /\ v[j].frame > n)

\* Without a broadcast, what holds of broadcasts is kept.
LEMMA SentKept ==
  ASSUME TypeOK, FlowInv, sent' = sent, frames' \in Nat, frames <= frames',
         \A f : Damaged(f) => Damaged(f)',
         Later(Whole, Whole', frames)
  PROVE  /\ SentAreFrames'
         /\ \A s \in DOMAIN sent' : sent'[s][1].frame <= frames'
         /\ \A s \in DOMAIN sent' : \A j \in DOMAIN Whole' : Precedes(sent'[s][1], Whole'[j])
<1>1. /\ SentAreFrames
      /\ \A s \in DOMAIN sent : sent[s][1].frame <= frames
      /\ \A s \in DOMAIN sent : \A j \in DOMAIN Whole : Precedes(sent[s][1], Whole[j])
  BY DEF FlowInv
<1>2. SentAreFrames'
  <2>1. \A s \in DOMAIN sent : \A i \in 1 .. SentBytes :
          sent[s][i] # Junk /\ ~Damaged(sent[s][1].frame)'
          => sent[s][i].pos = i /\ sent[s][i].frame = sent[s][1].frame
    BY <1>1 DEF SentAreFrames
  <2> QED
    BY <1>1, <2>1 DEF SentAreFrames
<1>3. \A s \in DOMAIN sent : sent[s][1].frame \in Nat
  BY FirstOfSent, BytesFacts
<1>4. PICK v : v = Whole'
  OBVIOUS
<1>5. frames \in Nat /\ Later(Whole, v, frames)
  BY <1>4, BytesFacts DEF TypeOK
<1>6. ASSUME NEW s \in DOMAIN sent, NEW j \in DOMAIN v PROVE Precedes(sent[s][1], v[j])
  <2>1. CASE \E i \in DOMAIN Whole : v[j] = Whole[i]
    BY <1>1, <2>1
  <2>2. CASE v[j].frame \in Nat /\ v[j].frame > frames
    <3>1. PICK a, b : a = sent[s][1].frame /\ b = v[j].frame
      OBVIOUS
    <3>2. a \in Nat /\ b \in Nat /\ a <= frames /\ b > frames
      BY <1>1, <1>3, <2>2, <3>1
    <3>3. a < b
      BY <1>5, <3>2
    <3> QED
      BY <3>1, <3>3 DEF Precedes
  <2> QED
    BY <1>5, <2>1, <2>2 DEF Later
<1>7. ASSUME NEW s \in DOMAIN sent PROVE sent[s][1].frame <= frames'
  <2>1. sent[s][1].frame <= frames /\ sent[s][1].frame \in Nat
    BY <1>1, <1>3
  <2> QED
    BY <1>5, <2>1
<1> QED
  BY <1>2, <1>4, <1>6, <1>7, Zenon

\* The gateway and the line leave a flow.
LEMMA DropKeepsFlow ==
  ASSUME TypeOK, BufferInv, TypeOK', FlowInv, RpcStep \/ ByteArrives
  PROVE  \E v \in Seq(Bytes), m \in Nat :
           /\ v = Whole' /\ Behind(Whole, v, m, Len(v)) /\ IsFlow(v, frames, lost)
           /\ Later(Whole, v, frames) /\ UNCHANGED <<frames, lost>>
<1>1. PICK p \in Seq(Bytes) : Whole = p \o Whole'
  BY WholeDrops
<1>2. PICK v \in Seq(Bytes) : v = Whole'
  <2>1. /\ line' \in Seq(Bytes) /\ soc' \in Seq(Bytes) /\ rpcBuff' \in Seq(Bytes)
        /\ <<>> \in Seq(Bytes)
    BY DEF TypeOK
  <2>2. Begun' \in Seq(Bytes)
    BY <2>1 DEF Begun
  <2>3. line' \o soc' \in Seq(Bytes)
    BY <2>1, ConcatProperties
  <2>4. Begun' \o (line' \o soc') \in Seq(Bytes)
    BY <2>2, <2>3, ConcatProperties
  <2> QED
    BY <2>4 DEF Whole
<1>3. PICK m \in Nat, w \in {Whole} : Behind(w, v, m, Len(v))
  <2>1. Behind(p \o v, v, Len(p), Len(v)) /\ Len(p) \in Nat
    BY BehindIt
  <2> QED
    BY <1>1, <1>2, <2>1
<1>4. IsFlow(w, frames, lost)
  BY <1>3 DEF FlowInv
<1>5. IsFlow(v, frames, lost)
  BY <1>3, <1>4, FlowDrops
<1>6. Later(w, v, frames)
  <2>1. ASSUME NEW j \in DOMAIN v PROVE \E i \in DOMAIN w : v[j] = w[i]
    <3>1. j \in 1 .. Len(v) /\ v[j] = w[m + j] /\ m + j \in DOMAIN w
      BY <1>3 DEF Behind
    <3> QED
      BY <3>1
  <2> QED
    BY <2>1 DEF Later
<1>7. UNCHANGED <<frames, lost>>
  BY DEF RpcStep, ReadSof, NoLength, ReadLength, ReadBody, Retry, GiveUp, Broadcast, ByteArrives
<1> QED
  BY <1>2, <1>3, <1>5, <1>6, <1>7

\* The buffer still begins with a start of frame.
LEMMA BegunKeeps ==
  ASSUME TypeOK, BufferInv, FlowInv, RpcStep \/ ByteArrives
  PROVE  Begun' # <<>> => Begun'[1].pos = 1
<1>1. /\ line \in Seq(Bytes) /\ soc \in Seq(Bytes) /\ rpcBuff \in Seq(Bytes)
      /\ <<>> \o (line \o soc) = line \o soc
      /\ Begun # <<>> => Begun[1].pos = 1
  BY WholeFacts DEF FlowInv
<1>2. CASE ReadSof
  <2>1. PICK h : h = Head(line)
    OBVIOUS
  <2>2. /\ pc = "poll" /\ line # <<>> /\ Whole = line \o soc
        /\ \/ pc' = "len" /\ rpcBuff' = <<h>> /\ h.val = MT_RPC_SOF
           \/ pc' = "poll"
    BY <1>1, <1>2, <2>1 DEF ReadSof, Begun, Whole
  <2>3. 1 \in DOMAIN Whole /\ Whole[1] = h
    <3>1. Len(line) \in Nat \ {0} /\ h = line[1]
      BY <1>1, <2>1, <2>2, EmptySeq, HeadTailProperties
    <3>2. 1 \in 1 .. Len(line)
      BY <3>1
    <3>3. (line \o soc)[1] = line[1] /\ 1 \in DOMAIN (line \o soc)
      BY <1>1, <3>2, Joined
    <3> QED
      BY <2>2, <3>1, <3>3
  <2>4. h.val = MT_RPC_SOF => h.pos = 1
    BY <2>3 DEF FlowInv, IsFlow
  <2>5. CASE pc' = "poll"
    BY <2>5 DEF Begun
  <2>6. CASE pc' = "len" /\ rpcBuff' = <<h>> /\ h.val = MT_RPC_SOF
    <3>1. Begun' = <<h>> /\ <<h>>[1] = h
      BY <2>6 DEF Begun
    <3> QED
      BY <2>4, <2>6, <3>1
  <2> QED
    BY <2>2, <2>5, <2>6
<1>3. CASE ReadLength \/ ReadBody
  <2>1. Begun = rpcBuff /\ rpcBuff # <<>> /\ Begun' \in {rpcBuff', <<>>}
    BY <1>3 DEF ReadLength, ReadBody, Begun, BufferInv
  <2>2. PICK p \in Seq(Bytes) : rpcBuff' = rpcBuff \o p
    <3>1. CASE ReadLength
      <4>1. Head(line) \in Bytes /\ <<Head(line)>> \in Seq(Bytes)
        BY <1>1, <3>1, FirstAndRest DEF ReadLength
      <4>2. rpcBuff' = rpcBuff \o <<Head(line)>>
        BY <1>1, <3>1, <4>1, AppendIsConcat DEF ReadLength
      <4> QED
        BY <4>1, <4>2
    <3>2. CASE ReadBody
      BY <3>2, BodyFacts
    <3> QED
      BY <1>3, <3>1, <3>2
  <2>3. rpcBuff'[1] = rpcBuff[1]
    <3>1. Len(rpcBuff) \in Nat \ {0}
      BY <1>1, <2>1, EmptySeq, Zenon
    <3>2. 1 \in 1 .. Len(rpcBuff)
      BY <3>1
    <3>3. (rpcBuff \o p)[1] = rpcBuff[1]
      BY <1>1, <3>2, Joined
    <3> QED
      BY <2>2, <3>3
  <2> QED
    BY <1>1, <2>1, <2>3
<1>4. CASE NoLength \/ Retry \/ GiveUp \/ Broadcast \/ ByteArrives
  <2>1. rpcBuff' = rpcBuff
    BY <1>4 DEF NoLength, Retry, GiveUp, Broadcast, ByteArrives
  <2>2. pc' = pc \/ pc' = "poll" \/ pc' = "print" \/ (pc = "body" /\ pc' = "send")
    BY <1>4 DEF NoLength, Retry, GiveUp, Broadcast, ByteArrives
  <2>3. Begun' = Begun \/ Begun' = <<>>
    BY <2>1, <2>2 DEF Begun
  <2> QED
    BY <1>1, <2>3
<1> QED
  BY <1>2, <1>3, <1>4 DEF RpcStep

\* Everything but a broadcast that the gateway does keeps the flow and the broadcasts.
LEMMA DropKeeps ==
  ASSUME TypeOK, BufferInv, TypeOK', FlowInv, RpcStep \/ ByteArrives, sent' = sent
  PROVE  FlowInv'
<1>1. PICK v \in Seq(Bytes), m \in Nat :
        /\ v = Whole' /\ Behind(Whole, v, m, Len(v)) /\ IsFlow(v, frames, lost)
        /\ Later(Whole, v, frames) /\ UNCHANGED <<frames, lost>>
  BY DropKeepsFlow
<1>2. frames' \in Nat /\ frames <= frames'
  BY <1>1, BytesFacts DEF TypeOK
<1>3. \A f : Damaged(f) => Damaged(f)'
  BY <1>1 DEF Damaged
<1>4. /\ SentAreFrames'
      /\ \A s \in DOMAIN sent' : sent'[s][1].frame <= frames'
      /\ \A s \in DOMAIN sent' : \A j \in DOMAIN Whole' : Precedes(sent'[s][1], Whole'[j])
  BY <1>1, <1>2, <1>3, SentKept
<1>5. IsFlow(Whole', frames', lost')
  BY <1>1
<1>6. Begun' # <<>> => Begun'[1].pos = 1
  BY BegunKeeps
<1> QED
  BY <1>4, <1>5, <1>6 DEF FlowInv

\* With a broadcast.
LEMMA BroadcastKeeps ==
  ASSUME TypeOK, BufferInv, TypeOK', FlowInv, Broadcast
  PROVE  FlowInv'
<1>1. PICK b \in Seq(Bytes) : b = rpcBuff
  BY DEF TypeOK
<1>2. PICK w \in Seq(Bytes), q \in Seq(Bytes) : w = Whole /\ q = line \o soc /\ w = b \o q
  BY <1>1, WholeFacts DEF Broadcast, Begun, Whole
<1>3. /\ pc = "send" /\ pc' \in {"poll", "print"} /\ Begun = b
      /\ sent' = Append(sent, Six(b)) /\ UNCHANGED <<line, soc, frames, lost>>
  BY <1>1 DEF Broadcast, Six, Begun
<1>4. Len(b) \in Nat /\ Len(b) >= 2 /\ Len(b) + rpcLen <= Uint8(b[2].val + 3) + 2 /\ rpcLen \in Nat
  BY <1>1, <1>3, BytesFacts DEF TypeOK, BufferInv
<1>5. /\ Len(w) = Len(b) + Len(q) /\ Len(q) \in Nat /\ DOMAIN w = 1 .. (Len(b) + Len(q))
      /\ \A i \in 1 .. Len(b) : w[i] = b[i] /\ i \in DOMAIN w
      /\ \A i \in 1 .. Len(q) : w[Len(b) + i] = q[i] /\ Len(b) + i \in DOMAIN w
      /\ DOMAIN q = 1 .. Len(q)
  <2>1. Parts(b \o q, b, q, Len(b), Len(q))
    BY PartsAre
  <2>2. Parts(w, b, q, Len(b), Len(q))
    BY <1>2, <2>1
  <2> QED
    BY <2>2, Zenon DEF Parts
<1>6. 1 \in 1 .. Len(b) /\ 2 \in 1 .. Len(b) /\ Len(b) # 0
  BY <1>4
<1>7. PICK f : f = b[1].frame
  OBVIOUS
<1>8. /\ f \in 1 .. frames /\ b[1].pos = 1 /\ w[1] = b[1] /\ b[2] = w[2]
      /\ (\E j \in DOMAIN lost : lost[j] = f) \/ Complete(w, 1)
  <2>1. IsFlow(w, frames, lost)
    BY <1>2 DEF FlowInv
  <2>2. b # <<>>
    BY <1>6
  <2> QED
    BY <1>3, <1>5, <1>6, <1>7, <2>1, <2>2 DEF FlowInv, IsFlow
<1>9. ASSUME NEW i \in 1 .. SentBytes, Six(b)[i] # Junk, ~Damaged(f)
      PROVE  Six(b)[i].pos = i /\ Six(b)[i].frame = f
  <2>1. i <= Len(b) /\ Six(b)[i] = b[i]
    BY <1>9 DEF Six
  <2>2. Complete(w, 1)
    BY <1>8, <1>9 DEF Damaged
  <2>3. w[1].pos \in Nat
    BY <1>8
  <2>4. PICK k \in Lengths, x, c \in Nat : CompleteAt(w, 1, k, x, c)
    BY <2>2, <2>3, CompleteMeans
  <2>5. /\ x = 1 /\ c = k + 4 /\ k \in Nat /\ k + 3 \in 0 .. ByteMod - 1
    <3>1. k \in 0 .. ByteMod - 6 /\ ByteMod \in Nat
      BY ConstAssumption
    <3>2. x = w[1].pos /\ c = k + 5 - x
      BY <2>4 DEF CompleteAt
    <3>3. x = 1
      BY <1>8, <3>2
    <3> QED
      BY <3>1, <3>2, <3>3
  <2>6. \A j \in 1 .. k + 5 : /\ w[j].frame = f /\ w[j].pos = j
                              /\ w[j].pos = 2 => w[j].val = k
    <3>1. \A j \in 1 .. 1 + c : /\ w[j].frame = w[1].frame /\ w[j].pos = x + (j - 1)
                                /\ w[j].pos = 2 => w[j].val = k
      BY <2>4 DEF CompleteAt
    <3>2. 1 + c = k + 5 /\ \A j \in 1 .. k + 5 : x + (j - 1) = j
      BY <2>5
    <3> QED
      BY <1>7, <1>8, <3>1, <3>2
  <2>7. b[2].val = k
    <3>1. 2 \in 1 .. k + 5
      BY <2>5
    <3> QED
      BY <1>8, <2>6, <3>1
  <2>8. Uint8(k + 3) = k + 3
    BY <2>5, Uint8Facts
  <2>9. i \in 1 .. k + 5 /\ i \in 1 .. Len(b)
    BY <1>4, <2>1, <2>5, <2>7, <2>8
  <2> QED
    BY <1>5, <2>1, <2>6, <2>9
<1>10. Six(b)[1] = b[1]
  BY <1>6 DEF Six, SentBytes
<1>11. /\ \A s \in DOMAIN sent : sent[s][1].frame > 0 /\ sent[s][1].pos = 1
       /\ \A s \in DOMAIN sent : \A i \in 1 .. SentBytes :
            sent[s][i] # Junk /\ ~Damaged(sent[s][1].frame)
            => sent[s][i].pos = i /\ sent[s][i].frame = sent[s][1].frame
       /\ \A s, t \in DOMAIN sent : s < t => sent[s][1].frame < sent[t][1].frame
       /\ \A s \in DOMAIN sent : sent[s][1].frame <= frames
       /\ \A s \in DOMAIN sent : \A j \in DOMAIN w : Precedes(sent[s][1], w[j])
  BY <1>2 DEF FlowInv, SentAreFrames
<1>12. PICK z \in Nat : z = Len(sent)
  BY DEF TypeOK
<1>13. PICK g : g = sent'
  OBVIOUS
<1>14. /\ DOMAIN sent = 1 .. z /\ DOMAIN g = 1 .. z + 1
       /\ \A s \in DOMAIN sent : g[s] = sent[s]
       /\ g[z + 1] = Six(b)
       /\ \A s \in DOMAIN g : s \in DOMAIN sent \/ s = z + 1
  <2>1. sent \in Seq([1 .. SentBytes -> Bytes]) /\ Six(b) \in [1 .. SentBytes -> Bytes]
    BY SixFacts DEF TypeOK
  <2>2. /\ Len(Append(sent, Six(b))) = Len(sent) + 1
        /\ \A s \in 1 .. Len(sent) : Append(sent, Six(b))[s] = sent[s]
        /\ Append(sent, Six(b))[Len(sent) + 1] = Six(b)
        /\ Append(sent, Six(b)) \in Seq([1 .. SentBytes -> Bytes])
    BY <2>1, AppendProperties
  <2>3. DOMAIN sent = 1 .. z /\ DOMAIN g = 1 .. z + 1
    BY <1>3, <1>12, <1>13, <2>1, <2>2, LenProperties
  <2>4. \A s \in 1 .. z + 1 : s \in 1 .. z \/ s = z + 1
    BY <1>12
  <2> QED
    BY <1>3, <1>12, <1>13, <2>2, <2>3, <2>4
<1>15. /\ \A s \in DOMAIN g : g[s][1].frame > 0 /\ g[s][1].pos = 1 /\ g[s][1].frame <= frames
  BY <1>7, <1>8, <1>10, <1>11, <1>14
<1>16. ASSUME NEW s \in DOMAIN g, NEW i \in 1 .. SentBytes, g[s][i] # Junk, ~Damaged(g[s][1].frame)
       PROVE  g[s][i].pos = i /\ g[s][i].frame = g[s][1].frame
  BY <1>7, <1>9, <1>10, <1>11, <1>14, <1>16
<1>17. ASSUME NEW s \in DOMAIN g, NEW t \in DOMAIN g, s < t PROVE g[s][1].frame < g[t][1].frame
  <2>1. CASE t \in DOMAIN sent
    <3>1. s \in DOMAIN sent
      BY <1>14, <1>17, <2>1
    <3> QED
      BY <1>11, <1>14, <1>17, <2>1, <3>1
  <2>2. CASE t = z + 1
    <3>1. s \in DOMAIN sent
      BY <1>14, <1>17, <2>2
    <3>2. Precedes(sent[s][1], w[1]) /\ sent[s][1].pos = 1
      BY <1>5, <1>6, <1>11, <3>1
    <3>3. sent[s][1].frame < f
      BY <1>7, <1>8, <3>2 DEF Precedes
    <3> QED
      BY <1>7, <1>10, <1>14, <2>2, <3>1, <3>3
  <2> QED
    BY <1>14, <2>1, <2>2
<1>18. ASSUME NEW s \in DOMAIN g, NEW j \in DOMAIN q PROVE Precedes(g[s][1], q[j])
  <2>1. q[j] = w[Len(b) + j] /\ Len(b) + j \in DOMAIN w /\ 1 \in DOMAIN w /\ 1 < Len(b) + j
    BY <1>4, <1>5, <1>6
  <2>2. Precedes(w[1], w[Len(b) + j])
    BY <1>2, <2>1 DEF FlowInv, IsFlow
  <2> QED
    BY <1>8, <1>10, <1>11, <1>14, <2>1, <2>2
<1>19. q = Whole' /\ Begun' = <<>>
  <2>1. <<>> \o (line \o soc) = line \o soc
    BY WholeFacts
  <2>2. Begun' = <<>>
    BY <1>3 DEF Begun
  <2> QED
    BY <1>2, <1>3, <2>1, <2>2 DEF Whole
<1>20. IsFlow(Whole', frames', lost')
  BY DropKeepsFlow DEF RpcStep
<1>21. SentAreFrames'
  <2>1. \A d : Damaged(d)' <=> Damaged(d)
    BY <1>3 DEF Damaged
  <2> QED
    BY <1>13, <1>15, <1>16, <1>17, <2>1 DEF SentAreFrames
<1>22. /\ \A s \in DOMAIN sent' : sent'[s][1].frame <= frames'
       /\ \A s \in DOMAIN sent' : \A j \in DOMAIN Whole' : Precedes(sent'[s][1], Whole'[j])
  BY <1>3, <1>13, <1>15, <1>18, <1>19
<1> QED
  BY <1>19, <1>20, <1>21, <1>22 DEF FlowInv

\* A byte that is lost.
LEMMA LossKeeps ==
  ASSUME TypeOK, FlowInv, ByteLost
  PROVE  FlowInv'
<1>1. /\ line \in Seq(Bytes) /\ soc \in Seq(Bytes) /\ Begun \in Seq(Bytes)
  BY WholeFacts
<1>2. /\ soc # <<>> /\ soc' = Tail(soc) /\ lost' = Append(lost, Head(soc).frame)
      /\ UNCHANGED <<line, frames, sent>> /\ Begun' = Begun
  BY DEF ByteLost, Begun
<1>3. PICK p \in Seq(Bytes) : p = Begun \o line
  BY <1>1, ConcatProperties
<1>4. Tail(soc) \in Seq(Bytes)
  BY <1>1, <1>2, HeadTailProperties
<1>5. PICK w : w = Whole /\ w = p \o soc
  <2>1. Begun \o (line \o soc) = (Begun \o line) \o soc
    BY <1>1, JoinedThree
  <2> QED
    BY <1>3, <2>1 DEF Whole
<1>6. PICK v : v = Whole' /\ v = p \o Tail(soc)
  <2>1. Begun \o (line \o Tail(soc)) = (Begun \o line) \o Tail(soc)
    BY <1>1, <1>4, JoinedThree
  <2> QED
    BY <1>2, <1>3, <2>1 DEF Whole
<1>7. PICK m : m = Len(p)
  OBVIOUS
<1>8. LosesOne(w, v, m) /\ w[m + 1] = Head(soc) /\ m + 1 \in DOMAIN w
  BY <1>1, <1>2, <1>5, <1>6, <1>7, TailLosesOne
<1>9. PICK g : g = lost'
  OBVIOUS
<1>10. /\ \A j \in DOMAIN lost : \E i \in DOMAIN g : g[i] = lost[j]
       /\ \E i \in DOMAIN g : g[i] = w[m + 1].frame
  <2>1. PICK h : h = Head(soc).frame
    OBVIOUS
  <2>2. h \in 1 .. MaxFrames /\ lost \in Seq(1 .. MaxFrames)
    <3>1. IsFlow(w, frames, lost) /\ frames \in 0 .. MaxFrames /\ MaxFrames \in Nat
      BY <1>5, BytesFacts DEF FlowInv, TypeOK
    <3>2. h \in 1 .. frames
      BY <1>8, <2>1, <3>1 DEF IsFlow
    <3> QED
      BY <3>1, <3>2 DEF TypeOK
  <2>3. /\ Len(lost) \in Nat /\ DOMAIN lost = 1 .. Len(lost)
        /\ g \in Seq(1 .. MaxFrames) /\ Len(g) = Len(lost) + 1
        /\ \A i \in 1 .. Len(lost) : g[i] = lost[i]
        /\ g[Len(lost) + 1] = h
    BY <1>2, <1>9, <2>1, <2>2, AppendProperties, LenProperties
  <2>4. DOMAIN g = 1 .. Len(lost) + 1
    BY <2>3, LenProperties
  <2>5. Len(lost) + 1 \in DOMAIN g /\ \A i \in DOMAIN lost : i \in DOMAIN g
    BY <2>3, <2>4
  <2> QED
    BY <1>8, <2>1, <2>3, <2>5
<1>11. IsFlow(v, frames, g)
  <2>1. IsFlow(w, frames, lost)
    BY <1>5 DEF FlowInv
  <2> QED
    BY <1>8, <1>10, <2>1, FlowLoses
<1>12. Later(w, v, frames)
  <2>1. ASSUME NEW j \in DOMAIN v PROVE v[j] = w[Was(m, j)] /\ Was(m, j) \in DOMAIN w
    BY <1>8 DEF LosesOne, Was
  <2> QED
    BY <2>1 DEF Later
<1>13. \A f : Damaged(f) => Damaged(f)'
  BY <1>9, <1>10 DEF Damaged
<1>14. frames' \in Nat /\ frames <= frames'
  BY <1>2, BytesFacts DEF TypeOK
<1>15. /\ SentAreFrames'
       /\ \A s \in DOMAIN sent' : sent'[s][1].frame <= frames'
       /\ \A s \in DOMAIN sent' : \A j \in DOMAIN Whole' : Precedes(sent'[s][1], Whole'[j])
  BY <1>2, <1>5, <1>6, <1>12, <1>13, <1>14, SentKept
<1>16. IsFlow(Whole', frames', lost')
  BY <1>2, <1>6, <1>9, <1>11
<1>17. Begun' # <<>> => Begun'[1].pos = 1
  <2>1. Begun' = Begun /\ rpcBuff' = rpcBuff
    BY <1>2 DEF ByteLost
  <2> QED
    BY <2>1 DEF FlowInv
<1> QED
  BY <1>15, <1>16, <1>17 DEF FlowInv

\* The next frame.
LEMMA BeginKeeps ==
  ASSUME SofIsStart, TypeOK, FlowInv, BeginFrame
  PROVE  FlowInv'
<1>1. /\ line \in Seq(Bytes) /\ soc \in Seq(Bytes) /\ Begun \in Seq(Bytes)
  BY WholeFacts
<1>2. /\ soc = <<>> /\ frames < MaxFrames /\ frames' = frames + 1
      /\ UNCHANGED <<line, lost, sent>> /\ Begun' = Begun
  BY DEF BeginFrame, Begun
<1>3. PICK len \in Lengths, d \in DataValues : soc' = Frame(frames + 1, len, d)
  BY DEF BeginFrame
<1>4. PICK n \in 1 .. MaxFrames : n = frames + 1
  BY <1>2, BytesFacts DEF TypeOK
<1>5. frames \in Nat /\ n = frames + 1 /\ soc' = Frame(n, len, d) /\ Frame(n, len, d) \in Seq(Bytes)
  BY <1>3, <1>4, FrameFacts DEF TypeOK
<1>6. PICK p \in Seq(Bytes) : p = Begun \o line
  BY <1>1, ConcatProperties
<1>7. Whole = p
  <2>1. Begun \o (line \o <<>>) = Begun \o line
    BY <1>1, ConcatEmptySeq
  <2> QED
    BY <1>2, <1>6, <2>1 DEF Whole
<1>8. PICK v : v = Whole' /\ v = p \o Frame(n, len, d)
  <2>1. Begun \o (line \o Frame(n, len, d)) = (Begun \o line) \o Frame(n, len, d)
    <3>1. PICK b \in Seq(Bytes), q \in Seq(Bytes) : b = Begun /\ q = line
      BY <1>1
    <3>2. PICK r \in Seq(Bytes) : r = Frame(n, len, d)
      BY <1>5
    <3>3. b \o (q \o r) = (b \o q) \o r
      BY JoinedThree
    <3> QED
      BY <3>1, <3>2, <3>3, Zenon
  <2> QED
    BY <1>2, <1>5, <1>6, <2>1 DEF Whole
<1>9. PICK m : m = Len(p)
  OBVIOUS
<1>10. Grown(p, v, m, n, len, d)
  BY <1>8, <1>9, FrameGrows
<1>11. IsFlow(v, n, lost)
  <2>1. IsFlow(p, frames, lost)
    BY <1>7 DEF FlowInv
  <2>2. Grown(p, v, m, frames + 1, len, d)
    BY <1>5, <1>10
  <2> QED
    BY <1>5, <2>1, <2>2, FlowGrows
<1>12. Later(p, v, frames)
  <2>1. ASSUME NEW j \in DOMAIN v
        PROVE  (\E i \in DOMAIN p : v[j] = p[i]) \/ (v[j].frame \in Nat /\ v[j].frame > frames)
    <3>1. m \in Nat /\ len + 5 \in Nat /\ j \in 1 .. (m + (len + 5)) /\ DOMAIN p = 1 .. m
      BY <1>10, FrameFacts DEF Grown
    <3>2. CASE j <= m
      <4>1. j \in 1 .. m
        BY <3>1, <3>2
      <4> QED
        BY <1>10, <3>1, <4>1 DEF Grown
    <3>3. CASE ~(j <= m)
      <4>1. PICK i \in 1 .. len + 5 : j = m + i
        <5>1. j - m \in 1 .. len + 5 /\ j = m + (j - m)
          BY <3>1, <3>3
        <5> QED
          BY <5>1
      <4>2. v[j].frame = n
        <5>1. PICK y : v[j] = [frame |-> n, pos |-> i, val |-> y]
          BY <1>10, <4>1, Zenon DEF Grown
        <5> QED
          BY <5>1
      <4> QED
        BY <1>5, <4>2
    <3> QED
      BY <3>2, <3>3
  <2> QED
    BY <2>1 DEF Later
<1>13. \A f : Damaged(f) => Damaged(f)'
  BY <1>2 DEF Damaged
<1>14. frames' \in Nat /\ frames <= frames'
  BY <1>2, <1>5
<1>15. /\ SentAreFrames'
       /\ \A s \in DOMAIN sent' : sent'[s][1].frame <= frames'
       /\ \A s \in DOMAIN sent' : \A j \in DOMAIN Whole' : Precedes(sent'[s][1], Whole'[j])
  BY <1>2, <1>7, <1>8, <1>12, <1>13, <1>14, SentKept
<1>16. IsFlow(Whole', frames', lost')
  BY <1>2, <1>5, <1>8, <1>11
<1>17. Begun' # <<>> => Begun'[1].pos = 1
  BY <1>2 DEF FlowInv
<1> QED
  BY <1>15, <1>16, <1>17 DEF FlowInv

-----------------------------------------------------------------------------
(* The invariant, and what it gives.                                       *)

\* Nothing has been sent, and nothing is on its way.
LEMMA FlowStarts == Init => FlowInv
<1> SUFFICES ASSUME Init PROVE FlowInv
  OBVIOUS
<1>1. /\ line = <<>> /\ soc = <<>> /\ sent = <<>> /\ Begun = <<>>
  BY DEF Init, Begun
<1>2. Whole = <<>>
  <2>1. <<>> \in Seq(Bytes)
    OBVIOUS
  <2>2. <<>> \o <<>> = <<>>
    BY <2>1, ConcatEmptySeq
  <2> QED
    BY <1>1, <2>2 DEF Whole
<1>3. DOMAIN <<>> = {}
  OBVIOUS
<1> QED
  BY <1>1, <1>2, <1>3 DEF FlowInv, IsFlow, SentAreFrames

\* Every step keeps the flow.
LEMMA FlowKept ==
  ASSUME SofIsStart, TypeOK, BufferInv, SocInv, TypeOK', FlowInv, [Next]_vars
  PROVE  FlowInv'
<1>1. CASE RpcStep /\ ~Broadcast
  <2>1. sent' = sent
    BY <1>1 DEF RpcStep, ReadSof, NoLength, ReadLength, ReadBody, Retry, GiveUp
  <2> QED
    BY <1>1, <2>1, DropKeeps
<1>2. CASE Broadcast
  BY <1>2, BroadcastKeeps
<1>3. CASE BeginFrame
  BY <1>3, BeginKeeps
<1>4. CASE ByteArrives
  <2>1. sent' = sent
    BY <1>4 DEF ByteArrives
  <2> QED
    BY <1>4, <2>1, DropKeeps
<1>5. CASE ByteLost
  BY <1>5, LossKeeps
<1>6. CASE UNCHANGED vars
  <2>1. UNCHANGED <<frames, lost, sent>> /\ Begun' = Begun /\ Whole' = Whole
    BY <1>6 DEF vars, Begun, Whole
  <2>2. \A f : Damaged(f)' <=> Damaged(f)
    BY <2>1 DEF Damaged
  <2>3. SentAreFrames'
    BY <2>1, <2>2 DEF FlowInv, SentAreFrames
  <2>4. IsFlow(Whole', frames', lost')
    BY <2>1 DEF FlowInv
  <2> QED
    BY <2>1, <2>3, <2>4 DEF FlowInv
<1> QED
  BY <1>1, <1>2, <1>3, <1>4, <1>5, <1>6 DEF Next

\* The whole of what is kept.
THEOREM RpcInvariant == Spec => []RpcInv
<1>1. Init => RpcInv
  BY TypesStart, FlowStarts DEF RpcInv
<1>2. ASSUME RpcInv, [Next]_vars PROVE RpcInv'
  <2>1. TypeOK' /\ BufferInv' /\ SocInv'
    BY <1>2, TypesKept DEF RpcInv
  <2>2. ASSUME SofIsStart PROVE FlowInv'
    BY <1>2, <2>1, <2>2, FlowKept DEF RpcInv
  <2>3. SofIsStart' <=> SofIsStart
    BY DEF SofIsStart, MT_RPC_SOF
  <2> QED
    BY <2>1, <2>2, <2>3 DEF RpcInv
<1> QED
  BY <1>1, <1>2, PTL DEF Spec

\* Broadcasts are frames, none of them sent twice or behind a later one, and what the
\* line lost nothing of is broadcast as it was sent.
THEOREM BroadcastsAreFrames ==
  ASSUME SofIsStart
  PROVE  Spec => []SentAreFrames
<1>1. RpcInv => SentAreFrames
  BY DEF RpcInv, FlowInv
<1> QED
  BY <1>1, RpcInvariant, PTL

\* A frame that has come whole is not given up: what is missing of a frame is either
\* still to come or was lost.
LEMMA GiveUpForCause ==
  ASSUME SofIsStart, RpcInv, GiveUp
  PROVE  \/ soc # <<>> /\ rpcBuff[1].frame = Head(soc).frame
         \/ Damaged(rpcBuff[1].frame)
<1>1. PICK b \in Seq(Bytes), q \in Seq(Bytes) : b = rpcBuff /\ q = soc
  BY DEF RpcInv, TypeOK
<1>2. pc = "body" /\ line = <<>>
  BY DEF GiveUp
<1>3. PICK w : w = Whole /\ w = b \o q
  <2>1. <<>> \o q = q
    BY ConcatEmptySeq
  <2> QED
    BY <1>1, <1>2, <2>1 DEF Whole, Begun
<1>4. /\ Len(b) >= 2 /\ rpcLen > 0 /\ rpcLen \in Nat
      /\ Len(b) + rpcLen <= Uint8(b[2].val + 3) + 2
  BY <1>1, <1>2, BytesFacts DEF RpcInv, TypeOK, BufferInv
<1>5. Parts(w, b, q, Len(b), Len(q))
  BY <1>3, PartsAre
<1>6. /\ Len(b) \in Nat /\ Len(q) \in Nat /\ Len(w) = Len(b) + Len(q)
      /\ \A i \in 1 .. Len(b) : w[i] = b[i] /\ i \in DOMAIN w
      /\ \A i \in 1 .. Len(q) : w[Len(b) + i] = q[i]
  BY <1>5, Zenon DEF Parts
<1>7. 1 \in 1 .. Len(b) /\ 2 \in 1 .. Len(b) /\ b # <<>>
  BY <1>4
<1>8. PICK f : f = b[1].frame
  OBVIOUS
<1>9. w[1] = b[1] /\ w[2] = b[2] /\ w[1].pos = 1 /\ (Damaged(f) \/ Complete(w, 1))
  <2>1. IsFlow(w, frames, lost) /\ Begun = b /\ Begun[1].pos = 1
    BY <1>1, <1>2, <1>3, <1>7 DEF RpcInv, FlowInv, Begun
  <2> QED
    BY <1>6, <1>7, <1>8, <2>1 DEF IsFlow, Damaged
<1>10. ASSUME Complete(w, 1) PROVE q # <<>> /\ f = Head(q).frame
  <2>1. w[1].pos \in Nat
    BY <1>9
  <2>2. PICK k \in Lengths, x, c \in Nat : CompleteAt(w, 1, k, x, c)
    BY <1>10, <2>1, CompleteMeans
  <2>3. x = 1 /\ c = k + 4 /\ k \in Nat /\ k + 3 \in 0 .. ByteMod - 1
    <3>1. k \in 0 .. ByteMod - 6 /\ ByteMod \in Nat
      BY ConstAssumption
    <3>2. x = w[1].pos /\ c = k + 5 - x
      BY <2>2 DEF CompleteAt
    <3>3. x = 1
      BY <1>9, <3>2
    <3> QED
      BY <3>1, <3>2, <3>3
  <2>4. /\ 1 + c = k + 5 /\ k + 5 <= Len(w)
        /\ \A j \in 1 .. k + 5 : /\ w[j].frame = w[1].frame /\ w[j].pos = x + (j - 1)
                                 /\ w[j].pos = 2 => w[j].val = k
    <3>1. 1 + c = k + 5
      BY <2>3
    <3>2. /\ 1 + c <= Len(w)
          /\ \A j \in 1 .. 1 + c : /\ w[j].frame = w[1].frame /\ w[j].pos = x + (j - 1)
                                   /\ w[j].pos = 2 => w[j].val = k
      BY <2>2 DEF CompleteAt
    <3> QED
      BY <3>1, <3>2
  <2>5. b[2].val = k
    <3>1. 2 \in 1 .. k + 5 /\ x + (2 - 1) = 2
      BY <2>3
    <3> QED
      BY <1>9, <2>4, <3>1
  <2>6. Uint8(k + 3) = k + 3
    BY <2>3, Uint8Facts
  <2>7. Len(b) + 1 \in 1 .. k + 5 /\ Len(q) # 0 /\ 1 \in 1 .. Len(q)
    BY <1>4, <1>6, <2>3, <2>4, <2>5, <2>6
  <2>8. w[Len(b) + 1].frame = w[1].frame
    BY <2>4, <2>7
  <2>9. w[Len(b) + 1] = q[1] /\ q # <<>> /\ Head(q) = q[1]
    BY <1>6, <2>7, HeadTailProperties
  <2> QED
    BY <1>8, <1>9, <2>8, <2>9
<1> QED
  BY <1>1, <1>8, <1>9, <1>10

\* Only GiveUp leaves a frame.
THEOREM GivesUpForCause ==
  ASSUME SofIsStart
  PROVE  Spec => GivenUpIsUnfinished
<1>1. ASSUME RpcInv, [Next]_vars, pc = "body", pc' = "poll", sent' = sent
      PROVE  \/ soc # <<>> /\ rpcBuff[1].frame = Head(soc).frame
             \/ Damaged(rpcBuff[1].frame)
  <2>1. GiveUp
    BY <1>1 DEF Next, RpcStep, ReadSof, NoLength, ReadLength, ReadBody, Retry, Broadcast,
                BeginFrame, ByteArrives, ByteLost, vars
  <2> QED
    BY <1>1, <2>1, GiveUpForCause
<1>2. RpcInv /\ [Next]_vars
      => [pc = "body" /\ pc' = "poll" /\ sent' = sent
            => \/ soc # <<>> /\ rpcBuff[1].frame = Head(soc).frame
               \/ Damaged(rpcBuff[1].frame)]_vars
  BY <1>1
<1> QED
  BY <1>2, RpcInvariant, PTL DEF Spec, GivenUpIsUnfinished

-----------------------------------------------------------------------------
(* What is read with a frame.                                              *)

\* As long as a frame is being read, what is in the buffer is that frame's own,
\* or a byte of the frame was lost: the reads take what its length says, and if it
\* lost nothing that many bytes of it come.
LEMMA OwnBytes ==
  ASSUME RpcInv, SofIsStart, pc \in {"len", "body", "send"}
  PROVE  OverreadsForLoss
<1>1. PICK b \in Seq(Bytes), l \in Seq(Bytes), q \in Seq(Bytes) :
        b = rpcBuff /\ l = line /\ q = soc
  BY DEF RpcInv, TypeOK
<1>2. PICK r \in Seq(Bytes) : r = l \o q
  BY ConcatProperties
<1>3. PICK w : w = Whole /\ w = b \o r
  BY <1>1, <1>2 DEF Whole, Begun
<1>4. Parts(w, b, r, Len(b), Len(r))
  BY <1>3, PartsAre
<1>5. /\ Len(b) \in Nat /\ DOMAIN b = 1 .. Len(b)
      /\ \A i \in 1 .. Len(b) : w[i] = b[i] /\ i \in DOMAIN w
  BY <1>4, LenProperties, Zenon DEF Parts
<1>6. Len(b) >= 1 /\ (pc = "len" => Len(b) = 1) /\ (pc # "len" => Len(b) >= 2)
  BY <1>1, <1>5 DEF RpcInv, BufferInv
<1>7. CASE Len(b) = 1
  BY <1>1, <1>5, <1>7 DEF OverreadsForLoss, Overread
<1>8. CASE Len(b) >= 2
  <2>1. /\ rpcLen \in Nat /\ Len(b) + rpcLen <= Uint8(b[2].val + 3) + 2
    BY <1>1, <1>6, <1>8, BytesFacts DEF RpcInv, TypeOK
  <2>2. 1 \in 1 .. Len(b) /\ 2 \in 1 .. Len(b) /\ b # <<>>
    BY <1>5, <1>8
  <2>3. w[1] = b[1] /\ w[2] = b[2] /\ w[1].pos = 1 /\ (Damaged(b[1].frame) \/ Complete(w, 1))
    <3>1. IsFlow(w, frames, lost) /\ Begun = b /\ Begun[1].pos = 1
      BY <1>1, <1>3, <2>2 DEF RpcInv, FlowInv, Begun
    <3> QED
      BY <1>5, <2>2, <3>1 DEF IsFlow, Damaged
  <2>4. ASSUME Complete(w, 1), NEW i \in 1 .. Len(b) PROVE b[i].frame = b[1].frame
    <3>1. w[1].pos \in Nat
      BY <2>3
    <3>2. PICK k \in Lengths, x, c \in Nat : CompleteAt(w, 1, k, x, c)
      BY <2>4, <3>1, CompleteMeans
    <3>3. x = 1 /\ c = k + 4 /\ k \in Nat /\ k + 3 \in 0 .. ByteMod - 1
      <4>1. k \in 0 .. ByteMod - 6 /\ ByteMod \in Nat
        BY ConstAssumption
      <4>2. x = w[1].pos /\ c = k + 5 - x
        BY <3>2 DEF CompleteAt
      <4> QED
        BY <2>3, <4>1, <4>2
    <3>4. \A j \in 1 .. k + 5 : /\ w[j].frame = w[1].frame /\ w[j].pos = x + (j - 1)
                                /\ w[j].pos = 2 => w[j].val = k
      <4>1. 1 + c = k + 5
        BY <3>3
      <4>2. \A j \in 1 .. 1 + c : /\ w[j].frame = w[1].frame /\ w[j].pos = x + (j - 1)
                                  /\ w[j].pos = 2 => w[j].val = k
        BY <3>2 DEF CompleteAt
      <4> QED
        BY <4>1, <4>2
    <3>5. b[2].val = k
      <4>1. 2 \in 1 .. k + 5 /\ x + (2 - 1) = 2
        BY <3>3
      <4> QED
        BY <2>3, <3>4, <4>1
    <3>6. Uint8(k + 3) = k + 3
      BY <3>3, Uint8Facts
    <3>7. i \in 1 .. k + 5
      BY <1>5, <2>1, <3>3, <3>5, <3>6
    <3>8. w[i].frame = w[1].frame /\ w[i] = b[i]
      BY <1>5, <3>4, <3>7
    <3> QED
      BY <2>3, <3>8
  <2> QED
    BY <1>1, <1>5, <2>3, <2>4 DEF OverreadsForLoss, Overread
<1> QED
  BY <1>6, <1>7, <1>8

\* Without memory for a frame its start and its length are all that is read of it.
LEMMA OwnLength ==
  ASSUME RpcInv, SofIsStart, ReadLength
  PROVE  OverreadsForLoss'
<1>1. PICK b \in Seq(Bytes), l \in Seq(Bytes), q \in Seq(Bytes) :
        b = rpcBuff /\ l = line /\ q = soc
  BY DEF RpcInv, TypeOK
<1>2. PICK r \in Seq(Bytes) : r = l \o q
  BY ConcatProperties
<1>3. /\ pc = "len" /\ l # <<>> /\ Len(b) = 1
      /\ rpcBuff' = Append(b, Head(l)) /\ lost' = lost
  BY <1>1 DEF ReadLength, RpcInv, BufferInv
<1>4. PICK w : w = Whole /\ w = b \o r
  BY <1>1, <1>2, <1>3 DEF Whole, Begun
<1>5. Parts(w, b, r, Len(b), Len(r)) /\ Parts(r, l, q, Len(l), Len(q))
  BY <1>2, <1>4, PartsAre
<1>6. Len(l) \in Nat /\ 1 \in 1 .. Len(l) /\ Head(l) = l[1]
  <2>1. 1 \in DOMAIN l /\ Head(l) = l[1]
    BY <1>3, HeadIsFirst
  <2> QED
    BY <2>1, LenProperties
<1>7. w[1] = b[1] /\ 1 \in DOMAIN w
  <2>1. /\ \A i \in 1 .. Len(b) : w[i] = b[i] /\ i \in DOMAIN w
    BY <1>5, Zenon DEF Parts
  <2> QED
    BY <1>3, <2>1
<1>8. w[2] = Head(l)
  <2>1. r[1] = l[1]
    BY <1>5, <1>6, Zenon DEF Parts
  <2>2. 1 \in 1 .. Len(r)
    <3>1. Len(r) = Len(l) + Len(q) /\ Len(q) \in Nat
      BY <1>5, Zenon DEF Parts
    <3> QED
      BY <1>6, <3>1
  <2>3. w[Len(b) + 1] = r[1]
    BY <1>5, <2>2, Zenon DEF Parts
  <2> QED
    BY <1>3, <1>6, <2>1, <2>3
<1>9. w[1].pos = 1 /\ (Damaged(b[1].frame) \/ Complete(w, 1))
  <2>1. IsFlow(w, frames, lost) /\ Begun = b /\ b # <<>> /\ Begun[1].pos = 1
    BY <1>1, <1>3, <1>4, EmptySeq DEF RpcInv, FlowInv, BufferInv, Begun
  <2> QED
    BY <1>7, <2>1 DEF IsFlow, Damaged
<1>10. ASSUME Complete(w, 1) PROVE w[2].frame = w[1].frame
  <2>1. w[1].pos \in Nat
    BY <1>9
  <2>2. PICK k \in Lengths, x, c \in Nat : CompleteAt(w, 1, k, x, c)
    BY <1>10, <2>1, CompleteMeans
  <2>3. 2 \in 1 .. 1 + c
    <3>1. k \in Nat /\ x = w[1].pos /\ c = k + 5 - x
      BY <2>2, ConstAssumption DEF CompleteAt
    <3> QED
      BY <1>9, <3>1
  <2> QED
    BY <2>2, <2>3 DEF CompleteAt
<1>11. /\ DOMAIN rpcBuff' = {1, 2} /\ rpcBuff'[1] = b[1] /\ rpcBuff'[2] = Head(l)
  <2>1. Head(l) \in Bytes
    BY <1>3, HeadTailProperties
  <2>2. /\ DOMAIN Append(b, Head(l)) = 1 .. (Len(b) + 1) /\ DOMAIN b = 1 .. Len(b)
        /\ \A j \in DOMAIN b : Append(b, Head(l))[j] = b[j]
        /\ Append(b, Head(l))[Len(b) + 1] = Head(l)
    BY <2>1, AppendKeeps
  <2> QED
    BY <1>3, <2>2
<1>12. Damaged(b[1].frame)' <=> Damaged(b[1].frame)
  BY <1>3 DEF Damaged
<1> QED
  BY <1>3, <1>7, <1>8, <1>9, <1>10, <1>11 DEF OverreadsForLoss, Overread, Damaged

\* What was true of the buffer stays so while the loop is elsewhere.
LEMMA OverreadStep ==
  ASSUME RpcInv, SofIsStart, OverreadsForLoss, [Next]_vars
  PROVE  pc' \notin {"len", "body", "send"} => OverreadsForLoss'
<1> SUFFICES ASSUME pc' \notin {"len", "body", "send"} PROVE OverreadsForLoss'
  OBVIOUS
<1>1. CASE ReadLength
  BY <1>1, OwnLength
<1>2. CASE rpcBuff' = rpcBuff /\ \A f : Damaged(f) => Damaged(f)'
  BY <1>2 DEF OverreadsForLoss, Overread
<1>3. CASE UNCHANGED <<rpcBuff, lost>>
  BY <1>2, <1>3 DEF Damaged
<1>4. CASE ReadSof \/ NoLength \/ Retry \/ GiveUp \/ Broadcast \/ BeginFrame \/ ByteArrives
  BY <1>3, <1>4 DEF ReadSof, NoLength, Retry, GiveUp, Broadcast, BeginFrame, ByteArrives
<1>5. CASE ReadBody
  BY <1>5 DEF ReadBody
<1>6. CASE ByteLost
  <2>1. lost \in Seq(1 .. MaxFrames) /\ soc \in Seq(Bytes) /\ SocInv
    BY DEF RpcInv, TypeOK
  <2>2. rpcBuff' = rpcBuff /\ lost' = Append(lost, Head(soc).frame)
    BY <1>6 DEF ByteLost
  <2>3. DOMAIN lost \subseteq DOMAIN lost' /\ \A j \in DOMAIN lost : lost'[j] = lost[j]
    <3>1. 1 \in DOMAIN soc /\ Head(soc) = soc[1] /\ Head(soc) \in Bytes
      BY <1>6, <2>1, HeadIsFirst, HeadTailProperties DEF ByteLost
    <3>2. Head(soc).frame \in 1 .. MaxFrames
      <4>1. Head(soc).frame \in 0 .. MaxFrames
        BY <3>1 DEF Bytes
      <4>2. Head(soc).frame > 0
        BY <2>1, <3>1 DEF SocInv
      <4> QED
        BY <4>1, <4>2, ConstAssumption
    <3> QED
      BY <2>1, <2>2, <3>2, AppendKeeps
  <2> QED
    BY <1>2, <2>2, <2>3 DEF Damaged
<1>7. CASE UNCHANGED vars
  BY <1>3, <1>7 DEF vars
<1> QED
  BY <1>1, <1>4, <1>5, <1>6, <1>7 DEF Next, RpcStep

\* Nothing but a loss on the line makes the gateway read over the end of a frame.
THEOREM OnlyLossOverreads ==
  ASSUME SofIsStart
  PROVE  Spec => []OverreadsForLoss
<1> DEFINE Stale == pc \notin {"len", "body", "send"} => OverreadsForLoss
<1>1. RpcInv => (pc \in {"len", "body", "send"} => OverreadsForLoss)
  BY OwnBytes
<1>2. Init => Stale
  BY DEF Init, OverreadsForLoss, Overread
<1>3. RpcInv /\ Stale /\ [Next]_vars => Stale'
  BY <1>1, OverreadStep
<1>4. RpcInv /\ Stale => OverreadsForLoss
  BY <1>1
<1> QED
  BY <1>2, <1>3, <1>4, RpcInvariant, PTL DEF Spec
=============================================================================
