------------------------------ MODULE TcpPackets ------------------------------
(***************************************************************************)
(* The packets of Tcp_client.c: the connection this host makes to a server *)
(* and makes again when it is closed, and those that remotes make to this  *)
(* host.  All of them are read by one thread into one buffer,              *)
(* RemoteSocketData, which is cut into packets:                            *)
(*   header, two bytes of length, data, FCS.                               *)
(* A byte is modelled as its packet, with its length, its place in it and  *)
(* its value.                                                              *)
(* Headers that are not in the repository say what a header, the FCS and   *)
(* the smallest packet are; see the README for what is assumed of them.    *)
(***************************************************************************)
EXTENDS Integers, Sequences, SequencesExt, Filter

CONSTANTS
  Servers,     \* connections of tcp_socket_event_handler
  Remotes,     \* connections of tcp_ServerClient_handler, each used once
  NoConn,      \* no connection
  Lengths,     \* lengths of the data of packets
  MinCmdPacketLength,
  MaxCacheBufferLength,
  MaxPackets,  \* bound: packets sent in a run
  MaxCloses    \* bound: connections closed by their peers in a run

Conns == Servers \cup Remotes

ASSUME ConstAssumption ==
  /\ Servers \cap Remotes = {} /\ NoConn \notin Conns
  /\ Lengths \subseteq 1 .. 255
  /\ MinCmdPacketLength \in 4 .. MaxCacheBufferLength
  /\ MaxCacheBufferLength \in Nat
  /\ \A len \in Lengths : len + 4 \in MinCmdPacketLength .. MaxCacheBufferLength
  /\ MaxPackets \in Nat /\ MaxCloses \in Nat

HEADER == 254

VARIABLES
  link,     \* "none": not yet connected; "up"; "retry": closed, the reconnection
            \* timer runs; "closed"
  buffer,   \* RemoteSocketData, its first bufferNum bytes
  rcv,      \* kernel: bytes that can be read, for each connection
  flight,   \* network: bytes not yet arrived
  peer,     \* "up", or how the peer has ended: "fin", "reset"
  sender,   \* history: the connection of each packet sent
  closes,   \* history: connections closed by their peers
  read,     \* history: packets read to their last byte, in order
  handled,  \* history: packets given to server_incoming_data_handler
  last,     \* history: connection of the buffer's last byte, while it is up
  mixed     \* history: bytes of a connection have come behind another one's

envVars == <<flight, peer, sender, closes>>
vars == <<link, buffer, rcv, envVars, read, handled, last, mixed>>

Packet(id, len) ==
  [i \in 1 .. len + 4 |->
     [pkt |-> id, pos |-> i, len |-> len,
      val |-> CASE i = 1 -> HEADER [] i = 2 -> 0 [] i = 3 -> len [] OTHER -> 1]]

\* the last byte of a packet, and the packets that end among some bytes
IsEnd(b) == b.pos = b.len + 4
LastBytes == {b \in [pkt : Nat, pos : Nat, len : Nat, val : Nat] : IsEnd(b)}
Ended(bytes) ==
  LET ends == Only(bytes, LastBytes) IN [i \in DOMAIN ends |-> ends[i].pkt]

Init ==
  /\ link \in [Conns -> {"none", "up", "retry"}]
  /\ \A c \in Conns : link[c] = "none" <=> c \in Remotes
  /\ buffer = <<>>
  /\ rcv = [c \in Conns |-> <<>>] /\ flight = [c \in Conns |-> <<>>]
  /\ peer = [c \in Conns |-> "up"]
  /\ sender = <<>> /\ closes = 0
  /\ read = <<>> /\ handled = <<>> /\ last = NoConn /\ mixed = FALSE

-----------------------------------------------------------------------------
(* Cutting the buffer.                                                     *)

\* place of the first header byte, 0 if there is none
lookupFirstPacketHeader(buf) ==
  SelectInSeq(buf, LAMBDA b : b.val = HEADER)

\* an ideal FCS: it holds for the bytes of one packet and no others
checkPacketFCS(bytes) ==
  /\ \A i \in DOMAIN bytes : bytes[i].pkt = bytes[1].pkt /\ bytes[i].pos = i
  /\ IsEnd(bytes[Len(bytes)])

\* Mutants of CutPacket: bufferNum is left as it was, so that the bytes that
\* were moved down stay behind,
CutKept(buf, size) ==
  SubSeq(buf, size + 1, Len(buf)) \o SubSeq(buf, Len(buf) - size + 1, Len(buf))

\* or the buffer is cleared with the packet.
CutAll(buf, size) == IF size > 0 THEN <<>> ELSE buf

CutPacket(buf, size) == SubSeq(buf, size + 1, Len(buf))

\* The loop over the buffer, the packets handled, and whether it goes on: one round.
\* (The length is read from behind bufferNum if fewer than three bytes are left;
\* whatever it is, more bytes are waited for then.)
Cut(buf, out, go) == [buf |-> buf, out |-> out, go |-> go]

CutOne(st) ==
  LET h == lookupFirstPacketHeader(st.buf)
      b == SubSeq(st.buf, h, Len(st.buf))
      size == IF Len(b) < 3 THEN Len(b) + 1 ELSE b[2].val * 256 + b[3].val + 4
  IN IF ~st.go \/ Len(st.buf) < MinCmdPacketLength THEN Cut(st.buf, st.out, FALSE)
     ELSE IF h = 0 THEN Cut(<<>>, st.out, FALSE)
     ELSE IF size > Len(b) THEN Cut(b, st.out, FALSE)
     ELSE Cut(CutPacket(b, size),
              IF checkPacketFCS(SubSeq(b, 1, size)) THEN Append(st.out, b[1].pkt) ELSE st.out,
              TRUE)

\* every round that goes on takes at least one byte
CutPackets(buf) ==
  LET round[n \in 0 .. MaxCacheBufferLength] ==
        IF n = 0 THEN Cut(buf, <<>>, TRUE) ELSE CutOne(round[n - 1])
  IN round[MaxCacheBufferLength]

-----------------------------------------------------------------------------
(* The connections.                                                        *)

\* the end of the stream, or a reset, has come
EndCame(c) == peer[c] = "reset" \/ (peer[c] = "fin" /\ flight[c] = <<>>)

\* poll() reports POLLIN
Readable(c) == link[c] = "up" /\ (rcv[c] # <<>> \/ EndCame(c))

Smaller(m, n) == IF m < n THEN m ELSE n

\* bytes that recv() finds: the rest of the buffer is offered
RecvCount(c) == Smaller(Len(rcv[c]), MaxCacheBufferLength - Len(buffer))

\* recv() returns -1: once after a reset
RecvFails(c) == rcv[c] = <<>> /\ peer[c] = "reset" /\ Len(buffer) < MaxCacheBufferLength

\* recv(), and the packets handled
Receive(c) ==
  IF RecvCount(c) = 0 THEN UNCHANGED <<buffer, handled, read, mixed>>
  ELSE LET new == SubSeq(rcv[c], 1, RecvCount(c))
           cut == CutPackets(buffer \o new)
       IN /\ buffer' = cut.buf
          /\ handled' = handled \o cut.out
          /\ read' = read \o Ended(new)
          /\ mixed' = (mixed \/ (buffer # <<>> /\ last # c))

\* the connection stays as it is
Stays(c) ==
  /\ rcv' = [rcv EXCEPT ![c] = SubSeq(@, RecvCount(c) + 1, Len(@))]
  /\ last' = IF RecvCount(c) > 0 THEN c ELSE last
  /\ peer' = IF RecvFails(c) THEN [peer EXCEPT ![c] = "fin"] ELSE peer
  /\ UNCHANGED <<link, flight, sender, closes>>

\* its descriptor is closed, and what has not been read is lost
Ends(c, state) ==
  /\ link' = [link EXCEPT ![c] = state]
  /\ rcv' = [rcv EXCEPT ![c] = <<>>]
  /\ flight' = [flight EXCEPT ![c] = <<>>]
  /\ peer' = [peer EXCEPT ![c] = "up"]
  /\ last' = IF last = c \/ RecvCount(c) > 0 THEN NoConn ELSE last
  /\ UNCHANGED <<sender, closes>>

\* tcp_socket_event_handler: when recv() returns 0, which it does at the end of
\* the stream and when no room was offered, the connection is closed and made
\* again, at once or, if that fails in any of its ways, by the timer.
ServerEvent(c) ==
  /\ Readable(c) /\ Receive(c)
  /\ IF RecvCount(c) > 0 \/ RecvFails(c) THEN Stays(c)
     ELSE \E state \in {"up", "retry"} : Ends(c, state)

\* tcp_socket_reconnect_to_server, called by the timer, when it succeeds
Reconnect(c) ==
  /\ link[c] = "retry"
  /\ link' = [link EXCEPT ![c] = "up"]
  /\ UNCHANGED <<buffer, rcv, envVars, read, handled, last, mixed>>

\* tcp_ServerClient_handler: one recv(), then the record is deleted if POLLRDHUP
\* was reported, whatever is left to be read.  (The end may have come after the
\* poll() that reported data.)
RemoteEvent(c) ==
  /\ Readable(c) /\ Receive(c)
  /\ \/ (rcv[c] # <<>> \/ ~EndCame(c)) /\ Stays(c)
     \/ EndCame(c) /\ Ends(c, "closed")

\* tcp_Server_handler
Accept(c) ==
  /\ link[c] = "none"
  /\ link' = [link EXCEPT ![c] = "up"]
  /\ UNCHANGED <<buffer, rcv, envVars, read, handled, last, mixed>>

HostStep == \/ \E c \in Servers : ServerEvent(c) \/ Reconnect(c)
            \/ \E c \in Remotes : RemoteEvent(c) \/ Accept(c)

-----------------------------------------------------------------------------
(* The peers and the network.                                              *)

hostVars == <<link, buffer, read, handled, last, mixed>>

SendPacket(c) ==
  /\ link[c] = "up" /\ peer[c] = "up" /\ Len(sender) < MaxPackets
  /\ sender' = Append(sender, c)
  /\ \E len \in Lengths : flight' = [flight EXCEPT ![c] = @ \o Packet(Len(sender) + 1, len)]
  /\ UNCHANGED <<hostVars, rcv, peer, closes>>

\* TCP delivers bytes in order, any number between two reads
Arrive(c) ==
  /\ flight[c] # <<>>
  /\ rcv' = [rcv EXCEPT ![c] = Append(@, Head(flight[c]))]
  /\ flight' = [flight EXCEPT ![c] = Tail(@)]
  /\ UNCHANGED <<hostVars, peer, sender, closes>>

\* a peer ends in order, or is reset, in the middle of a packet, too
PeerEnds(c) ==
  /\ link[c] = "up" /\ peer[c] = "up" /\ closes < MaxCloses
  /\ closes' = closes + 1
  /\ \/ peer' = [peer EXCEPT ![c] = "fin"] /\ UNCHANGED flight
     \/ peer' = [peer EXCEPT ![c] = "reset"] /\ flight' = [flight EXCEPT ![c] = <<>>]
  /\ UNCHANGED <<hostVars, rcv, sender>>

Next == HostStep \/ \E c \in Conns : SendPacket(c) \/ Arrive(c) \/ PeerEnds(c)

Spec == Init /\ [][Next]_vars

-----------------------------------------------------------------------------
(* Properties.                                                             *)

\* As long as no bytes come behind those of another connection, every packet is
\* handled when its last byte is read, wherever TCP cuts the stream and however
\* many packets one recv() returns.  Even when bytes are mixed, no packet is
\* handled twice, and those of one connection are handled in the order sent.
PacketsHandledOnce ==
  /\ mixed \/ handled = read
  /\ \A i, j \in DOMAIN handled :
       i < j => handled[i] # handled[j]
                /\ (sender[handled[i]] = sender[handled[j]] => handled[i] < handled[j])

\* A connection is only closed when its peer has ended, or after bytes were
\* mixed: without that, recv() is never offered an empty buffer.
ClosedByPeer ==
  [][\A c \in Conns : link[c] = "up" /\ link'[c] # "up" => peer[c] # "up" \/ mixed]_vars

=============================================================================
