---------------------------- MODULE CommandStream ----------------------------
(***************************************************************************)
(* The commands of one client as bytes: zbSocSocketServerProcess and       *)
(* Socket_ProcessIncoming (zbSocSocketServer.c) read them from a           *)
(* non-blocking TCP socket, and zbSocSetDevice / zbSocGetDeviceData        *)
(* (zbSocCmd.c) write the device's command to the serial port.             *)
(*                                                                         *)
(* A command is SOF, length, cmd0, cmd1, data, FCS.  TCP keeps the order   *)
(* of the bytes and not the boundaries of the messages: if it splits, the  *)
(* first part of a command may be readable while the rest is on its way.   *)
(* Module Gateway takes a command as a unit; this module is what is under  *)
(* its action ReadCommands.                                                *)
(***************************************************************************)
EXTENDS Integers, Sequences, FiniteSets, SequencesExt, Filter

CONSTANTS
  Commands,    \* commands the client sends: [option, state]
  MaxSent,     \* bound: commands sent in a run
  SplitModes,  \* whether commands may arrive in parts: a subset of BOOLEAN
  CharSigns    \* whether the build's char is signed: a subset of BOOLEAN

MT_RPC_SOF == 254
SetOptions == {1, 2}      \* LED, buzzer
GetOptions == 3 .. 7      \* sensors; option 8 is only printed

\* a command that asks for a sensor carries no data
ASSUME CmdAssumption ==
  /\ Commands \subseteq [option : 1 .. 8, state : 0 .. 255]
  /\ \A cmd \in Commands : cmd.option \notin SetOptions => cmd.state = 0
  /\ MaxSent \in Nat
  /\ SplitModes \subseteq BOOLEAN /\ CharSigns \subseteq BOOLEAN

VARIABLES
  splits,      \* this run's mode and
  signedChar,  \* its build
  pc,          \* "idle" in poll(), "ioctl", "header", "rest", "handle",
               \* "closed": record deleted; "crash": the process is lost
  hup,         \* POLLRDHUP was among the events of this round
  byteToRead,  \* as FIONREAD said, less what was read since
  byteRead,    \* sum of the two results of read()
  buffer,      \* bytes read into the buffer; it is zero behind them
  flight,      \* network: commands, or rests of them, not yet arrived
  rcv,         \* kernel: bytes that can be read
  client,      \* "open", "closing", "fin": its FIN has arrived
  sent,        \* history: commands the client sent
  done         \* history: device commands handed to write()

modes == <<splits, signedChar>>
netVars == <<modes, flight, rcv, client, sent>>
cmdVars == <<pc, hup, byteToRead, byteRead, buffer, netVars, done>>

\* the exclusive or of bytes: the bits that are set in an odd number of them
XorOf(bytes) ==
  LET odd(bit) == bit * (Cardinality({i \in DOMAIN bytes : (bytes[i] \div bit) % 2 = 1}) % 2)
  IN odd(1) + odd(2) + odd(4) + odd(8) + odd(16) + odd(32) + odd(64) + odd(128)

\* calcFcs of the client fills in the last byte
Bytes(cmd) ==
  LET body == IF cmd.option \in SetOptions THEN <<1, cmd.option, 0, cmd.state>>
                                           ELSE <<0, cmd.option, 0>>
  IN <<MT_RPC_SOF>> \o Append(body, XorOf(body))

\* buffer[i], counted from 0 as in the code
Byte(i) == IF i < Len(buffer) THEN buffer[i + 1] ELSE 0
Char(b) == IF signedChar /\ b > 127 THEN b - 256 ELSE b
MsgLen  == Char(Byte(1))

\* what read(fd, , n) returns; a size below 0 is refused
ReadCount(n) ==
  IF n < 0 THEN -1
  ELSE IF n = 0 THEN 0
  ELSE IF rcv # <<>> THEN IF n < Len(rcv) THEN n ELSE Len(rcv)
  ELSE IF client = "fin" THEN 0 ELSE -1

CmdInit ==
  /\ splits \in SplitModes /\ signedChar \in CharSigns
  /\ pc = "idle" /\ hup = FALSE
  /\ byteToRead = 0 /\ byteRead = 0 /\ buffer = <<>>
  /\ flight = <<>> /\ rcv = <<>> /\ client = "open"
  /\ sent = <<>> /\ done = <<>>

-----------------------------------------------------------------------------
(* The gateway.                                                            *)

\* Mutant of PollReturns: only POLLIN is asked for.
PollInput ==
  /\ pc = "idle" /\ (rcv # <<>> \/ client = "fin")
  /\ hup' = FALSE
  /\ pc' = "ioctl"
  /\ UNCHANGED <<byteToRead, byteRead, buffer, netVars, done>>

PollReturns ==
  /\ pc = "idle" /\ (rcv # <<>> \/ client = "fin")
  /\ hup' = (client = "fin")
  /\ pc' = "ioctl"
  /\ UNCHANGED <<byteToRead, byteRead, buffer, netVars, done>>

Ioctl ==
  /\ pc = "ioctl"
  /\ byteToRead' = Len(rcv)
  /\ pc' = "header"
  /\ UNCHANGED <<hup, byteRead, buffer, netVars, done>>

\* back in socketSeverPoll, which handles the shutdown after the input
AfterProcess == IF hup THEN "closed" ELSE "idle"

AllRead ==
  /\ pc = "header" /\ byteToRead = 0
  /\ pc' = AfterProcess
  /\ UNCHANGED <<hup, byteToRead, byteRead, buffer, netVars, done>>

\* the buffer up to where the second read puts its bytes, whatever came first
Padded(bytes) == bytes \o [i \in 1 .. 4 - Len(bytes) |-> 0]

\* the first read, into a cleared buffer
ReadHeader ==
  /\ pc = "header" /\ byteToRead # 0
  /\ LET n == ReadCount(4)
     IN /\ byteRead' = n
        /\ buffer' = Padded(SubSeq(rcv, 1, n))
        /\ rcv' = IF n > 0 THEN SubSeq(rcv, n + 1, Len(rcv)) ELSE rcv
  /\ pc' = "rest"
  /\ UNCHANGED <<modes, hup, byteToRead, flight, client, sent, done>>

\* Mutant of ReadRest: one message is read for an event.
ReadOneMessage ==
  /\ pc = "rest"
  /\ LET n == ReadCount(MsgLen + 1)
         sum == byteRead + n
     IN /\ byteRead' = sum
        /\ byteToRead' = 0
        /\ buffer' = buffer \o SubSeq(rcv, 1, n)
        /\ rcv' = IF n > 0 THEN SubSeq(rcv, n + 1, Len(rcv)) ELSE rcv
        /\ pc' = IF sum < 0 \/ sum < MsgLen THEN AfterProcess ELSE "handle"
  /\ UNCHANGED <<modes, hup, flight, client, sent, done>>

\* the second read, at buffer[4]; its result is added even when it is -1
ReadRest ==
  /\ pc = "rest"
  /\ LET n == ReadCount(MsgLen + 1)
         sum == byteRead + n
     IN /\ byteRead' = sum
        /\ byteToRead' = byteToRead - sum
        /\ buffer' = buffer \o SubSeq(rcv, 1, n)
        /\ rcv' = IF n > 0 THEN SubSeq(rcv, n + 1, Len(rcv)) ELSE rcv
        /\ pc' = IF sum < 0 \/ sum < MsgLen THEN AfterProcess ELSE "handle"
  /\ UNCHANGED <<modes, hup, flight, client, sent, done>>

\* CheckcalcFcs accepts: the byte behind the last one read, zero if the
\* message is whole, is the exclusive or of bytes 1 .. size-1
FcsMatches(size) == XorOf([i \in 1 .. size - 1 |-> Byte(i)]) = Byte(size)

\* zbSocSetDevice or zbSocGetDeviceData: the command is handed to write().
\* (tcflush(TCOFLUSH), which follows, may discard what has not left yet.)
Execute(option, state) == done' = Append(done, [option |-> option, state |-> state])

Data == IF Byte(1) # 0 THEN Byte(4) ELSE 0

\* Mutant of Socket_ProcessIncoming: the start of frame is not looked at.
ProcessUnframed ==
  IF FcsMatches(byteRead)
    THEN \/ Byte(2) \in SetOptions /\ Execute(Byte(2), Data)
         \/ Byte(2) \in GetOptions /\ Execute(Byte(2), 0)
         \/ Byte(2) \notin SetOptions \cup GetOptions /\ UNCHANGED done
    ELSE UNCHANGED done

Socket_ProcessIncoming ==
  IF Byte(0) = MT_RPC_SOF /\ FcsMatches(byteRead)
    THEN \/ Byte(2) \in SetOptions /\ Execute(Byte(2), Data)
         \/ Byte(2) \in GetOptions /\ Execute(Byte(2), 0)
         \/ Byte(2) \notin SetOptions \cup GetOptions /\ UNCHANGED done
    ELSE UNCHANGED done

Handle ==
  /\ pc = "handle"
  /\ Byte(0) # MT_RPC_SOF \/ byteRead > 0
  /\ Socket_ProcessIncoming
  /\ pc' = "header"
  /\ UNCHANGED <<hup, byteToRead, byteRead, buffer, netVars>>

\* Start of frame, 1 + (-1) = 0 bytes: CheckcalcFcs counts down from -1 and
\* leaves the buffer, the stack and the address space.
HandleOverrun ==
  /\ pc = "handle"
  /\ Byte(0) = MT_RPC_SOF /\ byteRead = 0
  /\ pc' = "crash"
  /\ UNCHANGED <<hup, byteToRead, byteRead, buffer, netVars, done>>

ServerStep == \/ PollReturns \/ Ioctl \/ AllRead \/ ReadHeader \/ ReadRest
              \/ Handle \/ HandleOverrun

-----------------------------------------------------------------------------
(* The client and the network.                                             *)

serverVars == <<pc, hup, byteToRead, byteRead, buffer, done>>

\* socketClientSendData: one send() of a whole command
SendData ==
  /\ client = "open" /\ Len(sent) < MaxSent
  /\ \E cmd \in Commands : /\ sent' = Append(sent, cmd)
                           /\ flight' = Append(flight, Bytes(cmd))
  /\ UNCHANGED <<modes, serverVars, rcv, client>>

Close ==
  /\ client = "open"
  /\ client' = "closing"
  /\ UNCHANGED <<modes, serverVars, flight, rcv, sent>>

Arrive ==
  /\ flight # <<>>
  /\ LET first == Head(flight)
     IN \E k \in 1 .. Len(first) :
          /\ splits \/ k = Len(first)
          /\ rcv' = rcv \o SubSeq(first, 1, k)
          /\ flight' = IF k = Len(first) THEN Tail(flight)
                       ELSE <<SubSeq(first, k + 1, Len(first))>> \o Tail(flight)
  /\ UNCHANGED <<modes, serverVars, client, sent>>

FinArrives ==
  /\ client = "closing" /\ flight = <<>>
  /\ client' = "fin"
  /\ UNCHANGED <<modes, serverVars, flight, rcv, sent>>

CmdNext == ServerStep \/ SendData \/ Close \/ Arrive \/ FinArrives

\* The gateway's loop is always scheduled, and TCP delivers what was sent.
CmdSpec == /\ CmdInit /\ [][CmdNext]_cmdVars
           /\ WF_cmdVars(ServerStep) /\ WF_cmdVars(Arrive) /\ WF_cmdVars(FinArrives)

-----------------------------------------------------------------------------
(* Properties.                                                             *)

Executable == Only(sent, {cmd \in Commands : cmd.option \in SetOptions \cup GetOptions})

\* When commands arrive whole, what the gateway hands to write() is what the
\* client sent: the same options and states, in order, none left out before another,
\* however commands pile up in the socket and whatever arrives after FIONREAD.
\* The client's connection is only closed when all of it was handed over.
ExecutedAsSent ==
  ~splits => /\ IsPrefix(done, Executable)
             /\ pc = "closed" => done = Executable

\* A command that arrives whole is executed without another one being sent, and
\* a client that shuts down is seen to, and its connection closed.
CommandsAreServed ==
  /\ \A n \in 1 .. MaxSent : (~splits /\ Len(Executable) >= n) ~> (Len(done) >= n)
  /\ (~splits /\ client = "closing") ~> pc = "closed"

\* However a command is split: the gateway executes commands the client sent,
\* or it turns off an LED that the client sent a command for.
LedOffIsTheOnlyInvention ==
  \A i \in DOMAIN done :
    \/ done[i] \in Range(sent)
    \/ /\ done[i] = [option |-> 1, state |-> 0]
       /\ \E cmd \in Range(sent) : cmd.option = 1

=============================================================================
