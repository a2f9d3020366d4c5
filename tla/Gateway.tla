------------------------------- MODULE Gateway -------------------------------
(***************************************************************************)
(* The lighting gateway: the poll loop of zbFwStart.c, the list of socket  *)
(* records of zbSocSocketServer.c and the broadcast that zbSocProcessRpc   *)
(* (zbSocCmd.c) makes of each frame the ZigBee SoC sends.                  *)
(*                                                                         *)
(* One process runs the loop:                                              *)
(*   poll    copy the record list into pollfd entries and wait in poll()   *)
(*   serial  if the serial port is readable, read a frame and send it to   *)
(*           every client                                                  *)
(*   sweep   visit the entries in order: read what a client sent, then     *)
(*           close it if poll() said so.  What poll() said of an entry is  *)
(*           used even if the list or the descriptors changed since        *)
(* The clients, the kernel's descriptor table and the SoC are the          *)
(* environment and move between any two steps of the loop, also between    *)
(* the reads and the close of one entry.  A command or a frame is one      *)
(* unit, or its start with the rest still to come.  A handler that waits   *)
(* in a loop of its own (pc "rest", "print", "serial" at a "part") stops   *)
(* the whole gateway.                                                      *)
(***************************************************************************)
EXTENDS Integers, Sequences, FiniteSets, SequencesExt

CONSTANTS
  Conns,      \* connections clients may open, each used once
  NumFds,     \* descriptors the process may have for its sockets
  AcceptFails,\* whether accept() may fail for want of memory or of open files
  Slow,       \* connections whose send buffer may be full (write: EAGAIN)
  Splits,     \* connections whose commands may come in two parts
  Listener,   \* what the listening descriptor refers to
  NoConn,     \* what a free descriptor refers to
  MaxCmds,    \* bound: commands of one client not yet read
  MaxSerial,  \* bound: items waiting on the serial port
  MaxFrames,  \* bound: frames broadcast in a run
  MaxRecords  \* bound: accept() fails only while the list is shorter

ASSUME ConstAssumption ==
  /\ NumFds \in Nat \ {0}
  /\ AcceptFails \in BOOLEAN
  /\ Slow \subseteq Conns /\ Splits \subseteq Conns
  /\ Listener \notin Conns /\ NoConn \notin Conns /\ Listener # NoConn
  /\ {MaxCmds, MaxSerial, MaxFrames, MaxRecords} \subseteq Nat

Fds == 1 .. NumFds
ListenFd == 1           \* the first descriptor the server opens
NoFd == -1              \* what accept() returns when it fails

PeerStates == {"none", "up", "fin", "finw", "reset", "broken"}
Gone  == {"fin", "finw", "reset", "broken"}   \* POLLRDHUP is raised
Taken == {"up", "fin", "finw"}                \* write() is accepted
Ended == {"fin", "finw", "broken"}            \* read() gives 0 once nothing is left

\* Where a client is in the command it sends: "no" split in it; "start": the first
\* part is readable and the rest to come; "torn": the first part was read without
\* the rest; "junk": the rest came after that, so the bytes are read out of step.
SplitStates == {"no", "start", "torn", "junk"}

VARIABLES
  pc,        \* where the loop is: "poll", "serial", "sweep"; at the entry in
             \* front "rest": its reads go on, "close": they are done;
             \* "print": in the loop of zbSocProcessRpc that prints; "dead": killed
  records,   \* descriptors in the order of the list at socketRecordHead
  pollFds,   \* entries of this round not done yet: [fd, revents], and as history
             \* what fd referred to at poll()
  fdTable,   \* kernel: what each descriptor refers to
  backlog,   \* kernel: connections waiting for accept()
  peer,      \* state of each client's end
  unread,    \* kernel: commands of each client not yet read
  split,     \* what was sent of the command each client is sending
  serial,    \* items readable on the serial port
  got,       \* frames written to each connection
  bcast,     \* history: broadcasts so far; broadcast n carries frame n
  joinedAt,  \* history: value of bcast when a connection was accepted, or -1
  drops      \* history: records removed because a write failed

loopVars == <<pc, records, pollFds, fdTable>>
histVars == <<bcast, joinedAt, drops>>
vars == <<loopVars, backlog, peer, unread, split, serial, got, histVars>>

Open(f) == f \in Fds /\ fdTable[f] # NoConn
Refers(f, c) == f \in Fds /\ fdTable[f] = c
Held(c) == \E f \in Fds : fdTable[f] = c
Pending(c) == \E i \in DOMAIN backlog : backlog[i] = c

\* Something of c can be read; its bytes are not whole commands in step.
Readable(c) == unread[c] > 0 \/ split[c] = "start"
Odd(c) == Readable(c) /\ split[c] # "no"

PollEntry == [fd : Fds \cup {NoFd}, revents : SUBSET {"POLLIN", "POLLRDHUP"},
              of : Conns \cup {Listener, NoConn}]

\* What the SoC sends: a byte that begins no frame, a frame, one with cmd0 >= 251,
\* or the SOF and the length of a frame whose rest is still to come.
SerialItem == {"noise", "frame", "loud", "part"}

Init ==
  /\ pc = "poll"
  /\ records = <<ListenFd>>
  /\ pollFds = <<>>
  /\ fdTable = [f \in Fds |-> IF f = ListenFd THEN Listener ELSE NoConn]
  /\ backlog = <<>>
  /\ peer = [c \in Conns |-> "none"]
  /\ unread = [c \in Conns |-> 0]
  /\ split = [c \in Conns |-> "no"]
  /\ serial = <<>>
  /\ got = [c \in Conns |-> <<>>]
  /\ bcast = 0
  /\ joinedAt = [c \in Conns |-> -1]
  /\ drops = 0

-----------------------------------------------------------------------------
(* The record list.                                                        *)

\* record i is the one deleteSocketRec(fd) stops at
FirstWith(fd, i) ==
  /\ i \in DOMAIN records
  /\ records[i] = fd
  /\ \A j \in 1 .. (i - 1) : records[j] # fd

\* No record has this fd, or it is the listening socket's: nothing is done.
KeepRec(fd) ==
  /\ fd \notin Range(records) \/ FirstWith(fd, 1)
  /\ UNCHANGED <<records, fdTable>>

\* Mutant of UnlinkRec: the descriptor is left open.
UnlinkWithoutClose(fd, i) ==
  /\ FirstWith(fd, i) /\ i # 1
  /\ records' = RemoveAt(records, i)
  /\ UNCHANGED fdTable

\* The record is unlinked and its descriptor closed (close(-1) does nothing).
UnlinkRec(fd, i) ==
  /\ FirstWith(fd, i)
  /\ i # 1
  /\ records' = RemoveAt(records, i)
  /\ fdTable' = [f \in Fds |-> IF f = fd THEN NoConn ELSE fdTable[f]]

deleteSocketRec(fd) == KeepRec(fd) \/ \E i \in DOMAIN records : UnlinkRec(fd, i)

FreeFds == {f \in Fds : fdTable[f] = NoConn}

\* Mutant of createSocketRec: the record is linked in directly behind the head.
InsertBehindHead ==
  \E f \in FreeFds :
    /\ backlog # <<>> /\ \A g \in FreeFds : f <= g
    /\ records' = <<Head(records), f>> \o Tail(records)
    /\ fdTable' = [fdTable EXCEPT ![f] = Head(backlog)]
    /\ joinedAt' = [joinedAt EXCEPT ![Head(backlog)] = bcast]
    /\ backlog' = Tail(backlog)

\* accept() takes the lowest free descriptor; without one, or when the system is
\* short of something, it fails, and the record is appended all the same, with
\* descriptor -1.
createSocketRec ==
  \/ /\ backlog # <<>>
     /\ \E f \in FreeFds :
          /\ \A g \in FreeFds : f <= g
          /\ records' = Append(records, f)
          /\ fdTable' = [fdTable EXCEPT ![f] = Head(backlog)]
     /\ joinedAt' = [joinedAt EXCEPT ![Head(backlog)] = bcast]
     /\ backlog' = Tail(backlog)
  \/ /\ FreeFds = {} \/ backlog = <<>> \/ (AcceptFails /\ Len(records) < MaxRecords)
     /\ records' = Append(records, NoFd)
     /\ UNCHANGED <<fdTable, joinedAt, backlog>>

-----------------------------------------------------------------------------
(* The loop.                                                               *)

\* Mutant of Revents: only POLLIN is asked for.
ReventsInput(f) ==
  IF f \notin Fds \/ fdTable[f] = NoConn THEN {}
  ELSE IF fdTable[f] = Listener THEN {e \in {"POLLIN"} : backlog # <<>>}
  ELSE {e \in {"POLLIN"} : Readable(fdTable[f]) \/ peer[fdTable[f]] \in Gone}

\* what poll() reports for a descriptor; an entry with fd -1 is ignored
Revents(f) ==
  IF f \notin Fds \/ fdTable[f] = NoConn THEN {}
  ELSE IF fdTable[f] = Listener THEN {e \in {"POLLIN"} : backlog # <<>>}
  ELSE {e \in {"POLLIN"} : Readable(fdTable[f]) \/ peer[fdTable[f]] \in Gone}
       \cup {e \in {"POLLRDHUP"} : peer[fdTable[f]] \in Gone}

EntryOf(f) == [fd |-> f, revents |-> Revents(f), of |-> IF f \in Fds THEN fdTable[f] ELSE NoConn]

\* Mutant of PollReturns: the walk over the list loses the first client.
PollWithoutFirst ==
  /\ pc = "poll"
  /\ serial # <<>> \/ \E i \in DOMAIN records : Revents(records[i]) # {}
  /\ LET polled == RemoveAt(records, 2)
     IN pollFds' = [i \in DOMAIN polled |-> EntryOf(polled[i])]
  /\ pc' = IF serial # <<>> THEN "serial" ELSE "sweep"
  /\ UNCHANGED <<records, fdTable, backlog, peer, unread, split, serial, got, histVars>>

PollReturns ==
  /\ pc = "poll"
  /\ serial # <<>> \/ \E i \in DOMAIN records : Revents(records[i]) # {}
  /\ pollFds' = [i \in 1 .. Len(records) |-> EntryOf(records[i])]
  /\ pc' = IF serial # <<>> THEN "serial" ELSE "sweep"
  /\ UNCHANGED <<records, fdTable, backlog, peer, unread, split, serial, got, histVars>>

\* A byte that is no start of frame, a start of frame behind which no length can
\* be read yet, or one for which malloc() fails, is consumed and nothing is sent.
ServeNoise ==
  /\ pc = "serial"
  /\ Head(serial) = "noise"
  /\ serial' = Tail(serial)
  /\ pc' = "sweep"
  /\ UNCHANGED <<records, pollFds, fdTable, backlog, peer, unread, split, got, histVars>>

WriteTaken(f)  == \E c \in Conns : Refers(f, c) /\ peer[c] \in Taken
WriteFails(f)  == \/ f = NoFd
                  \/ \E c \in Conns : /\ Refers(f, c)
                                      /\ peer[c] = "reset" \/ (peer[c] \in Taken /\ c \in Slow)
\* EPIPE on a socket whose peer is closed and has answered data with a reset:
\* SIGPIPE is raised, and nothing in the program handles or ignores it
WriteKills(f)  == \E c \in Conns : Refers(f, c) /\ peer[c] = "broken"

\* Mutant of Deliver: the walk starts one record late.
DeliverFromThird(k) ==
  LET reached == {c \in Conns : \E i \in 3 .. (k - 1) : Refers(records[i], c)}
  IN /\ \A i \in 3 .. (k - 1) : WriteTaken(records[i])
     /\ got' = [c \in Conns |-> IF c \in reached THEN Append(got[c], bcast + 1) ELSE got[c]]
     /\ UNCHANGED peer

\* The writes to records 2 .. k-1 are taken: the frame is in their send
\* buffers, and a client that has closed its socket will answer with a reset.
Deliver(k) ==
  LET reached == {c \in Conns : \E i \in 2 .. (k - 1) : Refers(records[i], c)}
  IN /\ \A i \in 2 .. (k - 1) : WriteTaken(records[i])
     /\ got' = [c \in Conns |-> IF c \in reached THEN Append(got[c], bcast + 1) ELSE got[c]]
     /\ peer' = [c \in Conns |-> IF c \in reached /\ peer[c] = "fin" THEN "finw" ELSE peer[c]]

\* A frame is read to its end.  While its rest is still to come, every read gives
\* nothing and zbSocProcessRpc reads again: no step of the gateway is possible.
TakeFrame ==
  /\ pc = "serial"
  /\ Head(serial) \in {"frame", "loud"}
  /\ bcast < MaxFrames
  /\ serial' = Tail(serial)
  /\ bcast' = bcast + 1
  /\ UNCHANGED <<pollFds, backlog, unread, split, joinedAt>>

\* The bytes of the frame are printed; with cmd0 >= 251 the loop, which counts in
\* a byte up to cmd0 + 5, never ends.
AfterFrame == IF Head(serial) = "loud" THEN "print" ELSE "sweep"

\* Mutant of SendStopsAtError: the record before it is deleted.
SendDropsPrevious(k) ==
  /\ TakeFrame
  /\ Deliver(k)
  /\ WriteFails(records[k])
  /\ deleteSocketRec(records[k - 1])
  /\ drops' = drops + 1
  /\ pc' = AfterFrame

\* socketSeverSendAllclients: every write is taken,
SendAllClients ==
  /\ TakeFrame
  /\ Deliver(Len(records) + 1)
  /\ pc' = AfterFrame
  /\ UNCHANGED <<records, fdTable, drops>>

\* or write k fails: that record is deleted and the function returns at once,
SendStopsAtError(k) ==
  /\ TakeFrame
  /\ Deliver(k)
  /\ WriteFails(records[k])
  /\ deleteSocketRec(records[k])
  /\ drops' = drops + 1
  /\ pc' = AfterFrame

\* or write k raises SIGPIPE, which ends the process.
SendIsKilled(k) ==
  /\ TakeFrame
  /\ Deliver(k)
  /\ WriteKills(records[k])
  /\ pc' = "dead"
  /\ UNCHANGED <<records, fdTable, drops>>

\* The entry in front is visited.
Entry == Head(pollFds)
Visiting == pc = "sweep" /\ pollFds # <<>>

SkipIdle ==
  /\ Visiting /\ Entry.revents = {}
  /\ pollFds' = Tail(pollFds)
  /\ UNCHANGED <<pc, records, fdTable, backlog, peer, unread, split, serial, got, histVars>>

\* socketSeverPoll on the listening socket
ServeListener ==
  /\ Visiting /\ Entry.revents # {} /\ Entry.fd = records[1]
  /\ createSocketRec
  /\ pollFds' = Tail(pollFds)
  /\ UNCHANGED <<pc, peer, unread, split, serial, got, bcast, drops>>

\* Mutant of ReadCommands: one command is read for an event.
ReadOneCommand(fd) ==
  /\ unread' = [c \in Conns |-> IF Refers(fd, c) THEN unread[c] - 1 ELSE unread[c]]
  /\ pc' = "close"

\* zbSocSocketServerProcess(fd) asks how many bytes there are and reads commands
\* until it has that many.  With whole commands in step the count comes out even.
\* If the descriptor is closed the reads fail and nothing happens.
ReadCommands(fd) ==
  LET odd == \E c \in Conns : Refers(fd, c) /\ Odd(c)
  IN /\ unread' = [c \in Conns |-> IF Refers(fd, c) /\ ~odd THEN 0 ELSE unread[c]]
     /\ pc' = IF odd THEN "rest" ELSE "close"

\* Mutant of ReadClient: the shutdown is handled instead of the input.
ShutdownInstead ==
  /\ Visiting /\ Entry.revents # {} /\ Entry.fd # records[1]
  /\ IF "POLLRDHUP" \notin Entry.revents
       THEN ReadCommands(Entry.fd)
       ELSE pc' = "close" /\ UNCHANGED unread
  /\ UNCHANGED <<records, pollFds, fdTable, backlog, peer, split, serial, got, histVars>>

\* socketSeverPoll on a client socket: the input first,
ReadClient ==
  /\ Visiting /\ Entry.revents # {} /\ Entry.fd # records[1]
  /\ IF "POLLIN" \in Entry.revents
       THEN ReadCommands(Entry.fd)
       ELSE pc' = "close" /\ UNCHANGED unread
  /\ UNCHANGED <<records, pollFds, fdTable, backlog, peer, split, serial, got, histVars>>

\* A read reports the reset of a connection once; then a write raises SIGPIPE.
ErrorRead(c) == IF peer[c] = "reset" THEN [peer EXCEPT ![c] = "broken"] ELSE peer

\* where the bytes already counted are not whole commands: what is there now is
\* read, and as the count does not come out even the reads go on.  They stop
\* when less came than the length in the buffer says, or the count is met by
\* chance, and with one byte in the buffer the FCS is taken over far too much.
ReadMore ==
  /\ pc = "rest"
  /\ \E c \in Conns :
       /\ Refers(Entry.fd, c) /\ Readable(c)
       /\ unread' = [unread EXCEPT ![c] = 0]
       /\ split' = [split EXCEPT ![c] = IF @ = "start" THEN "torn" ELSE "no"]
       /\ pc' \in {"rest"} \cup {p \in {"close", "dead"} : split[c] # "no"}
       /\ peer' \in {peer} \cup {p \in {ErrorRead(c)} : split[c] # "no"}
  /\ UNCHANGED <<records, pollFds, fdTable, backlog, serial, got, histVars>>

\* Nothing is there: both reads fail and the function returns.  Once the peer has
\* closed its end they give 0 instead, and the loop goes on for ever.
ReadEnds ==
  /\ pc = "rest"
  /\ \E c \in Conns :
       /\ Refers(Entry.fd, c) /\ ~Readable(c) /\ peer[c] \notin Ended
       /\ peer' = ErrorRead(c)
  /\ pc' = "close"
  /\ UNCHANGED <<records, pollFds, fdTable, backlog, unread, split, serial, got, histVars>>

\* then the shutdown.
CloseClient ==
  /\ pc = "close"
  /\ IF "POLLRDHUP" \in Entry.revents THEN deleteSocketRec(Entry.fd)
                                      ELSE UNCHANGED <<records, fdTable>>
  /\ pollFds' = Tail(pollFds)
  /\ pc' = "sweep"
  /\ UNCHANGED <<backlog, peer, unread, split, serial, got, histVars>>

LoopAgain ==
  /\ pc = "sweep"
  /\ pollFds = <<>>
  /\ pc' = "poll"
  /\ UNCHANGED <<records, pollFds, fdTable, backlog, peer, unread, split, serial, got, histVars>>

GatewayStep ==
  \/ PollReturns
  \/ ServeNoise
  \/ SendAllClients
  \/ \E k \in 2 .. Len(records) : SendStopsAtError(k) \/ SendIsKilled(k)
  \/ SkipIdle
  \/ ServeListener
  \/ ReadClient \/ ReadMore \/ ReadEnds \/ CloseClient
  \/ LoopAgain

-----------------------------------------------------------------------------
(* The environment.                                                        *)

EnvKeeps == UNCHANGED <<loopVars, got, histVars>>

Connect(c) ==
  /\ peer[c] = "none"
  /\ peer' = [peer EXCEPT ![c] = "up"]
  /\ backlog' = Append(backlog, c)
  /\ UNCHANGED <<unread, split, serial>> /\ EnvKeeps

Connected(c) == peer[c] = "up" /\ (Pending(c) \/ Held(c))

SendCommand(c) ==
  /\ Connected(c) /\ split[c] \in {"no", "junk"}
  /\ unread[c] < MaxCmds
  /\ unread' = [unread EXCEPT ![c] = @ + 1]
  /\ UNCHANGED <<backlog, peer, split, serial>> /\ EnvKeeps

\* TCP delivers the start of a command, and later the rest.
SendStart(c) ==
  /\ Connected(c) /\ split[c] = "no" /\ c \in Splits
  /\ split' = [split EXCEPT ![c] = "start"]
  /\ UNCHANGED <<backlog, peer, unread, serial>> /\ EnvKeeps

SendRest(c) ==
  /\ Connected(c) /\ split[c] \in {"start", "torn"}
  /\ unread[c] < MaxCmds
  /\ unread' = [unread EXCEPT ![c] = @ + 1]
  /\ split' = [split EXCEPT ![c] = IF @ = "start" THEN "no" ELSE "junk"]
  /\ UNCHANGED <<backlog, peer, serial>> /\ EnvKeeps

\* the client closes its socket in order (FIN), or abortively (RST)
Shutdown(c) ==
  /\ Connected(c)
  /\ \E how \in {"fin", "reset"} : peer' = [peer EXCEPT ![c] = how]
  /\ UNCHANGED <<backlog, unread, split, serial>> /\ EnvKeeps

\* the answer of a closed client to data written to it
ResetArrives(c) ==
  /\ peer[c] = "finw"
  /\ peer' = [peer EXCEPT ![c] = "broken"]
  /\ UNCHANGED <<backlog, unread, split, serial>> /\ EnvKeeps

ClientStep(c) ==
  Connect(c) \/ SendCommand(c) \/ SendStart(c) \/ SendRest(c) \/ Shutdown(c) \/ ResetArrives(c)

SocSends ==
  /\ Len(serial) < MaxSerial
  /\ serial # <<>> => Last(serial) # "part"
  /\ \E item \in SerialItem :
       /\ item # "noise" => bcast + Cardinality({i \in DOMAIN serial : serial[i] # "noise"}) < MaxFrames
       /\ serial' = Append(serial, item)
  /\ UNCHANGED <<backlog, peer, unread, split>> /\ EnvKeeps

\* The rest of the last frame comes.
SocFinishes ==
  /\ serial # <<>> /\ Last(serial) = "part"
  /\ \E item \in {"frame", "loud"} : serial' = Append(Front(serial), item)
  /\ UNCHANGED <<backlog, peer, unread, split>> /\ EnvKeeps

\* What they do once the gateway is dead or prints for ever is left out.
Environment ==
  /\ pc \notin {"dead", "print"}
  /\ (\E c \in Conns : ClientStep(c)) \/ SocSends \/ SocFinishes

Next == GatewayStep \/ Environment

\* The loop is one process that is always scheduled; poll() returns when
\* something is ready.  Nothing is assumed of the clients or of the SoC: they
\* need never send the rest of what they began.
Spec == Init /\ [][Next]_vars /\ WF_vars(GatewayStep)

-----------------------------------------------------------------------------
(* Properties.                                                             *)

\* Every variable keeps its type.
TypeOK ==
  /\ pc \in {"poll", "serial", "sweep", "rest", "close", "print", "dead"}
  /\ records \in Seq(Fds \cup {NoFd})
  /\ pollFds \in Seq(PollEntry)
  /\ fdTable \in [Fds -> Conns \cup {Listener, NoConn}]
  /\ backlog \in Seq(Conns)
  /\ peer \in [Conns -> PeerStates]
  /\ unread \in [Conns -> Nat]
  /\ split \in [Conns -> SplitStates]
  /\ serial \in Seq(SerialItem)
  /\ got \in [Conns -> Seq(Nat)]
  /\ bcast \in Nat
  /\ joinedAt \in [Conns -> Nat \cup {-1}]
  /\ drops \in Nat

\* "Head is always the listening socket" (createSocketRec, socketSeverPoll):
\* whatever is accepted, dropped or deleted, in any order, record 1 holds the
\* descriptor of the listening socket and that descriptor is never closed.
HeadIsListener ==
  /\ records # <<>>
  /\ records[1] = ListenFd
  /\ fdTable[ListenFd] = Listener

\* The list and the kernel agree: a descriptor is open exactly when a record
\* holds it (nothing leaks, no record is left on a closed descriptor), and two
\* records with the same descriptor are records of failed accept()s.
RecordsAreOpenFds ==
  /\ \A f \in Fds : Open(f) <=> f \in Range(records)
  /\ \A i, j \in DOMAIN records : i # j /\ records[i] = records[j] => records[i] = NoFd

\* A broadcast that stops at an error is only missed behind it: a client whose
\* record is earlier in the list has every frame that a later one has, whatever
\* was dropped or accepted in between.
EarlierRecordsMissLess ==
  \A i, j \in 2 .. Len(records) : \A c, d \in Conns :
    i < j /\ Refers(records[i], c) /\ Refers(records[j], d)
    => Range(got[d]) \subseteq Range(got[c])

\* A connected client can miss a frame only because the broadcast stopped at
\* another record, which is deleted: it misses no more frames than records
\* were dropped.
MissesBoundedByDrops ==
  \A c \in Conns : Held(c) /\ pc # "dead" => (bcast - joinedAt[c]) - Len(got[c]) <= drops

\* When the sweep closes a connection that poll() reported as shut down in order,
\* everything that client sent has been read, also what it sent in parts: POLLIN
\* is handled before POLLRDHUP, and nothing comes between the two.  (Of a
\* connection that only reused the descriptor this is not so.)
ClosedAfterDrain ==
  [][\A c \in Conns :
       /\ pc = "close" /\ Held(c) /\ ~Held(c)'
       /\ Entry.of = c /\ peer[c] # "reset"
       => ~Readable(c)]_vars

\* Only a client whose shutdown poll() has just reported, and whom the sweep of
\* the same round would have closed, can end the gateway with SIGPIPE in a
\* broadcast: the serial port is served before the sockets.
KilledByReported ==
  [][pc = "serial" /\ pc' = "dead" =>
       \E e \in Range(pollFds) : \E c \in Conns :
         /\ e.of = c /\ "POLLRDHUP" \in e.revents
         /\ Refers(e.fd, c) /\ peer[c] = "broken"]_vars

\* The client waits for accept(), or has shut down and still has its descriptor.
Waits(c) == Pending(c) \/ (Held(c) /\ peer[c] \in Gone)

\* The gateway serves nobody: it was killed, prints for ever, waits for the rest
\* of a frame, or reads on because a client's bytes did not come out even.
Halted ==
  \/ pc \in {"dead", "print", "rest"}
  \/ pc = "serial" /\ Head(serial) = "part"

\* Unless it comes to a state of Halted for good, the gateway accepts each client
\* that connects (accept() fails finitely often), and deletes the record of each
\* that shuts down, before or after that, and closes its descriptor, whatever
\* the others and the SoC do.
ClientsAreServed ==
  []<>~Halted => \A c \in Conns : Waits(c) ~> ~Waits(c)

\* "its a shut down close the socket": socketSeverPoll closes the connections
\* of clients that shut down, and of no others.
SweepClosesOnlyShutdown ==
  [][\A c \in Conns : pc = "close" /\ Held(c) /\ ~Held(c)' => peer[c] \in Gone]_vars

=============================================================================
