----------------------------- MODULE EpollService -----------------------------
(***************************************************************************)
(* The chat service of service.c: an epoll loop over a listening socket    *)
(* and its clients, with the record list of socket.c.  Every message read  *)
(* from one client is written to all.                                      *)
(*                                                                         *)
(* The descriptors are watched edge-triggered: something new puts a socket *)
(* on the kernel's ready list, epoll_wait() takes it off, and it is not    *)
(* reported again for what it still holds.  The service accepts one        *)
(* connection and reads one message for each event.  A message is one      *)
(* buffer of 1024 bytes, as client.c sends it.                             *)
(***************************************************************************)
EXTENDS Integers, Sequences, FiniteSets, SequencesExt, Filter

CONSTANTS
  Conns,       \* connections clients may open, each used once
  NumFds,      \* descriptors the process may have for its sockets
  Slow,        \* connections whose send buffer may be full (write: EAGAIN)
  AcceptFails, \* whether accept() or malloc() may fail at any time
  Listener,    \* what the listening descriptor refers to
  NoConn,      \* what a free descriptor refers to
  MaxSent      \* bound: messages clients send in a run

ASSUME ConstAssumption ==
  /\ NumFds \in Nat \ {0}
  /\ Slow \subseteq Conns
  /\ AcceptFails \in BOOLEAN
  /\ Listener \notin Conns /\ NoConn \notin Conns /\ Listener # NoConn
  /\ MaxSent \in Nat

Fds == 1 .. NumFds
ListenFd == 1           \* the first descriptor the service opens
Files == Conns \cup {Listener}

PeerStates == {"none", "up", "fin", "finw", "reset", "broken"}
Gone  == {"fin", "finw", "reset", "broken"}
Taken == {"up", "fin", "finw"}                \* write() is accepted

VARIABLES
  pc,        \* "wait": at epoll_wait(); "serve": events left; "dead": killed
  events,    \* descriptors of the events of this round not served yet
  records,   \* descriptors in the order of the list at socketRecordHead
  buf,       \* the message in the buffer
  fdTable,   \* kernel: what each descriptor refers to
  interest,  \* kernel: the files the epoll instance watches
  ready,     \* kernel: those with something new, in order
  backlog,   \* kernel: connections waiting for accept()
  peer,      \* state of each client's end
  sent,      \* number of messages each client has sent
  read,      \* number of them the service has read
  got,       \* history: messages written to each client
  spent,     \* history: files whose event may have been used up for less than
             \* they held: two unread things at once, a failed accept(), or a
             \* reset that a read reported as an error
  dropped    \* history: connections whose record a broadcast deleted

srvVars == <<pc, events, records, buf, fdTable, interest, read, got, dropped>>
vars == <<srvVars, ready, backlog, peer, sent, spent>>

Refers(f, c) == f \in Fds /\ fdTable[f] = c
Held(c) == \E f \in Fds : fdTable[f] = c
Pending(c) == c \in Range(backlog)
Unread(c) == sent[c] - read[c]

Empty == [from |-> NoConn, num |-> 0]     \* a buffer of zeros
Message == [from : Conns, num : 1 .. MaxSent] \cup {Empty}

Init ==
  /\ pc = "wait" /\ events = <<>> /\ records = <<ListenFd>> /\ buf = Empty
  /\ fdTable = [f \in Fds |-> IF f = ListenFd THEN Listener ELSE NoConn]
  /\ interest = {Listener} /\ ready = <<>> /\ backlog = <<>>
  /\ peer = [c \in Conns |-> "none"]
  /\ sent = [c \in Conns |-> 0] /\ read = [c \in Conns |-> 0]
  /\ got = [c \in Conns |-> <<>>]
  /\ spent = {} /\ dropped = {}

-----------------------------------------------------------------------------
(* The kernel's side of epoll.                                             *)

Readable(file) ==
  IF file = Listener THEN backlog # <<>>
  ELSE Unread(file) > 0 \/ peer[file] \in Gone

\* the ready list when something new has come to a file
Wake(file) ==
  IF file \in interest /\ file \notin Range(ready) THEN Append(ready, file) ELSE ready

-----------------------------------------------------------------------------
(* The service.                                                            *)

\* epoll_wait: what is on the ready list and can still be read
EpollWait ==
  /\ pc = "wait" /\ ready # <<>>
  /\ LET found == Only(ready, {file \in Files : Readable(file)})
     IN /\ events' = [i \in DOMAIN found |-> CHOOSE f \in Fds : fdTable[f] = found[i]]
        /\ pc' = IF found = <<>> THEN "wait" ELSE "serve"
  /\ ready' = <<>>
  /\ UNCHANGED <<records, buf, fdTable, interest, backlog, peer, sent, read, got, spent, dropped>>

\* Mutant of EventDone: break for continue.
EventBreak == events' = <<>> /\ pc' = "wait"

\* the loop over the events goes on
EventDone ==
  /\ events' = Tail(events)
  /\ pc' = IF Tail(events) = <<>> THEN "wait" ELSE "serve"

FreeFds == {f \in Fds : fdTable[f] = NoConn}

\* createSocketRec, and EPOLL_CTL_ADD: a socket that has something to be read
\* already is ready at once
Accept ==
  /\ pc = "serve" /\ Head(events) = ListenFd
  /\ backlog # <<>>
  /\ \E f \in FreeFds :
       /\ \A g \in FreeFds : f <= g
       /\ records' = Append(records, f)
       /\ fdTable' = [fdTable EXCEPT ![f] = Head(backlog)]
  /\ interest' = interest \cup {Head(backlog)}
  /\ ready' = IF Readable(Head(backlog)) THEN Append(ready, Head(backlog)) ELSE ready
  /\ backlog' = Tail(backlog)
  /\ EventDone
  /\ UNCHANGED <<buf, peer, sent, read, got, spent, dropped>>

AcceptFailed ==
  /\ pc = "serve" /\ Head(events) = ListenFd
  /\ FreeFds = {} \/ AcceptFails
  /\ spent' = spent \cup {Listener}
  /\ EventDone
  /\ UNCHANGED <<records, buf, fdTable, interest, ready, backlog, peer, sent, read, got, dropped>>

\* Mutant of deleteSocketRec: the descriptor stays open.
UnlinkOnly(f) ==
  /\ records' = Only(records, Fds \ {f})
  /\ UNCHANGED <<fdTable, interest, ready>>

\* The record is unlinked and its descriptor closed, which takes the socket out
\* of epoll.  (No record has a descriptor that is closed or the listener's.)
deleteSocketRec(f) ==
  /\ records' = Only(records, Fds \ {f})
  /\ fdTable' = [fdTable EXCEPT ![f] = NoConn]
  /\ interest' = interest \ {fdTable[f]}
  /\ ready' = Only(ready, Files \ {fdTable[f]})

\* Mutant of Received: the buffer is not cleared before the read.
ReceivedUncleared(f) ==
  IF \E c \in Conns : Refers(f, c) /\ Unread(c) > 0
    THEN [from |-> fdTable[f], num |-> read[fdTable[f]] + 1] ELSE buf

\* What SocketRecv leaves in the cleared buffer: a message, or nothing after an
\* error, which is not looked at.  (The descriptor may be closed or reused since
\* epoll_wait(): EBADF, EAGAIN.)
Received(f) ==
  IF \E c \in Conns : Refers(f, c) /\ Unread(c) > 0
    THEN [from |-> fdTable[f], num |-> read[fdTable[f]] + 1] ELSE Empty

EndOfStream(f) ==
  \E c \in Conns : Refers(f, c) /\ Unread(c) = 0 /\ peer[c] \in {"fin", "finw", "broken"}

\* a reset is reported by one read
PeerRead(f, c) ==
  IF Refers(f, c) /\ Unread(c) = 0 /\ peer[c] = "reset" THEN "broken" ELSE peer[c]

\* The broadcast is taken by records 2 .. k-1: it is in their send buffers, and
\* a client that has closed will answer with a reset.
Deliver(f, k) ==
  LET reached == {c \in Conns : \E i \in 2 .. (k - 1) : Refers(records[i], c)}
  IN /\ \A c \in reached : PeerRead(f, c) \in Taken
     /\ got' = [c \in Conns |-> IF c \in reached THEN Append(got[c], Received(f)) ELSE got[c]]
     /\ peer' = [c \in Conns |-> IF c \in reached /\ peer[c] = "fin" THEN "finw"
                                 ELSE PeerRead(f, c)]

WriteFails(f, k) ==
  \E c \in Conns : /\ Refers(records[k], c)
                   /\ PeerRead(f, c) = "reset" \/ (PeerRead(f, c) \in Taken /\ c \in Slow)
\* EPIPE: SIGPIPE is raised, which nothing in the program handles or ignores
WriteKills(f, k) == \E c \in Conns : Refers(records[k], c) /\ PeerRead(f, c) = "broken"

\* one read, from the first event's descriptor
Recv(f) ==
  /\ pc = "serve" /\ Head(events) = f /\ f # ListenFd /\ ~EndOfStream(f)
  /\ buf' = Received(f)
  /\ read' = [c \in Conns |-> IF Refers(f, c) /\ Unread(c) > 0 THEN read[c] + 1 ELSE read[c]]
  /\ spent' = spent \cup {c \in Conns : PeerRead(f, c) # peer[c]}
  /\ UNCHANGED <<backlog, sent>>

\* What was read is sent to all: every write is taken,
Relay(f) ==
  /\ Recv(f)
  /\ Deliver(f, Len(records) + 1)
  /\ EventDone
  /\ UNCHANGED <<records, fdTable, interest, ready, dropped>>

\* or write k fails: that record is deleted and no other is written to,
RelayStopsAtError(f, k) ==
  /\ Recv(f)
  /\ Deliver(f, k)
  /\ WriteFails(f, k)
  /\ deleteSocketRec(records[k])
  /\ dropped' = dropped \cup {fdTable[records[k]]}
  /\ EventDone

\* or write k raises SIGPIPE, which ends the process.
RelayIsKilled(f, k) ==
  /\ Recv(f)
  /\ Deliver(f, k)
  /\ WriteKills(f, k)
  /\ pc' = "dead"
  /\ UNCHANGED <<events, records, fdTable, interest, ready, dropped>>

\* Mutant of ServeClosed: an error of read() closes the connection, too.
CloseUnlessData(f) ==
  /\ pc = "serve" /\ Head(events) = f /\ f # ListenFd
  /\ \E c \in Conns : Refers(f, c) /\ Unread(c) = 0
  /\ deleteSocketRec(f)
  /\ buf' = Empty
  /\ EventDone
  /\ UNCHANGED <<backlog, peer, sent, read, got, spent, dropped>>

\* read() returned 0: EPOLL_CTL_DEL and deleteSocketRec
ServeClosed(f) ==
  /\ pc = "serve" /\ Head(events) = f /\ f # ListenFd /\ EndOfStream(f)
  /\ deleteSocketRec(f)
  /\ buf' = Empty
  /\ EventDone
  /\ UNCHANGED <<backlog, peer, sent, read, got, spent, dropped>>

ServiceStep ==
  \/ EpollWait \/ Accept \/ AcceptFailed
  \/ \E f \in Fds : \/ Relay(f) \/ ServeClosed(f)
                    \/ \E k \in 2 .. Len(records) : RelayStopsAtError(f, k) \/ RelayIsKilled(f, k)

-----------------------------------------------------------------------------
(* The clients.                                                            *)

\* something new comes to a file
Arrives(file) ==
  /\ spent' = IF Readable(file) THEN spent \cup {file} ELSE spent
  /\ ready' = Wake(file)
  /\ UNCHANGED srvVars

Connect(c) ==
  /\ peer[c] = "none"
  /\ peer' = [peer EXCEPT ![c] = "up"]
  /\ backlog' = Append(backlog, c)
  /\ Arrives(Listener)
  /\ UNCHANGED sent

SentSoFar == FoldFunction(LAMBDA x, y : x + y, 0, sent)

SendMessage(c) ==
  /\ peer[c] = "up" /\ (Pending(c) \/ Held(c))
  /\ SentSoFar < MaxSent
  /\ sent' = [sent EXCEPT ![c] = @ + 1]
  /\ Arrives(c)
  /\ UNCHANGED <<backlog, peer>>

\* the client closes its socket in order, or with answers it has not read
Shutdown(c) ==
  /\ peer[c] = "up" /\ (Pending(c) \/ Held(c))
  /\ \E how \in {"fin", "reset"} : peer' = [peer EXCEPT ![c] = how]
  /\ Arrives(c)
  /\ UNCHANGED <<backlog, sent>>

\* the answer of a closed client to data written to it
ResetArrives(c) ==
  /\ peer[c] = "finw"
  /\ peer' = [peer EXCEPT ![c] = "broken"]
  /\ Arrives(c)
  /\ UNCHANGED <<backlog, sent>>

Next ==
  \/ ServiceStep
  \/ \E c \in Conns : Connect(c) \/ SendMessage(c) \/ Shutdown(c) \/ ResetArrives(c)

\* The loop polls without end; nothing is assumed of the clients.
Spec == Init /\ [][Next]_vars /\ WF_vars(ServiceStep)

-----------------------------------------------------------------------------
(* Properties.                                                             *)

\* Every variable keeps its type; nothing is read that was not sent.
TypeOK ==
  /\ pc \in {"wait", "serve", "dead"}
  /\ events \in Seq(Fds) /\ records \in Seq(Fds) /\ buf \in Message
  /\ pc = "serve" => events # <<>>
  /\ fdTable \in [Fds -> Files \cup {NoConn}]
  /\ interest \subseteq Files /\ ready \in Seq(Files) /\ backlog \in Seq(Conns)
  /\ peer \in [Conns -> PeerStates]
  /\ \A c \in Conns : sent[c] \in Nat /\ read[c] \in 0 .. sent[c]
  /\ got \in [Conns -> Seq(Message)]
  /\ spent \subseteq Files /\ dropped \subseteq Conns

\* The list, the descriptor table and the epoll instance agree, though a
\* broadcast closes descriptors without EPOLL_CTL_DEL and with events of them
\* outstanding: the records hold each open descriptor once, the listening socket
\* first, and epoll watches what they refer to, and nothing closed.
RecordsAreWatched ==
  /\ records[1] = ListenFd
  /\ IsInjective(records)
  /\ Range(records) = {f \in Fds : fdTable[f] # NoConn}
  /\ interest = {fdTable[f] : f \in Range(records)}
  /\ Range(ready) \subseteq interest

\* What can be read will be, by an event or the ready list, unless two things
\* were there at once, an accept() failed or a reset was read as an error: one
\* event is one accept() or one read(), and only then is an edge used up for
\* less than it stands for.
NoEdgeLost ==
  \A f \in Range(records) :
    Readable(fdTable[f]) =>
      \/ fdTable[f] \in Range(ready) \cup spent
      \/ f \in Range(events) \/ pc = "dead"

\* All clients see the same conversation: two messages that both of them got
\* come in the same order, none comes twice, and those of one sender come in the
\* order they were sent, whoever is dropped or accepted in between.
OneOrder ==
  \A c, d \in Conns : \A i, j \in DOMAIN got[c] : i < j /\ got[c][i] # Empty /\ got[c][j] # Empty =>
    /\ got[c][i].from = got[c][j].from => got[c][i].num < got[c][j].num
    /\ \A k, l \in DOMAIN got[d] : got[d][k] = got[c][i] /\ got[d][l] = got[c][j] => k < l

\* A connection is closed when all its client sent was read and its end seen, or
\* because a write to it failed.  An event outstanding for a descriptor that was
\* closed and reused in the same round does not close the new connection.
ClosedForCause ==
  [][\A c \in Conns : Held(c) /\ ~Held(c)' =>
       \/ peer[c] \in Gone /\ Unread(c) = 0
       \/ c \in dropped' \ dropped /\ (peer[c] = "reset" \/ c \in Slow)]_vars

=============================================================================
