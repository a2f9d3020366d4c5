--------------------------- MODULE EchoThreadsProofs ---------------------------
(***************************************************************************)
(* Proof that every client of EchoThreads gets the answers to its own      *)
(* characters, for every number of clients, descriptors and characters, as *)
(* long as no thread was too late to copy com_fd.                          *)
(*                                                                         *)
(* TypeInv holds whatever the threads do to each other's descriptors.      *)
(* OwnInv says, while no thread was late, whose each descriptor is: that   *)
(* of the thread that copied it, of the client accepted last, or nobody's; *)
(* and, for each client, that what was read is what was answered together  *)
(* with what its thread is about to write.                                 *)
(***************************************************************************)
EXTENDS EchoThreads, SequenceFacts, SequenceTheorems, TLAPS

Char == [from : Clients, pos : Nat]
Threads == [pc : {"none", "begin", "call", "read", "write", "close", "done"},
            new_fd : Nat, file : Clients \cup {NoConn}, buf : Seq(Char)]
HasFd == {"call", "read", "write", "close"}  \* new_fd is a copy of com_fd

TypeInv ==
  /\ numFds \in Nat \ {0}
  /\ main \in {"accept", "create", "dead"}
  /\ com_fd \in Nat
  /\ newest \in Clients \cup {NoConn}
  /\ thread \in [Clients -> Threads]
  /\ fdTable \in [Fds -> Clients \cup {NoConn}]
  /\ backlog \in Seq(Clients)
  /\ peer \in [Clients -> {"none", "up", "left", "reset"}]
  /\ stream \in [Clients -> Seq({"t", "@"})]
  /\ taken \in [Clients -> Nat]
  /\ replies \in [Clients -> Seq(Char)]
  /\ overtaken \in BOOLEAN
  /\ main = "create" => newest \in Clients
  /\ \A c \in Clients :
       /\ taken[c] <= Len(stream[c])
       /\ thread[c].pc = "begin" \/ (main = "create" /\ newest = c) => com_fd \in Fds
       /\ thread[c].pc \in HasFd => thread[c].new_fd \in Fds
       /\ thread[c].pc = "read" => thread[c].file \in Clients

\* Nobody has two descriptors, or waits in the backlog twice.
OneEach ==
  /\ \A f, g \in Fds : fdTable[f] = fdTable[g] /\ fdTable[f] # NoConn => f = g
  /\ \A i, j \in DOMAIN backlog : backlog[i] = backlog[j] => i = j

\* Where client c is: not there, in the backlog, accepted last and its thread
\* not yet begun, or served by the thread that has its descriptor.
PlaceOf(c) ==
  /\ peer[c] = "none" => ~Pending(c) /\ ~Held(c) /\ thread[c].pc = "none"
  /\ Pending(c) => ~Held(c) /\ thread[c].pc = "none"
  /\ main = "create" /\ newest = c => thread[c].pc = "none"
  /\ newest = c /\ (main = "create" \/ thread[c].pc = "begin") => fdTable[com_fd] = c
  /\ thread[c].pc \in HasFd => fdTable[thread[c].new_fd] = c
  /\ thread[c].pc = "read" => thread[c].file = c

\* What client c was answered, and what its thread is about to write.
EchoOf(c) ==
  /\ \A i \in DOMAIN replies[c] : replies[c][i] = [from |-> c, pos |-> i]
  /\ thread[c].pc \notin {"write", "close", "done"} => thread[c].buf = <<>>
  /\ thread[c].pc \notin {"close", "done"} /\ peer[c] \in {"none", "up"} =>
       /\ Len(replies[c]) + Len(thread[c].buf) = taken[c]
       /\ \A i \in DOMAIN thread[c].buf :
            thread[c].buf[i] = [from |-> c, pos |-> Len(replies[c]) + i]

OwnInv == OneEach /\ \A c \in Clients : PlaceOf(c) /\ EchoOf(c)

EchoInv == TypeInv /\ (overtaken \/ OwnInv)

-----------------------------------------------------------------------------
(* Types.                                                                  *)

\* Before anybody connects every variable has its type.
LEMMA TypeInit == Init => TypeInv
<1> SUFFICES ASSUME Init PROVE TypeInv
  OBVIOUS
<1>1. <<>> \in Seq(Char) /\ <<>> \in Seq(Clients) /\ <<>> \in Seq({"t", "@"}) /\ Len(<<>>) = 0
  BY EmptySeq
<1>2. NoThread \in Threads /\ NoThread.pc = "none"
  BY <1>1 DEF NoThread, Threads
<1>3. thread \in [Clients -> Threads] /\ \A c \in Clients : thread[c].pc = "none"
  BY <1>2 DEF Init
<1>4. /\ numFds \in Nat \ {0} /\ main \in {"accept", "create", "dead"} /\ com_fd \in Nat
      /\ newest \in Clients \cup {NoConn} /\ main # "create"
      /\ fdTable \in [Fds -> Clients \cup {NoConn}] /\ overtaken \in BOOLEAN
  BY ConstAssumption DEF Init
<1>5. /\ backlog \in Seq(Clients)
      /\ peer \in [Clients -> {"none", "up", "left", "reset"}]
      /\ stream \in [Clients -> Seq({"t", "@"})]
      /\ taken \in [Clients -> Nat]
      /\ replies \in [Clients -> Seq(Char)]
      /\ \A c \in Clients : taken[c] <= Len(stream[c])
  BY <1>1 DEF Init
<1> QED
  BY <1>3, <1>4, <1>5 DEF TypeInv, HasFd

\* What each step of a thread makes of its entry in the table of threads.
ThreadChange(c, t) == t \in Threads /\ thread' = [thread EXCEPT ![c] = t]

\* Begin: the thread copies com_fd, and is late when that is no more its client's.
LEMMA BeginShape ==
  ASSUME TypeInv, NEW c \in Clients, Begin(c)
  PROVE  /\ thread[c].pc = "begin" /\ overtaken' = (overtaken \/ newest # c)
         /\ \E t : /\ ThreadChange(c, t)
                   /\ t.pc = "call" /\ t.new_fd = com_fd /\ t.buf = thread[c].buf
         /\ UNCHANGED <<main, com_fd, newest, numFds, fdTable, backlog, peer, stream, taken, replies>>
<1> DEFINE t == [thread[c] EXCEPT !.pc = "call", !.new_fd = com_fd]
<1>1. thread' = [thread EXCEPT ![c] = t]
  BY DEF Begin
<1>2. t \in Threads /\ t.pc = "call" /\ t.new_fd = com_fd /\ t.buf = thread[c].buf
  BY DEF TypeInv, Threads
<1> QED
  BY <1>1, <1>2 DEF Begin, At, ThreadChange, kernelVars, clientVars

\* CallRead: the thread looks its descriptor up, and reads from that file if it is open.
LEMMA CallShape ==
  ASSUME TypeInv, NEW c \in Clients, CallRead(c)
  PROVE  /\ thread[c].pc = "call" /\ thread[c].new_fd \in Fds
         /\ \E t : /\ ThreadChange(c, t)
                   /\ t.file = fdTable[thread[c].new_fd]
                   /\ t.pc = IF t.file = NoConn THEN "close" ELSE "read"
                   /\ t.new_fd = thread[c].new_fd /\ t.buf = thread[c].buf
         /\ UNCHANGED <<main, com_fd, newest, numFds, fdTable, backlog, peer, stream, taken, replies, overtaken>>
<1> DEFINE file == fdTable[thread[c].new_fd]
           t == [thread[c] EXCEPT !.file = file, !.pc = IF file = NoConn THEN "close" ELSE "read"]
<1>1. thread' = [thread EXCEPT ![c] = t]
  BY DEF CallRead
<1>2. thread[c].pc = "call" /\ thread[c].new_fd \in Fds /\ file \in Clients \cup {NoConn}
  BY DEF CallRead, At, TypeInv, HasFd
<1>3. thread[c] \in Threads
  BY DEF TypeInv
<1> HIDE DEF file
<1>4. /\ t \in Threads /\ t.file = file /\ t.pc = IF file = NoConn THEN "close" ELSE "read"
      /\ t.new_fd = thread[c].new_fd /\ t.buf = thread[c].buf
  BY <1>2, <1>3 DEF Threads
<1>5. PICK new : new = t
  OBVIOUS
<1> HIDE DEF t
<1>6. /\ ThreadChange(c, new) /\ new.file = file
      /\ new.pc = IF new.file = NoConn THEN "close" ELSE "read"
      /\ new.new_fd = thread[c].new_fd /\ new.buf = thread[c].buf
  BY <1>1, <1>4, <1>5 DEF ThreadChange
<1>7. UNCHANGED <<main, com_fd, newest, numFds, fdTable, backlog, peer, stream, taken, replies,
                  overtaken>>
  BY DEF CallRead, kernelVars, clientVars
<1> QED
  BY <1>2, <1>6, <1>7 DEF file

\* What a read() of client d's connection returns.
Arrived(d) == [i \in 1 .. (Len(stream[d]) - taken[d]) |-> [from |-> d, pos |-> taken[d] + i]]

\* ReadReturns: what has arrived goes to the buffer, or the thread is about to close.
LEMMA ReadShape ==
  ASSUME TypeInv, NEW c \in Clients, ReadReturns(c)
  PROVE  /\ thread[c].pc = "read" /\ thread[c].file \in Clients
         /\ Arrived(thread[c].file) \in Seq(Char)
         /\ \E t : /\ ThreadChange(c, t) /\ t.new_fd = thread[c].new_fd
                   /\ \/ /\ taken' = [taken EXCEPT ![thread[c].file] = Len(stream[thread[c].file])]
                         /\ t.buf = Arrived(thread[c].file)
                         /\ t.pc \in {"close", "write"}
                      \/ taken' = taken /\ t.pc = "close"
         /\ UNCHANGED <<main, com_fd, newest, numFds, fdTable, backlog, peer, stream, replies, overtaken>>
<1> DEFINE d == thread[c].file
           n == Len(stream[d]) - taken[d]
<1>1. thread[c].pc = "read" /\ d \in Clients /\ thread[c] \in Threads
  BY DEF ReadReturns, At, TypeInv
<1>2. Len(stream[d]) \in Nat /\ taken[d] \in Nat /\ n \in Nat
  BY <1>1, LenProperties DEF TypeInv
<1>3. Arrived(d) \in Seq(Char)
  <2>1. Arrived(d) \in [1 .. n -> Char]
    BY <1>1, <1>2 DEF Char, Arrived
  <2> HIDE DEF d, n
  <2> QED
    BY <1>2, <2>1, FunctionIsSeq
<1>4. \/ /\ taken' = [taken EXCEPT ![d] = Len(stream[d])]
         /\ \E p \in {"close", "write"} :
              thread' = [thread EXCEPT ![c] = [thread[c] EXCEPT !.buf = Arrived(d), !.pc = p]]
      \/ taken' = taken /\ thread' = [thread EXCEPT ![c] = [thread[c] EXCEPT !.pc = "close"]]
  BY DEF ReadReturns, Arrived
<1> HIDE DEF n
<1>5. \A p \in {"close", "write"} :
        LET t == [thread[c] EXCEPT !.buf = Arrived(d), !.pc = p]
        IN t \in Threads /\ t.new_fd = thread[c].new_fd /\ t.buf = Arrived(d) /\ t.pc = p
  <2> HIDE DEF d
  <2> QED
    BY <1>1, <1>3 DEF Threads
<1>6. LET t == [thread[c] EXCEPT !.pc = "close"]
      IN t \in Threads /\ t.new_fd = thread[c].new_fd /\ t.pc = "close"
  BY <1>1 DEF Threads
<1>7. UNCHANGED <<main, com_fd, newest, numFds, fdTable, backlog, peer, stream, replies, overtaken>>
  BY DEF ReadReturns, kernelVars, clientVars
<1> QED
  BY <1>1, <1>3, <1>4, <1>5, <1>6, <1>7 DEF ThreadChange

\* Write: the buffer goes to whoever has the descriptor now, or ends the program.
LEMMA WriteShape ==
  ASSUME TypeInv, NEW c \in Clients, Write(c)
  PROVE  /\ thread[c].pc = "write" /\ thread[c].new_fd \in Fds
         /\ \E t : /\ ThreadChange(c, t) /\ t.new_fd = thread[c].new_fd
                   /\ t.pc = "call" /\ t.buf = <<>>
         /\ UNCHANGED <<com_fd, newest, numFds, fdTable, backlog, stream, taken, overtaken>>
         /\ main' \in {main, "dead"}
<1> DEFINE t == [thread[c] EXCEPT !.pc = "call", !.buf = <<>>]
<1>1. thread' = [thread EXCEPT ![c] = t]
  BY DEF Write
<1>2. thread[c].pc = "write" /\ thread[c].new_fd \in Fds
  BY DEF Write, At, TypeInv, HasFd
<1>3. thread[c] \in Threads /\ <<>> \in Seq(Char)
  BY EmptySeq DEF TypeInv
<1>4. t \in Threads /\ t.pc = "call" /\ t.buf = <<>> /\ t.new_fd = thread[c].new_fd
  BY <1>3 DEF Threads
<1>5. /\ UNCHANGED <<com_fd, newest, numFds, fdTable, backlog, stream, taken, overtaken>>
      /\ main' \in {main, "dead"}
  BY DEF Write, kernelVars
<1> QED
  BY <1>1, <1>2, <1>4, <1>5 DEF ThreadChange

\* Close: the descriptor is free again, whosever it is by now.
LEMMA CloseShape ==
  ASSUME TypeInv, NEW c \in Clients, Close(c)
  PROVE  /\ thread[c].pc = "close" /\ thread[c].new_fd \in Fds
         /\ \E t : ThreadChange(c, t) /\ t.pc = "done"
         /\ fdTable' = [fdTable EXCEPT ![thread[c].new_fd] = NoConn]
         /\ UNCHANGED <<main, com_fd, newest, numFds, backlog, peer, stream, taken, replies, overtaken>>
<1> DEFINE t == [NoThread EXCEPT !.pc = "done"]
<1>1. thread' = [thread EXCEPT ![c] = t]
  BY DEF Close
<1>2. thread[c].pc = "close" /\ thread[c].new_fd \in Fds
  BY DEF Close, At, TypeInv, HasFd
<1>3. <<>> \in Seq(Char)
  BY EmptySeq
<1>4. t \in Threads /\ t.pc = "done"
  BY <1>3 DEF Threads, NoThread
<1> QED
  BY <1>1, <1>2, <1>4 DEF Close, ThreadChange, clientVars

\* The types of what a thread's step does not touch.
LEMMA TypesOfChange ==
  ASSUME TypeInv, NEW c \in Clients, NEW t, ThreadChange(c, t),
         UNCHANGED <<com_fd, newest, numFds, backlog, stream>>,
         main' \in {main, "dead"},
         fdTable' \in [Fds -> Clients \cup {NoConn}],
         peer' \in [Clients -> {"none", "up", "left", "reset"}],
         taken' \in [Clients -> Nat], \A d \in Clients : taken'[d] <= Len(stream[d]),
         replies' \in [Clients -> Seq(Char)], overtaken' \in BOOLEAN,
         t.pc # "begin", t.pc \in HasFd => t.new_fd \in Fds, t.pc = "read" => t.file \in Clients
  PROVE  TypeInv'
<1>1. Fds' = Fds
  BY DEF Fds
<1>2. thread' \in [Clients -> Threads] /\ \A d \in Clients : thread'[d] = IF d = c THEN t ELSE thread[d]
  BY DEF TypeInv, ThreadChange
<1>3. \A d \in Clients :
        /\ thread'[d].pc = "begin" \/ (main' = "create" /\ newest = d) => com_fd \in Fds
        /\ thread'[d].pc \in HasFd => thread'[d].new_fd \in Fds
        /\ thread'[d].pc = "read" => thread'[d].file \in Clients
  BY <1>2 DEF TypeInv
<1> QED
  BY <1>1, <1>2, <1>3 DEF TypeInv

\* A step of a thread keeps the types, late or not.
LEMMA TypeStepOfThread ==
  ASSUME TypeInv, NEW c \in Clients, ThreadStep(c)
  PROVE  TypeInv'
<1>0. TypeInv /\ c \in Clients
  OBVIOUS
<1>1. CASE Begin(c)
  <2>1. com_fd \in Fds
    BY <1>1, BeginShape DEF TypeInv
  <2>2. PICK t : ThreadChange(c, t) /\ t.pc = "call" /\ t.new_fd = com_fd
    BY <1>1, BeginShape
  <2>3. /\ UNCHANGED <<main, com_fd, newest, numFds, fdTable, backlog, peer, stream, taken, replies>>
        /\ overtaken' \in BOOLEAN
    BY <1>1, BeginShape DEF TypeInv
  <2> QED
    BY <2>1, <2>2, <2>3, TypesOfChange DEF TypeInv
<1>2. CASE CallRead(c)
  <2>1. fdTable[thread[c].new_fd] \in Clients \cup {NoConn}
    BY <1>2, CallShape DEF TypeInv
  <2>2. PICK t : /\ ThreadChange(c, t) /\ t.file = fdTable[thread[c].new_fd]
                 /\ t.pc = (IF t.file = NoConn THEN "close" ELSE "read")
                 /\ t.new_fd = thread[c].new_fd
    BY <1>2, CallShape
  <2>3. /\ UNCHANGED <<main, com_fd, newest, numFds, fdTable, backlog, peer, stream, taken, replies, overtaken>>
        /\ thread[c].new_fd \in Fds
    BY <1>2, CallShape
  <2> QED
    BY <2>1, <2>2, <2>3, TypesOfChange DEF TypeInv
<1>3. CASE ReadReturns(c)
  <2>1. thread[c].new_fd \in Fds
    BY <1>3, ReadShape DEF TypeInv, HasFd
  <2>2. taken' \in [Clients -> Nat] /\ \A d \in Clients : taken'[d] <= Len(stream[d])
    <3>1. \A d \in Clients : Len(stream[d]) \in Nat
      BY LenProperties DEF TypeInv
    <3>2. PICK f \in Clients : taken' = [taken EXCEPT ![f] = Len(stream[f])] \/ taken' = taken
      BY <1>3, ReadShape
    <3>3. taken \in [Clients -> Nat] /\ \A d \in Clients : taken[d] <= Len(stream[d])
      BY DEF TypeInv
    <3>4. CASE taken' = taken
      BY <3>3, <3>4
    <3>5. CASE taken' = [taken EXCEPT ![f] = Len(stream[f])]
      <4>1. \A d \in Clients : taken'[d] = IF d = f THEN Len(stream[d]) ELSE taken[d]
        BY <3>3, <3>5
      <4>2. taken' \in [Clients -> Nat]
        BY <3>1, <3>3, <3>5
      <4> QED
        BY <3>1, <3>3, <4>1, <4>2
    <3> QED
      BY <3>2, <3>4, <3>5
  <2>3. PICK t : ThreadChange(c, t) /\ t.new_fd = thread[c].new_fd /\ t.pc \in {"close", "write"}
    BY <1>3, ReadShape
  <2>4. UNCHANGED <<main, com_fd, newest, numFds, fdTable, backlog, peer, stream, replies, overtaken>>
    BY <1>3, ReadShape
  <2> QED
    BY <2>1, <2>2, <2>3, <2>4, TypesOfChange DEF TypeInv
<1>4. CASE Write(c)
  <2>1. /\ thread[c].pc = "write" /\ thread[c].new_fd \in Fds /\ thread[c] \in Threads
        /\ Target(c) \in Clients \cup {NoConn}
    BY <1>4, WriteShape DEF Target, TypeInv
  <2>2. peer' \in [Clients -> {"none", "up", "left", "reset"}]
    BY <1>4 DEF Write, TypeInv
  <2>3. replies' \in [Clients -> Seq(Char)]
    <3>1. \A d \in Clients : replies[d] \o thread[c].buf \in Seq(Char)
      BY <2>1, ConcatProperties DEF Threads, TypeInv
    <3>2. \/ replies' = replies
          \/ \E d \in Clients : replies' = [replies EXCEPT ![d] = replies[d] \o thread[c].buf]
      BY <1>4, <2>1 DEF Write
    <3> QED
      BY <3>1, <3>2 DEF TypeInv
  <2> QED
    BY <1>4, <2>1, <2>2, <2>3, WriteShape, TypesOfChange DEF TypeInv
<1>5. CASE Close(c)
  <2>1. fdTable' \in [Fds -> Clients \cup {NoConn}]
    BY <1>5, CloseShape DEF TypeInv
  <2> QED
    BY <1>5, <2>1, CloseShape, TypesOfChange DEF TypeInv, HasFd
<1> QED
  BY <1>1, <1>2, <1>3, <1>4, <1>5 DEF ThreadStep

\* A step of main() keeps the types, a failed accept() or pthread_create() included.
LEMMA TypeStepOfMain ==
  ASSUME TypeInv, MainStep
  PROVE  TypeInv'
<1> USE DEF TypeInv
<1>0. Fds' = Fds /\ Fds \subseteq Nat
  BY DEF Fds, MainStep, Accept, AcceptFails, Create, kernelVars
<1>1. CASE Accept
  <2>1. Head(backlog) \in Clients /\ Tail(backlog) \in Seq(Clients)
    BY <1>1, HeadTailProperties DEF Accept
  <2>2. PICK f \in Fds : com_fd' = f /\ fdTable' = [fdTable EXCEPT ![f] = Head(backlog)]
    BY <1>1 DEF Accept, FreeFds
  <2>3. fdTable' \in [Fds -> Clients \cup {NoConn}]
    BY <2>1, <2>2
  <2> QED
    BY <1>0, <1>1, <2>1, <2>2, <2>3 DEF Accept, clientVars
<1>2. CASE AcceptFails
  BY <1>0, <1>2 DEF AcceptFails, kernelVars, clientVars
<1>3. CASE Create
  <2>1. /\ UNCHANGED <<com_fd, newest, numFds, fdTable, backlog, peer, stream, taken, replies, overtaken>>
        /\ main = "create" /\ main' = "accept" /\ newest \in Clients /\ com_fd \in Fds
        /\ \/ thread' = thread
           \/ thread' = [thread EXCEPT ![newest] = [thread[newest] EXCEPT !.pc = "begin"]]
    BY <1>3 DEF Create, kernelVars, clientVars
  <2>2. CASE thread' = thread
    BY <1>0, <2>1, <2>2
  <2>3. CASE thread' = [thread EXCEPT ![newest] = [thread[newest] EXCEPT !.pc = "begin"]]
    <3> DEFINE t == [thread[newest] EXCEPT !.pc = "begin"]
    <3>0. thread[newest] \in Threads
      BY <2>1
    <3>1. t \in Threads /\ t.pc = "begin"
      <4> HIDE DEF TypeInv
      <4> QED
        BY <3>0 DEF Threads
    <3>2. thread' = [thread EXCEPT ![newest] = t]
      BY <2>3
    <3> HIDE DEF t
    <3>3. /\ thread' \in [Clients -> Threads]
          /\ \A d \in Clients : thread'[d] = IF d = newest THEN t ELSE thread[d]
      BY <2>1, <3>1, <3>2
    <3> QED
      BY <1>0, <2>1, <3>1, <3>3 DEF HasFd
  <2> QED
    BY <2>1, <2>2, <2>3
<1> QED
  BY <1>1, <1>2, <1>3 DEF MainStep

\* Every step keeps the types.
LEMMA TypeStep == TypeInv /\ [Next]_vars => TypeInv'
<1> SUFFICES ASSUME TypeInv, [Next]_vars PROVE TypeInv'
  OBVIOUS
<1>1. ASSUME NEW c \in Clients, Connect(c) PROVE TypeInv'
  <2>1. backlog' \in Seq(Clients)
    BY <1>1, AppendProperties DEF Connect, TypeInv
  <2> QED
    BY <1>1, <2>1 DEF Connect, TypeInv, Fds
<1>2. ASSUME NEW c \in Clients, Send(c) PROVE TypeInv'
  <2>1. PICK x \in {"t", "@"} : stream' = [stream EXCEPT ![c] = Append(stream[c], x)]
    BY <1>2 DEF Send
  <2>2. /\ Append(stream[c], x) \in Seq({"t", "@"})
        /\ Len(Append(stream[c], x)) = Len(stream[c]) + 1 /\ Len(stream[c]) \in Nat
    BY AppendProperties, LenProperties DEF TypeInv
  <2>3. \A d \in Clients : taken[d] <= Len(stream'[d])
    BY <2>1, <2>2 DEF TypeInv
  <2> QED
    BY <1>2, <2>1, <2>2, <2>3 DEF Send, TypeInv, kernelVars, Fds
<1>3. ASSUME NEW c \in Clients, Leave(c) PROVE TypeInv'
  BY <1>3 DEF Leave, TypeInv, kernelVars, Fds
<1>4. CASE UNCHANGED vars
  BY <1>4 DEF vars, TypeInv, kernelVars, clientVars, Fds
<1> QED
  BY <1>1, <1>2, <1>3, <1>4, TypeStepOfMain, TypeStepOfThread DEF Next

-----------------------------------------------------------------------------
(* Whose each descriptor is.                                               *)

\* Before anybody connects no descriptor is anybody's.
LEMMA OwnInit == Init => OwnInv
<1> SUFFICES ASSUME Init PROVE OwnInv
  OBVIOUS
<1>1. \A c \in Clients : ~Held(c) /\ ~Pending(c)
  <2>1. DOMAIN backlog = {}
    BY EmptySeq DEF Init
  <2> QED
    BY <2>1, ConstAssumption DEF Init, Held, Pending
<1>2. OneEach
  BY EmptySeq DEF Init, OneEach
<1>3. ASSUME NEW c \in Clients PROVE PlaceOf(c)
  BY <1>1, ConstAssumption DEF Init, PlaceOf, NoThread, HasFd
<1>4. ASSUME NEW c \in Clients PROVE EchoOf(c)
  <2>1. /\ replies[c] = <<>> /\ thread[c].buf = <<>> /\ taken[c] = 0
        /\ Len(<<>>) = 0 /\ DOMAIN <<>> = {}
    BY EmptySeq DEF Init, NoThread
  <2> QED
    BY <2>1 DEF EchoOf
<1> QED
  BY <1>2, <1>3, <1>4 DEF OwnInv

\* What the environment and the other threads leave alone of a client.
LEMMA OthersKept ==
  ASSUME NEW x \in Clients, PlaceOf(x), EchoOf(x),
         thread'[x] = thread[x], peer'[x] = peer[x], taken'[x] = taken[x], replies'[x] = replies[x],
         UNCHANGED <<com_fd, newest, numFds, fdTable, backlog>>, main' \in {main, "dead"}
  PROVE  PlaceOf(x)' /\ EchoOf(x)'
<1>1. PlaceOf(x)'
  BY DEF PlaceOf, Pending, Held, Fds
<1>2. EchoOf(x)'
  BY DEF EchoOf
<1> QED
  BY <1>1, <1>2

\* A thread that is not too late copies the descriptor of its own client.
LEMMA BeginOwns ==
  ASSUME TypeInv, OwnInv, NEW c \in Clients, Begin(c), ~overtaken'
  PROVE  OwnInv'
<1>1. PICK t : ThreadChange(c, t) /\ t.pc = "call" /\ t.new_fd = com_fd /\ t.buf = thread[c].buf
  BY BeginShape
<1>2. /\ thread[c].pc = "begin" /\ newest = c
      /\ UNCHANGED <<main, com_fd, newest, numFds, fdTable, backlog, peer, stream, taken, replies>>
  BY BeginShape
<1>3. \A x \in Clients : thread'[x] = IF x = c THEN t ELSE thread[x]
  BY <1>1 DEF ThreadChange, TypeInv
<1>4. OneEach'
  BY <1>2 DEF OwnInv, OneEach, Fds
<1>5. PlaceOf(c) /\ EchoOf(c)
  BY DEF OwnInv
<1>6. PlaceOf(c)'
  BY <1>1, <1>2, <1>3, <1>5 DEF PlaceOf, Held, Pending, Fds, HasFd
<1>7. EchoOf(c)'
  BY <1>1, <1>2, <1>3, <1>5 DEF EchoOf
<1>8. ASSUME NEW x \in Clients, x # c PROVE PlaceOf(x)' /\ EchoOf(x)'
  <2>1. PlaceOf(x) /\ EchoOf(x) /\ thread'[x] = thread[x]
    BY <1>3, <1>8 DEF OwnInv
  <2> QED
    BY <1>2, <2>1, OthersKept
<1> QED
  BY <1>4, <1>6, <1>7, <1>8 DEF OwnInv

\* A read() is called for its own client's connection.
LEMMA CallOwns ==
  ASSUME TypeInv, OwnInv, NEW c \in Clients, CallRead(c)
  PROVE  OwnInv'
<1>1. PICK t : /\ ThreadChange(c, t) /\ t.file = fdTable[thread[c].new_fd]
               /\ t.pc = (IF t.file = NoConn THEN "close" ELSE "read")
               /\ t.new_fd = thread[c].new_fd /\ t.buf = thread[c].buf
  BY CallShape
<1>2. /\ thread[c].pc = "call"
      /\ UNCHANGED <<main, com_fd, newest, numFds, fdTable, backlog, peer, stream, taken, replies>>
  BY CallShape
<1>3. \A x \in Clients : thread'[x] = IF x = c THEN t ELSE thread[x]
  BY <1>1 DEF ThreadChange, TypeInv
<1>4. OneEach'
  BY <1>2 DEF OwnInv, OneEach, Fds
<1>5. PlaceOf(c) /\ EchoOf(c)
  BY DEF OwnInv
<1>6. t.file = c /\ t.pc = "read"
  BY <1>1, <1>2, <1>5, ConstAssumption DEF PlaceOf, HasFd
<1>7. PlaceOf(c)'
  BY <1>1, <1>2, <1>3, <1>5, <1>6 DEF PlaceOf, Held, Pending, Fds, HasFd
<1>8. EchoOf(c)'
  <2>1. /\ thread[c].pc = "call" /\ thread'[c].pc = "read" /\ thread'[c].buf = thread[c].buf
        /\ replies' = replies /\ taken' = taken /\ peer' = peer
    BY <1>1, <1>2, <1>3, <1>6
  <2> QED
    BY <1>5, <2>1 DEF EchoOf
<1>9. ASSUME NEW x \in Clients, x # c PROVE PlaceOf(x)' /\ EchoOf(x)'
  <2>1. PlaceOf(x) /\ EchoOf(x) /\ thread'[x] = thread[x]
    BY <1>3, <1>9 DEF OwnInv
  <2> QED
    BY <1>2, <2>1, OthersKept
<1> QED
  BY <1>4, <1>7, <1>8, <1>9 DEF OwnInv

\* A read() returns characters of its own client, those after the last it read.
LEMMA ReadOwns ==
  ASSUME TypeInv, OwnInv, NEW c \in Clients, ReadReturns(c)
  PROVE  OwnInv'
<1>1. PlaceOf(c) /\ EchoOf(c) /\ thread[c].pc = "read" /\ thread[c].file = c
  <2>1. thread[c].pc = "read"
    BY ReadShape
  <2> QED
    BY <2>1 DEF OwnInv, PlaceOf
<1>2. PICK t : /\ ThreadChange(c, t) /\ t.new_fd = thread[c].new_fd
               /\ \/ /\ taken' = [taken EXCEPT ![c] = Len(stream[c])]
                     /\ t.buf = Arrived(c)
                     /\ t.pc \in {"close", "write"}
                  \/ taken' = taken /\ t.pc = "close"
  BY <1>1, ReadShape
<1>3. /\ UNCHANGED <<main, com_fd, newest, numFds, fdTable, backlog, peer, stream, replies>>
      /\ Arrived(c) \in Seq(Char)
  BY <1>1, ReadShape
<1>4. /\ \A x \in Clients : thread'[x] = IF x = c THEN t ELSE thread[x]
      /\ \A x \in Clients : x # c => taken'[x] = taken[x]
  BY <1>2 DEF ThreadChange, TypeInv
<1>5. OneEach'
  BY <1>3 DEF OwnInv, OneEach, Fds
<1>6. PlaceOf(c)'
  BY <1>1, <1>2, <1>3, <1>4 DEF PlaceOf, Held, Pending, Fds, HasFd
<1>7. EchoOf(c)'
  <2>1. CASE t.pc = "close"
    BY <1>1, <1>3, <1>4, <2>1 DEF EchoOf
  <2>2. CASE t.pc = "write"
    <3>1. taken'[c] = Len(stream[c]) /\ t.buf = Arrived(c)
      BY <1>2, <2>2 DEF TypeInv
    <3>2. thread[c].buf = <<>>
      BY <1>1 DEF EchoOf
    <3> DEFINE n == Len(stream[c]) - taken[c]
    <3>3. n \in Nat /\ Len(stream[c]) \in Nat /\ taken[c] \in Nat /\ Len(replies[c]) \in Nat
      BY LenProperties DEF TypeInv
    <3>4. /\ DOMAIN Arrived(c) = 1 .. n
          /\ \A i \in 1 .. n : Arrived(c)[i] = [from |-> c, pos |-> taken[c] + i]
      BY DEF Arrived
    <3>5. Len(Arrived(c)) = n
      BY <1>3, <3>3, <3>4, LenProperties
    <3> HIDE DEF n
    <3>6. peer[c] \in {"none", "up"} => Len(replies[c]) = taken[c]
      <4>1. Len(<<>>) = 0
        BY EmptySeq
      <4> QED
        BY <1>1, <3>2, <3>3, <4>1 DEF EchoOf
    <3>7. Len(replies[c]) = taken[c] => Len(replies[c]) + n = taken'[c]
      BY <3>1, <3>3 DEF n
    <3>8. /\ thread'[c].pc = "write" /\ thread'[c].buf = Arrived(c)
          /\ replies'[c] = replies[c] /\ peer'[c] = peer[c]
      BY <1>3, <1>4, <2>2, <3>1
    <3>9. peer[c] \in {"none", "up"} =>
            \A i \in 1 .. n : Arrived(c)[i] = [from |-> c, pos |-> Len(replies[c]) + i]
      BY <3>4, <3>6
    <3>10. \A i \in DOMAIN replies[c] : replies[c][i] = [from |-> c, pos |-> i]
      BY <1>1 DEF EchoOf
    <3> QED
      BY <3>4, <3>5, <3>6, <3>7, <3>8, <3>9, <3>10 DEF EchoOf
  <2> QED
    BY <1>2, <2>1, <2>2
<1>8. ASSUME NEW x \in Clients, x # c PROVE PlaceOf(x)' /\ EchoOf(x)'
  <2>1. PlaceOf(x) /\ EchoOf(x) /\ thread'[x] = thread[x] /\ taken'[x] = taken[x]
    BY <1>4, <1>8 DEF OwnInv
  <2> QED
    BY <1>3, <2>1, OthersKept
<1> QED
  BY <1>5, <1>6, <1>7, <1>8 DEF OwnInv

\* An answer goes to its own client, behind the earlier ones.
LEMMA WriteOwns ==
  ASSUME TypeInv, OwnInv, NEW c \in Clients, Write(c)
  PROVE  OwnInv'
<1>1. PICK t : /\ ThreadChange(c, t) /\ t.new_fd = thread[c].new_fd
               /\ t.pc = "call" /\ t.buf = <<>>
  BY WriteShape
<1>2. /\ thread[c].pc = "write" /\ main' \in {main, "dead"} /\ thread[c] \in Threads
      /\ UNCHANGED <<com_fd, newest, numFds, fdTable, backlog, stream, taken>>
  BY WriteShape DEF TypeInv
<1>3. PlaceOf(c) /\ EchoOf(c)
  BY DEF OwnInv
<1>4. Target(c) = c /\ c # NoConn
  BY <1>2, <1>3, ConstAssumption DEF PlaceOf, Target, HasFd
<1>5. \/ /\ peer[c] = "up" /\ peer' = peer
         /\ replies' = [replies EXCEPT ![c] = replies[c] \o thread[c].buf]
      \/ /\ peer[c] \in {"left", "reset"} /\ replies' = replies
         /\ peer' = peer \/ peer' = [peer EXCEPT ![c] = "reset"]
  BY <1>4 DEF Write
<1>6. /\ \A x \in Clients : thread'[x] = IF x = c THEN t ELSE thread[x]
      /\ \A x \in Clients : x # c => peer'[x] = peer[x] /\ replies'[x] = replies[x]
      /\ peer'[c] = peer[c] \/ (peer[c] \in {"left", "reset"} /\ peer'[c] = "reset")
  BY <1>1, <1>5 DEF ThreadChange, TypeInv
<1>7. OneEach'
  BY <1>2 DEF OwnInv, OneEach, Fds
<1>8. PlaceOf(c)'
  BY <1>1, <1>2, <1>3, <1>6 DEF PlaceOf, Held, Pending, Fds, HasFd
<1>9. EchoOf(c)'
  <2>1. Len(<<>>) = 0 /\ DOMAIN <<>> = {}
    BY EmptySeq
  <2>2. CASE peer[c] = "up"
    <3> DEFINE r == replies[c]
               b == thread[c].buf
    <3>1. replies'[c] = r \o b /\ peer'[c] = "up"
      BY <1>5, <1>6, <2>2 DEF TypeInv
    <3>2. /\ r \in Seq(Char) /\ b \in Seq(Char) /\ Len(r) \in Nat /\ Len(b) \in Nat
          /\ DOMAIN r = 1 .. Len(r) /\ DOMAIN b = 1 .. Len(b)
      BY <1>2, LenProperties DEF TypeInv, Threads
    <3>3. /\ Len(r) + Len(b) = taken[c]
          /\ \A i \in 1 .. Len(r) : r[i] = [from |-> c, pos |-> i]
          /\ \A i \in 1 .. Len(b) : b[i] = [from |-> c, pos |-> Len(r) + i]
      BY <1>2, <1>3, <2>2, <3>2 DEF EchoOf
    <3> HIDE DEF r, b
    <3>4. /\ Len(r \o b) = Len(r) + Len(b) /\ DOMAIN (r \o b) = 1 .. (Len(r) + Len(b))
          /\ \A i \in 1 .. (Len(r) + Len(b)) :
               (r \o b)[i] = IF i <= Len(r) THEN r[i] ELSE b[i - Len(r)]
      <4>1. /\ r \o b \in Seq(Char) /\ Len(r \o b) = Len(r) + Len(b)
            /\ \A i \in 1 .. (Len(r) + Len(b)) :
                 (r \o b)[i] = IF i <= Len(r) THEN r[i] ELSE b[i - Len(r)]
        BY <3>2, ConcatProperties
      <4> QED
        BY <4>1, LenProperties
    <3>5. ASSUME NEW i \in 1 .. (Len(r) + Len(b)) PROVE (r \o b)[i] = [from |-> c, pos |-> i]
      <4>1. CASE i <= Len(r)
        BY <3>2, <3>3, <3>4, <4>1
      <4>2. CASE ~(i <= Len(r))
        <5>1. i - Len(r) \in 1 .. Len(b) /\ Len(r) + (i - Len(r)) = i
          BY <3>2, <4>2
        <5>2. (r \o b)[i] = b[i - Len(r)]
          BY <3>4, <4>2
        <5> QED
          BY <3>3, <5>1, <5>2
      <4> QED
        BY <4>1, <4>2
    <3>6. Len(r \o b) + 0 = taken'[c]
      BY <1>2, <3>2, <3>3, <3>4
    <3> QED
      BY <1>1, <1>6, <2>1, <3>1, <3>4, <3>5, <3>6 DEF EchoOf
  <2>3. CASE peer[c] \in {"left", "reset"}
    BY <1>1, <1>2, <1>3, <1>5, <1>6, <2>3 DEF EchoOf
  <2> QED
    BY <1>5, <2>2, <2>3
<1>10. ASSUME NEW x \in Clients, x # c PROVE PlaceOf(x)' /\ EchoOf(x)'
  <2>1. PlaceOf(x) /\ EchoOf(x) /\ thread'[x] = thread[x] /\ peer'[x] = peer[x]
        /\ replies'[x] = replies[x] /\ taken'[x] = taken[x]
    BY <1>2, <1>6, <1>10 DEF OwnInv
  <2> QED
    BY <1>2, <2>1, OthersKept
<1> QED
  BY <1>7, <1>8, <1>9, <1>10 DEF OwnInv

\* Closing ends the thread that had the descriptor, and nobody else's.
LEMMA CloseOwns ==
  ASSUME TypeInv, OwnInv, NEW c \in Clients, Close(c)
  PROVE  OwnInv'
<1> DEFINE fd == thread[c].new_fd
<1>1. PICK t : ThreadChange(c, t) /\ t.pc = "done"
  BY CloseShape
<1>2. /\ thread[c].pc = "close" /\ fd \in Fds
      /\ fdTable' = [fdTable EXCEPT ![fd] = NoConn]
      /\ UNCHANGED <<main, com_fd, newest, numFds, backlog, peer, stream, taken, replies>>
  BY CloseShape
<1>3. /\ \A x \in Clients : thread'[x] = IF x = c THEN t ELSE thread[x]
      /\ \A f \in Fds : fdTable'[f] = IF f = fd THEN NoConn ELSE fdTable[f]
      /\ Fds' = Fds
  BY <1>1, <1>2 DEF ThreadChange, TypeInv, Fds
<1>4. PlaceOf(c) /\ EchoOf(c) /\ fdTable[fd] = c
  BY <1>2 DEF OwnInv, PlaceOf, HasFd
<1> HIDE DEF fd
<1>5. OneEach'
  BY <1>2, <1>3 DEF OwnInv, OneEach
<1>6. \A x \in Clients : (Held(x)' => Held(x)) /\ (Pending(x)' <=> Pending(x))
  BY <1>2, <1>3, ConstAssumption DEF Held, Pending
<1>7. PlaceOf(c)'
  <2>1. peer[c] # "none" /\ ~Pending(c) /\ ~(main = "create" /\ newest = c)
    BY <1>2, <1>4 DEF PlaceOf
  <2>2. thread'[c].pc = "done" /\ peer' = peer /\ main' = main /\ newest' = newest
    BY <1>1, <1>2, <1>3
  <2> QED
    BY <1>6, <2>1, <2>2 DEF PlaceOf, HasFd
<1>8. EchoOf(c)'
  BY <1>1, <1>2, <1>3, <1>4 DEF EchoOf
<1>9. ASSUME NEW x \in Clients, x # c PROVE PlaceOf(x)' /\ EchoOf(x)'
  <2>1. PlaceOf(x) /\ EchoOf(x) /\ thread'[x] = thread[x]
    BY <1>3, <1>9 DEF OwnInv
  <2>2. ASSUME NEW f \in Fds, fdTable[f] = x PROVE fdTable'[f] = x
    BY <1>3, <1>4, <1>9, <2>2
  <2>3. /\ thread[x].pc = "begin" \/ (main = "create" /\ newest = x) => com_fd \in Fds
        /\ thread[x].pc \in HasFd => thread[x].new_fd \in Fds
    BY DEF TypeInv
  <2>4. PlaceOf(x)'
    BY <1>2, <1>6, <2>1, <2>2, <2>3 DEF PlaceOf
  <2>5. EchoOf(x)'
    BY <1>2, <2>1 DEF EchoOf
  <2> QED
    BY <2>4, <2>5
<1> QED
  BY <1>5, <1>7, <1>8, <1>9 DEF OwnInv

\* accept() gives a free descriptor to a client that had none.
LEMMA AcceptOwns ==
  ASSUME TypeInv, OwnInv, Accept
  PROVE  OwnInv'
<1>1. PICK f \in Fds : /\ fdTable[f] = NoConn /\ com_fd' = f
                       /\ fdTable' = [fdTable EXCEPT ![f] = Head(backlog)]
  BY DEF Accept, FreeFds
<1>2. PICK h \in Clients : /\ h = Head(backlog)
                           /\ Tail(backlog) \in Seq(Clients) /\ Distinct(Tail(backlog))
                           /\ Has(backlog, h)
                           /\ \A x : Has(Tail(backlog), x) <=> Has(backlog, x) /\ x # h
  <2>1. backlog \in Seq(Clients) /\ backlog # <<>> /\ Distinct(backlog)
    BY DEF Accept, TypeInv, OwnInv, OneEach, Distinct
  <2> QED
    BY <2>1, TailOfDistinct
<1>3. /\ main = "accept" /\ main' = "create" /\ newest' = h /\ backlog' = Tail(backlog)
      /\ UNCHANGED <<numFds, thread, peer, stream, taken, replies>>
  BY <1>2 DEF Accept, clientVars
<1>4. /\ \A g \in Fds : fdTable'[g] = IF g = f THEN h ELSE fdTable[g]
      /\ Fds' = Fds
      /\ \A x \in Clients : Pending(x)' <=> Pending(x) /\ x # h
      /\ Pending(h)
  BY <1>1, <1>2, <1>3 DEF TypeInv, Fds, Pending, Has
<1>5. PlaceOf(h) /\ ~Held(h) /\ thread[h].pc = "none" /\ peer[h] # "none"
  BY <1>4 DEF OwnInv, PlaceOf
<1>6. OneEach'
  <2>1. \A i, j \in DOMAIN backlog' : backlog'[i] = backlog'[j] => i = j
    BY <1>2, <1>3 DEF Distinct
  <2>2. \A g, k \in Fds : fdTable'[g] = fdTable'[k] /\ fdTable'[g] # NoConn => g = k
    BY <1>4, <1>5 DEF OwnInv, OneEach, Held
  <2> QED
    BY <1>4, <2>1, <2>2 DEF OneEach
<1>7. PlaceOf(h)'
  BY <1>1, <1>3, <1>4, <1>5 DEF PlaceOf, HasFd
<1>8. ASSUME NEW x \in Clients, x # h PROVE PlaceOf(x)'
  <2>1. PlaceOf(x)
    BY DEF OwnInv
  <2>2. Held(x)' <=> Held(x)
    BY <1>1, <1>4, <1>8, ConstAssumption DEF Held
  <2>3. thread[x].pc \in HasFd => thread[x].new_fd \in Fds
    BY DEF TypeInv
  <2>4. thread[x].pc \in HasFd => fdTable'[thread[x].new_fd] = x
    BY <1>1, <1>4, <2>1, <2>3, ConstAssumption DEF PlaceOf
  <2> QED
    BY <1>3, <1>4, <1>8, <2>1, <2>2, <2>4 DEF PlaceOf
<1>9. ASSUME NEW x \in Clients PROVE EchoOf(x)'
  BY <1>3 DEF OwnInv, EchoOf
<1> QED
  BY <1>6, <1>7, <1>8, <1>9 DEF OwnInv

\* The thread started is that of the client accepted last.
LEMMA CreateOwns ==
  ASSUME TypeInv, OwnInv, Create
  PROVE  OwnInv'
<1>1. /\ main = "create" /\ main' = "accept" /\ newest \in Clients
      /\ UNCHANGED <<com_fd, newest, numFds, fdTable, backlog, peer, stream, taken, replies>>
      /\ thread' = thread \/ thread' = [thread EXCEPT ![newest].pc = "begin"]
  BY DEF Create, TypeInv, kernelVars, clientVars
<1>2. OneEach'
  BY <1>1 DEF OwnInv, OneEach, Fds
<1>3. ASSUME NEW x \in Clients, thread'[x] = thread[x] PROVE PlaceOf(x)' /\ EchoOf(x)'
  <2>1. PlaceOf(x) /\ EchoOf(x)
    BY DEF OwnInv
  <2>2. PlaceOf(x)'
    BY <1>1, <1>3, <2>1 DEF PlaceOf, Held, Pending, Fds
  <2>3. EchoOf(x)'
    BY <1>1, <1>3, <2>1 DEF EchoOf
  <2> QED
    BY <2>2, <2>3
<1>4. CASE thread' = thread
  BY <1>2, <1>3, <1>4 DEF OwnInv
<1>5. CASE thread' = [thread EXCEPT ![newest].pc = "begin"]
  <2>0. PICK n \in Clients : n = newest
    BY <1>1
  <2>1. /\ thread'[n].pc = "begin" /\ thread'[n].buf = thread[n].buf
        /\ \A x \in Clients : x # n => thread'[x] = thread[x]
    <3>1. thread[n] \in Threads
      BY DEF TypeInv
    <3> QED
      BY <1>5, <2>0, <3>1 DEF TypeInv, Threads
  <2>2. PlaceOf(n) /\ EchoOf(n) /\ thread[n].pc = "none" /\ fdTable[com_fd] = n
    BY <1>1, <2>0 DEF OwnInv, PlaceOf
  <2>3. Held(n) /\ com_fd \in Fds
    <3>1. com_fd \in Fds
      BY <1>1 DEF TypeInv
    <3> QED
      BY <2>2, <3>1 DEF Held
  <2>4. PlaceOf(n)'
    BY <1>1, <2>1, <2>2, <2>3 DEF PlaceOf, Held, Pending, Fds, HasFd
  <2>5. EchoOf(n)'
    <3>1. /\ thread[n].pc = "none" /\ thread'[n].pc = "begin" /\ thread'[n].buf = thread[n].buf
          /\ replies' = replies /\ taken' = taken /\ peer' = peer /\ EchoOf(n)
      BY <1>1, <2>1, <2>2
    <3> QED
      BY <3>1 DEF EchoOf
  <2>6. ASSUME NEW x \in Clients PROVE PlaceOf(x)' /\ EchoOf(x)'
    <3>1. CASE x = n
      BY <2>4, <2>5, <3>1
    <3>2. CASE x # n
      BY <1>3, <2>1, <3>2
    <3> QED
      BY <3>1, <3>2
  <2> QED
    BY <1>2, <2>6 DEF OwnInv
<1> QED
  BY <1>1, <1>4, <1>5

\* A client that connects waits in the backlog, once.
LEMMA ConnectOwns ==
  ASSUME TypeInv, OwnInv, NEW c \in Clients, Connect(c)
  PROVE  OwnInv'
<1>1. /\ peer[c] = "none" /\ peer' = [peer EXCEPT ![c] = "up"] /\ backlog' = Append(backlog, c)
      /\ UNCHANGED <<main, com_fd, newest, thread, numFds, fdTable, taken, replies>>
  BY DEF Connect
<1>2. PlaceOf(c) /\ EchoOf(c) /\ ~Pending(c) /\ ~Held(c) /\ thread[c].pc = "none"
  BY <1>1 DEF OwnInv, PlaceOf
<1>3. /\ \A x : Has(backlog', x) <=> Has(backlog, x) \/ x = c
      /\ Distinct(backlog')
  <2>1. backlog \in Seq(Clients) /\ Distinct(backlog) /\ ~Has(backlog, c)
    BY <1>2 DEF TypeInv, OwnInv, OneEach, Distinct, Pending, Has
  <2> QED
    BY <1>1, <2>1, AppendToDistinct
<1>4. /\ \A x : (Pending(x)' <=> Pending(x) \/ x = c) /\ (Held(x)' <=> Held(x))
      /\ \A x \in Clients : peer'[x] = IF x = c THEN "up" ELSE peer[x]
  BY <1>1, <1>3 DEF Pending, Has, Held, Fds, TypeInv
<1>5. OneEach'
  BY <1>1, <1>3 DEF OwnInv, OneEach, Distinct, Fds
<1>6. PlaceOf(c)'
  BY <1>1, <1>2, <1>4 DEF PlaceOf, HasFd
<1>7. EchoOf(c)'
  BY <1>1, <1>2, <1>4 DEF EchoOf
<1>8. ASSUME NEW x \in Clients, x # c PROVE PlaceOf(x)' /\ EchoOf(x)'
  <2>1. PlaceOf(x) /\ EchoOf(x)
    BY DEF OwnInv
  <2>2. PlaceOf(x)'
    BY <1>1, <1>4, <1>8, <2>1 DEF PlaceOf
  <2>3. EchoOf(x)'
    BY <1>1, <1>4, <1>8, <2>1 DEF EchoOf
  <2> QED
    BY <2>2, <2>3
<1> QED
  BY <1>5, <1>6, <1>7, <1>8 DEF OwnInv

\* Every step keeps them, unless it is that of a thread that is too late.
LEMMA OwnStep ==
  ASSUME TypeInv, OwnInv, [Next]_vars, ~overtaken'
  PROVE  OwnInv'
<1>1. ASSUME NEW c \in Clients, Send(c) \/ Leave(c) PROVE OwnInv'
  <2>1. /\ UNCHANGED <<main, com_fd, newest, thread, numFds, fdTable, backlog, taken, replies>>
        /\ peer' = peer \/ (peer[c] = "up" /\ peer' = [peer EXCEPT ![c] = "left"])
    BY <1>1 DEF Send, Leave, kernelVars
  <2>2. OneEach'
    BY <2>1 DEF OwnInv, OneEach, Fds
  <2>3. ASSUME NEW x \in Clients PROVE PlaceOf(x)' /\ EchoOf(x)'
    <3>1. PlaceOf(x) /\ EchoOf(x) /\ (peer'[x] = peer[x] \/ (peer[x] = "up" /\ peer'[x] = "left"))
      BY <2>1 DEF OwnInv, TypeInv
    <3>2. PlaceOf(x)'
      BY <2>1, <3>1 DEF PlaceOf, Held, Pending, Fds
    <3>3. EchoOf(x)'
      BY <2>1, <3>1 DEF EchoOf
    <3> QED
      BY <3>2, <3>3
  <2> QED
    BY <2>2, <2>3 DEF OwnInv
<1>2. CASE AcceptFails \/ UNCHANGED vars
  <2>1. /\ UNCHANGED <<com_fd, newest, thread, numFds, fdTable, backlog, peer, taken, replies>>
        /\ main' \in {main, "dead"}
    BY <1>2 DEF AcceptFails, vars, kernelVars, clientVars
  <2>2. OneEach'
    BY <2>1 DEF OwnInv, OneEach, Fds
  <2>3. ASSUME NEW x \in Clients PROVE PlaceOf(x)' /\ EchoOf(x)'
    BY <2>1, OthersKept DEF OwnInv
  <2> QED
    BY <2>2, <2>3 DEF OwnInv
<1> QED
  BY <1>1, <1>2, BeginOwns, CallOwns, ReadOwns, WriteOwns, CloseOwns, AcceptOwns, CreateOwns,
     ConnectOwns DEF Next, MainStep, ThreadStep

\* The inductive invariant holds in every state.
THEOREM EchoInvariant == Spec => []EchoInv
<1>1. Init => EchoInv
  BY TypeInit, OwnInit DEF EchoInv
<1>2. EchoInv /\ [Next]_vars => EchoInv'
  <2> SUFFICES ASSUME EchoInv, [Next]_vars PROVE EchoInv'
    OBVIOUS
  <2>1. TypeInv /\ TypeInv'
    BY TypeStep DEF EchoInv
  <2>2. overtaken => overtaken'
    <3>1. ASSUME NEW c \in Clients, Begin(c) PROVE overtaken => overtaken'
      BY <3>1, BeginShape, <2>1, Zenon
    <3>2. CASE ~\E c \in Clients : Begin(c)
      <4>1. overtaken' = overtaken
        BY <3>2 DEF Next, MainStep, ThreadStep, Accept, AcceptFails, Create, CallRead, ReadReturns,
                    Write, Close, Connect, Send, Leave, vars
      <4> QED
        BY <4>1
    <3> QED
      BY <3>1, <3>2
  <2>3. CASE overtaken
    BY <2>1, <2>2, <2>3 DEF EchoInv
  <2>4. CASE OwnInv /\ ~overtaken'
    BY <2>1, <2>4, OwnStep DEF EchoInv
  <2> QED
    BY <2>1, <2>3, <2>4 DEF EchoInv
<1> QED
  BY <1>1, <1>2, PTL DEF Spec

\* thr_fn answers each client its own characters, each once and in order,
\* for every number of clients and whatever descriptors are reused, as long as
\* no thread copied com_fd too late.
THEOREM EchoStaysOwn == Spec => []EchoIsOwn
<1>1. EchoInv => EchoIsOwn
  BY DEF EchoInv, OwnInv, EchoOf, EchoIsOwn
<1> QED
  BY <1>1, EchoInvariant, PTL
=============================================================================
