----------------------------- MODULE EchoThreads -----------------------------
(***************************************************************************)
(* server_thread.c: main accepts connections and starts a thread for each, *)
(* to which it hands the address of its one variable com_fd.  A thread     *)
(* copies what is there when it begins, reads, answers in upper case what  *)
(* it read, and closes the descriptor at the end of the stream or when a   *)
(* read begins with '@'.                                                   *)
(*                                                                         *)
(* A system call looks its descriptor up when it is called: a read() that  *)
(* waits stays with the connection it was called for, a write() goes to    *)
(* what the descriptor refers to by then.  Clients are those of client.c   *)
(* and others: they send at any time, in pieces that TCP cuts as it likes, *)
(* and may leave or be killed at any time.                                 *)
(***************************************************************************)
EXTENDS Integers, Sequences, FiniteSets, SequencesExt

CONSTANTS
  Clients,     \* connections clients may open, each used once
  FdLimits,    \* numbers of descriptors the process may have for connections
  NoConn,      \* what a free descriptor refers to
  CreateFails, \* whether pthread_create() may fail
  MaxChars     \* bound: characters a client sends

ASSUME ConstAssumption ==
  /\ FdLimits \subseteq Nat \ {0} /\ NoConn \notin Clients
  /\ CreateFails \in BOOLEAN
  /\ MaxChars \in Nat

VARIABLES
  numFds,    \* descriptors the process has for connections
  main,      \* "accept", "create"; "dead" when the process has ended
  com_fd,    \* main's variable; 0 before the first accept()
  newest,    \* history: the client accepted last
  thread,    \* for each client, the thread started for it: [pc, new_fd, file, buf]
  fdTable,   \* kernel: what each descriptor refers to
  backlog,   \* kernel: connections waiting for accept()
  peer,      \* each client's end: "none", "up", "left", "reset"
  stream,    \* what has arrived of each client: "@", or "t" for any other character
  taken,     \* how many of them were read
  replies,   \* what was written to each client: [from, pos] of each character
  orphans,   \* history: clients whose pthread_create() failed
  overtaken  \* history: com_fd was overwritten before a thread had copied it

kernelVars == <<numFds, fdTable, backlog>>
clientVars == <<peer, stream>>
vars == <<main, com_fd, newest, thread, kernelVars, clientVars, taken, replies, orphans, overtaken>>

Fds == 1 .. numFds
NoThread == [pc |-> "none", new_fd |-> 0, file |-> NoConn, buf |-> <<>>]
FreeFds == {f \in Fds : fdTable[f] = NoConn}
Held(c) == \E f \in Fds : fdTable[f] = c
Pending(c) == \E i \in DOMAIN backlog : backlog[i] = c
Lives == main # "dead"

Init ==
  /\ numFds \in FdLimits
  /\ main = "accept" /\ com_fd = 0 /\ newest = NoConn
  /\ thread = [c \in Clients |-> NoThread]
  /\ fdTable = [f \in Fds |-> NoConn] /\ backlog = <<>>
  /\ peer = [c \in Clients |-> "none"]
  /\ stream = [c \in Clients |-> <<>>]
  /\ taken = [c \in Clients |-> 0] /\ replies = [c \in Clients |-> <<>>]
  /\ orphans = {} /\ overtaken = FALSE

-----------------------------------------------------------------------------
(* main                                                                    *)

\* Mutant of Accept: main first waits for the threads it has started.
AcceptAfterJoin ==
  /\ main = "accept" /\ backlog # <<>>
  /\ \A c \in Clients : thread[c].pc \in {"none", "done"}
  /\ \E f \in FreeFds :
       /\ \A g \in FreeFds : f <= g
       /\ com_fd' = f
       /\ fdTable' = [fdTable EXCEPT ![f] = Head(backlog)]
  /\ newest' = Head(backlog)
  /\ backlog' = Tail(backlog)
  /\ main' = "create"
  /\ UNCHANGED <<numFds, thread, clientVars, taken, replies, orphans, overtaken>>

\* accept() takes the lowest free descriptor.
Accept ==
  /\ main = "accept" /\ backlog # <<>>
  /\ \E f \in FreeFds :
       /\ \A g \in FreeFds : f <= g
       /\ com_fd' = f
       /\ fdTable' = [fdTable EXCEPT ![f] = Head(backlog)]
  /\ newest' = Head(backlog)
  /\ backlog' = Tail(backlog)
  /\ main' = "create"
  /\ UNCHANGED <<numFds, thread, clientVars, taken, replies, orphans, overtaken>>

\* Without a descriptor accept() fails, and main, with all threads, ends.
AcceptFails ==
  /\ main = "accept" /\ FreeFds = {}
  /\ main' = "dead"
  /\ UNCHANGED <<com_fd, newest, thread, kernelVars, clientVars, taken, replies, orphans, overtaken>>

\* pthread_create().  Its failure, a positive number, is not noticed.
Create ==
  /\ main = "create"
  /\ main' = "accept"
  /\ \/ thread' = [thread EXCEPT ![newest].pc = "begin"] /\ UNCHANGED orphans
     \/ CreateFails /\ orphans' = orphans \cup {newest} /\ UNCHANGED thread
  /\ UNCHANGED <<com_fd, newest, kernelVars, clientVars, taken, replies, overtaken>>

MainStep == Accept \/ AcceptFails \/ Create

-----------------------------------------------------------------------------
(* thr_fn, in the thread started for client c                              *)

At(c, pc) == Lives /\ thread[c].pc = pc

\* int new_fd = *parg
Begin(c) ==
  /\ At(c, "begin")
  /\ thread' = [thread EXCEPT ![c].pc = "call", ![c].new_fd = com_fd]
  /\ overtaken' = (overtaken \/ newest # c)
  /\ UNCHANGED <<main, com_fd, newest, kernelVars, clientVars, taken, replies, orphans>>

\* read() is called: on a closed descriptor it fails at once
CallRead(c) ==
  /\ At(c, "call")
  /\ LET file == fdTable[thread[c].new_fd]
     IN thread' = [thread EXCEPT ![c].file = file,
                                 ![c].pc = IF file = NoConn THEN "close" ELSE "read"]
  /\ UNCHANGED <<main, com_fd, newest, kernelVars, clientVars, taken, replies, orphans, overtaken>>

\* read() returns all that has arrived, or the end of the stream
ReadReturns(c) ==
  /\ At(c, "read")
  /\ LET d   == thread[c].file
         buf == [i \in 1 .. (Len(stream[d]) - taken[d]) |-> [from |-> d, pos |-> taken[d] + i]]
     IN \/ /\ buf # <<>>
           /\ taken' = [taken EXCEPT ![d] = Len(stream[d])]
           /\ thread' = [thread EXCEPT ![c].buf = buf, ![c].pc =
                           IF stream[d][taken[d] + 1] = "@" THEN "close" ELSE "write"]
        \/ /\ buf = <<>> /\ peer[d] # "up"
           /\ thread' = [thread EXCEPT ![c].pc = "close"]
           /\ UNCHANGED taken
  /\ UNCHANGED <<main, com_fd, newest, kernelVars, clientVars, replies, orphans, overtaken>>

\* Mutant of Target: the answer goes to com_fd.
ComTarget(c) == fdTable[com_fd]

Target(c) == fdTable[thread[c].new_fd]

\* The answer.  A client that has left resets the connection; from then on a
\* write() raises SIGPIPE, which ends the process.
Write(c) ==
  /\ At(c, "write")
  /\ LET d == Target(c)
     IN \/ d # NoConn /\ peer[d] = "up"
           /\ replies' = [replies EXCEPT ![d] = @ \o thread[c].buf]
           /\ UNCHANGED <<main, peer>>
        \/ d # NoConn /\ peer[d] \in {"left", "reset"}
           /\ peer' = [peer EXCEPT ![d] = "reset"]
           /\ UNCHANGED <<main, replies>>
        \/ d # NoConn /\ peer[d] = "reset"
           /\ main' = "dead"
           /\ UNCHANGED <<peer, replies>>
        \/ d = NoConn
           /\ UNCHANGED <<main, peer, replies>>
  /\ thread' = [thread EXCEPT ![c].pc = "call", ![c].buf = <<>>]
  /\ UNCHANGED <<com_fd, newest, kernelVars, stream, taken, orphans, overtaken>>

\* close(new_fd), whatever it refers to
Close(c) ==
  /\ At(c, "close")
  /\ fdTable' = [fdTable EXCEPT ![thread[c].new_fd] = NoConn]
  /\ thread' = [thread EXCEPT ![c] = [NoThread EXCEPT !.pc = "done"]]
  /\ UNCHANGED <<main, com_fd, newest, numFds, backlog, clientVars, taken, replies, orphans, overtaken>>

ThreadStep(c) == Begin(c) \/ CallRead(c) \/ ReadReturns(c) \/ Write(c) \/ Close(c)

-----------------------------------------------------------------------------
(* Clients and the network                                                 *)

Connect(c) ==
  /\ Lives /\ peer[c] = "none"
  /\ peer' = [peer EXCEPT ![c] = "up"]
  /\ backlog' = Append(backlog, c)
  /\ UNCHANGED <<main, com_fd, newest, thread, numFds, fdTable, stream, taken, replies, orphans, overtaken>>

\* a character is sent, and arrives
Send(c) ==
  /\ Lives /\ peer[c] = "up" /\ Len(stream[c]) < MaxChars
  /\ \E x \in {"t", "@"} : stream' = [stream EXCEPT ![c] = Append(@, x)]
  /\ UNCHANGED <<main, com_fd, newest, thread, kernelVars, peer, taken, replies, orphans, overtaken>>

Leave(c) ==
  /\ Lives /\ peer[c] = "up"
  /\ peer' = [peer EXCEPT ![c] = "left"]
  /\ UNCHANGED <<main, com_fd, newest, thread, kernelVars, stream, taken, replies, orphans, overtaken>>

Next ==
  \/ MainStep
  \/ \E c \in Clients : ThreadStep(c) \/ Connect(c) \/ Send(c) \/ Leave(c)

\* main and every thread run on; clients send and leave as they like.
Spec == Init /\ [][Next]_vars /\ WF_vars(MainStep) /\ \A c \in Clients : WF_vars(ThreadStep(c))

-----------------------------------------------------------------------------
(* A client gets the answers to its own characters, each once and in order,    *)
(* whatever descriptor was closed and given to another one before: only a      *)
(* thread that was too late to copy com_fd ever reads, answers or closes the   *)
(* connection of somebody else.                                                *)
EchoIsOwn ==
  overtaken \/ \A c \in Clients : \A i \in DOMAIN replies[c] :
                 replies[c][i] = [from |-> c, pos |-> i]

(* What has arrived of a client that waits or is connected is answered, or its *)
(* connection closed, whatever the other clients do and however long they keep *)
(* silent; unless its thread was never started, a thread was too late, the     *)
(* client left, or the process ended for want of a descriptor or by SIGPIPE.   *)
Closed(c) == peer[c] # "none" /\ ~Held(c) /\ ~Pending(c)
EveryoneIsServed ==
  \A c \in Clients : \A n \in 1 .. MaxChars :
    (Len(stream[c]) >= n)
      ~> (Len(replies[c]) >= n \/ Closed(c) \/ peer[c] # "up"
          \/ c \in orphans \/ overtaken \/ ~Lives)
=============================================================================
