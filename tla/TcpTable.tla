------------------------------- MODULE TcpTable -------------------------------
(***************************************************************************)
(* Who owns what in Tcp_client.c: the connection this host makes to a      *)
(* server, the listening socket, the list of records of accepted remotes,  *)
(* and the table polling_fds, in which each of them has a slot, known by   *)
(* its index.  Module TcpPackets is about the bytes; here a connection     *)
(* only comes and goes.                                                    *)
(*                                                                         *)
(* polling_fds is in Polling.c, which is not in the repository: a slot is  *)
(* used from polling_define_poll_fd, which returns -1 when none is free,   *)
(* until polling_undefine_poll_fd, and a handler is called while poll()    *)
(* reports something for its slot.                                         *)
(***************************************************************************)
EXTENDS Integers, Sequences, FiniteSets, SequencesExt

CONSTANTS
  Callers,     \* remotes that connect to this host, each once
  Server, Listener, \* the connection made by this host; the listening socket
  Nobody,      \* no connection
  NumFds,      \* size of the descriptor table
  NumSlots,    \* size of polling_fds
  InFront,     \* what may be in memory in front of polling_fds: read as an fd
  MaxFailures  \* bound: calls that fail in a run

ASSUME TableAssumption ==
  /\ NumFds \in Nat /\ NumSlots \in Nat /\ MaxFailures \in Nat
  /\ InFront \subseteq -1 .. NumFds - 1
  /\ Server \notin Callers /\ Listener \notin Callers \cup {Server}
  /\ Nobody \notin Callers \cup {Server, Listener}

VARIABLES
  head,        \* SocketHead: "null", "up", "freed" (it points to freed memory)
  list,        \* the records from SocketHead on: whose it is, and its fd_index
  slots,       \* polling_fds: the descriptors in use, by index
  open,        \* kernel: what each open descriptor refers to
  conn,        \* the connection to the server: "new", "up" (connected is true),
               \* "timer" (the reconnection timer runs)
  connIndex,   \* its fd_index; -1 stands for no slot, and for not assigned
  backlog,     \* kernel: remotes that wait to be accepted
  ended,       \* kernel: the other end has closed
  failures,    \* history: calls that have failed
  inFront      \* polling_fds[-1].fd

tableVars == <<head, list, slots, open, conn, connIndex, backlog, ended, failures, inFront>>

Fds == 0 .. NumFds - 1
FreeFds == Fds \ DOMAIN open
FreeSlots == (1 .. NumSlots) \ DOMAIN slots
LowestFd(fds) == CHOOSE f \in fds : \A g \in fds : f <= g

Without(f, x) == [y \in DOMAIN f \ {x} |-> f[y]]
With(f, x, v) == [y \in DOMAIN f \cup {x} |-> IF y = x THEN v ELSE f[y]]

\* polling_fds[i].fd, for the index -1 of a record that got no slot, too
FdAt(i) == IF i \in DOMAIN slots THEN slots[i] ELSE inFront

TableInit ==
  /\ head = "null" /\ list = <<>> /\ slots = <<>> /\ open = <<>>
  /\ conn = "new" /\ connIndex = -1
  /\ backlog = <<>> /\ ended = {} /\ failures = 0
  /\ inFront \in InFront

Fails == failures < MaxFailures /\ failures' = failures + 1

-----------------------------------------------------------------------------
(* The connection to the server.                                           *)

\* tcp_connect_to_server succeeds, with descriptors os open and slots ss used:
\* the slot is any that is free.
Connects(os, ss) ==
  LET f == LowestFd(Fds \ DOMAIN os)
  IN /\ Fds \ DOMAIN os # {}
     /\ \E i \in (1 .. NumSlots) \ DOMAIN ss : connIndex' = i /\ slots' = With(ss, i, f)
     /\ open' = With(os, f, Server)
     /\ conn' = "up"
     /\ UNCHANGED failures

\* Mutant of ConnectFails: the timer is not set.
FailsForGood(os, ss) ==
  /\ \/ Fails /\ UNCHANGED connIndex
     \/ Fds \ DOMAIN os = {} /\ UNCHANGED <<failures, connIndex>>
     \/ (1 .. NumSlots) \ DOMAIN ss = {} /\ connIndex' = -1 /\ UNCHANGED failures
  /\ conn' = "failed"
  /\ open' = os /\ slots' = ss

\* It fails at any of its stages, and the timer is set: no address, no
\* descriptor, no connection within a second, an uninitialised "error" when
\* connect() succeeds at once, or no slot; the descriptor is closed again.
ConnectFails(os, ss) ==
  /\ \/ Fails /\ UNCHANGED connIndex
     \/ Fds \ DOMAIN os = {} /\ UNCHANGED <<failures, connIndex>>
     \/ (1 .. NumSlots) \ DOMAIN ss = {} /\ connIndex' = -1 /\ UNCHANGED failures
  /\ conn' = "timer"
  /\ open' = os /\ slots' = ss

\* tcp_socket_reconnect_to_server
Reconnects(os, ss) == Connects(os, ss) \/ ConnectFails(os, ss)

\* tcp_new_Client_connection
NewClient ==
  /\ conn = "new"
  /\ Reconnects(open, slots)
  /\ UNCHANGED <<head, list, backlog, ended, inFront>>

\* the reconnection timer, set once by each failure, runs out
TimerFires ==
  /\ conn = "timer"
  /\ Reconnects(open, slots)
  /\ UNCHANGED <<head, list, backlog, ended, inFront>>

\* Mutant of ServerCloses: the slot is not given back.
ServerClosesOnly ==
  /\ conn = "up" /\ Server \in ended
  /\ ended' = ended \ {Server}
  /\ Reconnects(Without(open, FdAt(connIndex)), slots)
  /\ UNCHANGED <<head, list, backlog, inFront>>

\* tcp_socket_event_handler when recv() returns 0: closed, its slot given back,
\* and made again at once or by the timer
ServerCloses ==
  /\ conn = "up" /\ Server \in ended
  /\ ended' = ended \ {Server}
  /\ Reconnects(Without(open, FdAt(connIndex)), Without(slots, connIndex))
  /\ UNCHANGED <<head, list, backlog, inFront>>

-----------------------------------------------------------------------------
(* The listening socket and the remotes.                                   *)

\* tcp_new_server_ap_connection.  When tcp_create_Server fails the record is
\* freed, SocketHead set to NULL and then to the freed record all the same: every
\* later call finds it set and does nothing.
NewServer ==
  /\ head = "null"
  /\ FreeFds # {}
  /\ \E i \in FreeSlots :
       /\ slots' = With(slots, i, LowestFd(FreeFds))
       /\ list' = <<[of |-> Listener, index |-> i]>>
  /\ open' = With(open, LowestFd(FreeFds), Listener)
  /\ head' = "up"
  /\ UNCHANGED <<conn, connIndex, backlog, ended, failures, inFront>>

NewServerFails ==
  /\ head = "null"
  /\ \/ Fails
     \/ (FreeFds = {} \/ FreeSlots = {}) /\ UNCHANGED failures
  /\ head' = "freed"
  /\ UNCHANGED <<list, slots, open, conn, connIndex, backlog, ended, inFront>>

\* A new record is put at the end of the list, with a slot or, when none is
\* free, with index -1.
AddRecord(who, f) ==
  \/ \E i \in FreeSlots : /\ slots' = With(slots, i, f)
                          /\ list' = Append(list, [of |-> who, index |-> i])
  \/ /\ FreeSlots = {}
     /\ list' = Append(list, [of |-> who, index |-> -1])
     /\ UNCHANGED slots

\* tcp_Server_handler
Accepts ==
  /\ head = "up" /\ backlog # <<>> /\ FreeFds # {}
  /\ AddRecord(Head(backlog), LowestFd(FreeFds))
  /\ open' = With(open, LowestFd(FreeFds), Head(backlog))
  /\ backlog' = Tail(backlog)
  /\ UNCHANGED <<head, conn, connIndex, ended, failures, inFront>>

\* accept() fails: the record is added all the same, for descriptor -1.  (While
\* there is no descriptor this is repeated for ever; the bound ends it.)
AcceptFails ==
  /\ head = "up" /\ backlog # <<>>
  /\ Fails
  /\ AddRecord(Nobody, -1)
  /\ UNCHANGED <<head, open, conn, connIndex, backlog, ended, inFront>>

\* Mutant of tcp_Server_deleteSocketRec: the search ends before the last record.
DeleteButLast(f) ==
  LET k == SelectInSeq(list, LAMBDA r : FdAt(r.index) = f)
  IN IF k \in {0, 1, Len(list)} THEN UNCHANGED <<list, open, slots>>
     ELSE /\ list' = RemoveAt(list, k)
          /\ open' = Without(open, f)
          /\ slots' = Without(slots, list[k].index)

\* Deletes the first record with descriptor f, unless it is the head.
tcp_Server_deleteSocketRec(f) ==
  LET k == SelectInSeq(list, LAMBDA r : FdAt(r.index) = f)
  IN IF k \in {0, 1} THEN UNCHANGED <<list, open, slots>>
     ELSE /\ list' = RemoveAt(list, k)
          /\ open' = Without(open, f)
          /\ slots' = Without(slots, list[k].index)

\* tcp_ServerClient_handler when POLLRDHUP is reported for slot i
RemoteCloses(i) ==
  /\ i \in DOMAIN slots /\ slots[i] \in DOMAIN open
  /\ open[slots[i]] \in Callers \cap ended
  /\ tcp_Server_deleteSocketRec(slots[i])
  /\ UNCHANGED <<head, conn, connIndex, backlog, ended, failures, inFront>>

HostMoves == \/ TimerFires \/ ServerCloses \/ Accepts \/ AcceptFails
             \/ \E i \in 1 .. NumSlots : RemoteCloses(i)

-----------------------------------------------------------------------------
(* The other ends.                                                         *)

RemoteConnects(c) ==
  /\ head = "up" /\ c \notin Range(backlog) \cup ended
  /\ \A f \in DOMAIN open : open[f] # c
  /\ backlog' = Append(backlog, c)
  /\ UNCHANGED <<head, list, slots, open, conn, connIndex, ended, failures, inFront>>

\* A peer closes; a remote may do so while it waits to be accepted.
OtherEnds(c) ==
  /\ c \notin ended
  /\ c \in Range(backlog) \/ \E f \in DOMAIN open : open[f] = c
  /\ ended' = ended \cup {c}
  /\ UNCHANGED <<head, list, slots, open, conn, connIndex, backlog, failures, inFront>>

TableNext == \/ NewClient \/ NewServer \/ NewServerFails \/ HostMoves
             \/ \E c \in Callers : RemoteConnects(c) \/ OtherEnds(c)
             \/ OtherEnds(Server)

TableSpec == TableInit /\ [][TableNext]_tableVars

\* The timer and every ready slot get their turn.
TableFairness == /\ WF_tableVars(TimerFires) /\ WF_tableVars(ServerCloses)
                 /\ \A i \in 1 .. NumSlots : WF_tableVars(RemoteCloses(i))

-----------------------------------------------------------------------------
(* Properties.                                                             *)

Full == FreeFds = {} \/ FreeSlots = {}

\* What owns a slot: the records and, while connected is true, the connection.
Owners == {[of |-> list[k].of, index |-> list[k].index] : k \in DOMAIN list}
          \cup (IF conn = "up" THEN {[of |-> Server, index |-> connIndex]} ELSE {})

\* Every index in use leads to the owner's own descriptor, no slot has two
\* owners, and none is left without one, whatever failed and was made again
\* before: tcp_send_packet, which looks at nothing but the index, writes to its
\* own peer for as long as connected is true.  (For as long as the word in
\* front of polling_fds is no descriptor: a record that got no slot is compared
\* by that word, and deleted in place of another.)
SlotsAreOwned ==
  inFront = -1 =>
    /\ \A o \in Owners : o.index # -1 =>
         /\ o.index \in DOMAIN slots
         /\ IF o.of = Nobody THEN slots[o.index] = -1
            ELSE slots[o.index] \in DOMAIN open /\ open[slots[o.index]] = o.of
    /\ \A i \in DOMAIN slots : Cardinality({o \in Owners : o.index = i}) = 1
    /\ \A j, k \in DOMAIN list : list[j].index = list[k].index => j = k \/ list[j].index = -1

\* The connection to the server is made again after every failure, unless the
\* records have taken all slots or descriptors: those that accept() failed for
\* never give theirs back.  A remote that ends is removed, unless it got no slot.
FollowsPeers ==
  /\ (conn # "new") ~> (conn = "up" \/ Full)
  /\ \A c \in Callers :
       (inFront = -1 /\ \E i \in DOMAIN slots : slots[i] \in DOMAIN open
                           /\ open[slots[i]] = c /\ c \in ended)
         ~> (\A f \in DOMAIN open : open[f] # c)

=============================================================================
