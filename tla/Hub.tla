---------------------------------- MODULE Hub ----------------------------------
(***************************************************************************)
(* What the gateway promises its clients, without descriptors, lists, poll *)
(* or a kernel: members in the order they were admitted, and frames that   *)
(* reach them.  A frame reaches every member unless a write fails; then it *)
(* still reaches all those admitted before the one it failed at, that one  *)
(* is removed, and one failure is on record.  Module GatewayHub says how   *)
(* Gateway implements this.                                                *)
(***************************************************************************)
EXTENDS Integers, Sequences

CONSTANT Conns

VARIABLES
  running,   \* FALSE once a signal has ended the program
  known,     \* connections that were ever admitted
  members,   \* connections admitted and not removed
  before,    \* pairs of members, the first admitted earlier
  inbox,     \* frames that reached each connection, in order
  frame,     \* number of the last frame
  failures   \* frames that may have missed members

vars == <<running, known, members, before, inbox, frame, failures>>

Init ==
  /\ running = TRUE
  /\ known = {} /\ members = {} /\ before = {}
  /\ inbox = [c \in Conns |-> <<>>]
  /\ frame = 0 /\ failures = 0

\* A connection is admitted once, behind all members.
Admit(c) ==
  /\ running /\ c \notin known
  /\ known' = known \cup {c}
  /\ members' = members \cup {c}
  /\ before' = before \cup (members \X {c})
  /\ UNCHANGED <<running, inbox, frame, failures>>

\* The members D are removed; the others stay in their order.
Expel(D) ==
  /\ members' = members \ D
  /\ before' = {p \in before : p[1] \notin D /\ p[2] \notin D}
  /\ UNCHANGED known

Remove(c) ==
  /\ running /\ c \in members
  /\ Expel({c})
  /\ UNCHANGED <<running, inbox, frame, failures>>

\* The next frame reaches the members R.
Reach(R) ==
  /\ running
  /\ frame' = frame + 1
  /\ R \subseteq members
  /\ \A p \in before : p[2] \in R => p[1] \in R
  /\ inbox' = [c \in Conns |-> IF c \in R THEN Append(inbox[c], frame + 1) ELSE inbox[c]]

ReachAll == Reach(members) /\ UNCHANGED <<running, known, members, before, failures>>

\* The write to one member failed: those before it are reached.  (Or it failed
\* at something that is no member.)
ReachSome(R) ==
  /\ Reach(R)
  /\ failures' = failures + 1
  /\ \/ \E c \in members \ R : /\ \A p \in before : p[2] = c => p[1] \in R
                               /\ Expel({c})
     \/ UNCHANGED <<known, members, before>>
  /\ UNCHANGED running

\* The write ended the program.
ReachAndStop(R) ==
  /\ Reach(R)
  /\ running' = FALSE
  /\ UNCHANGED <<known, members, before, failures>>

\* Something a client sent ended the program.
Stop ==
  /\ running /\ running' = FALSE
  /\ UNCHANGED <<known, members, before, inbox, frame, failures>>

Next ==
  \/ \E c \in Conns : Admit(c) \/ Remove(c)
  \/ ReachAll
  \/ \E R \in SUBSET members : ReachSome(R) \/ ReachAndStop(R)
  \/ Stop

Spec == Init /\ [][Next]_vars
=============================================================================
