------------------------------ MODULE GatewayHub ------------------------------
(***************************************************************************)
(* Gateway implements Hub.  Members are the connections that a descriptor  *)
(* refers to; their order is that of their records in the list.            *)
(***************************************************************************)
EXTENDS Gateway

\* Client c has a record earlier in the list than client d.
Before(c, d) ==
  \E i, j \in 2 .. Len(records) : i < j /\ Refers(records[i], c) /\ Refers(records[j], d)

H == INSTANCE Hub WITH
       running  <- pc # "dead",
       known    <- {c \in Conns : joinedAt[c] # -1},
       members  <- {c \in Conns : Held(c)},
       before   <- {p \in Conns \X Conns : Before(p[1], p[2])},
       inbox    <- got,
       frame    <- bcast,
       failures <- drops

\* Seen from its clients, the gateway is a hub: whatever poll() reported, however
\* descriptors are reused and records unlinked in one round, each frame reaches
\* the clients in front of the record that failed and none behind it, only that
\* record goes with it, and a client that was removed is never back.
ImplementsHub == H!Spec
=============================================================================
