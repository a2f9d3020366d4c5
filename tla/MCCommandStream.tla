--------------------------- MODULE MCCommandStream ---------------------------
(* Small instances of CommandStream for TLC. *)
EXTENDS CommandStream

LedTwo == [option |-> 1, state |-> 2]      \* the gateway passes any byte on
GetTemp == [option |-> 3, state |-> 0]

LedAndTemp == {LedTwo, GetTemp}
Both == BOOLEAN
=============================================================================
