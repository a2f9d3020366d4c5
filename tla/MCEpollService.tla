---------------------------- MODULE MCEpollService ----------------------------
(* Small instances of EpollService for TLC. *)
EXTENDS EpollService

CONSTANTS a, b, c

ThreeConns == {a, b, c}
OnlyB == {b}
=============================================================================
