---------------------------- MODULE MCEchoThreads ----------------------------
(* Small instance of EchoThreads: two clients whose streams can be cut, and *)
(* descriptors for both, or one more than they need.                        *)
EXTENDS EchoThreads

CONSTANTS a, b
TwoClients == {a, b}
TwoOrThree == {2, 3}
=============================================================================
