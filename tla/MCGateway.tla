------------------------------ MODULE MCGateway ------------------------------
(* Small instances of Gateway for TLC. *)
EXTENDS GatewayHub

CONSTANTS a, b

TwoConns == {a, b}
OnlyA == {a}
OnlyB == {b}
Nobody == {}
=============================================================================
