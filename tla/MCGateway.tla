------------------------------ MODULE MCGateway ------------------------------
(* Gateway for TLC: what curl does to its timer, from everything to nothing. *)
EXTENDS Gateway

AnyTimerCall == {"keep", "start", "stop"}
NoTimerCall == {"keep"}
=============================================================================
