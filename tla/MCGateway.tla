------------------------------ MODULE MCGateway ------------------------------
(* An instance of Gateway for TLC. *)
EXTENDS Gateway
=============================================================================
