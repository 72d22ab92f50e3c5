-------------------------- MODULE MCWebSocketBridge --------------------------
(* Instances of WebSocketBridge for TLC. *)
EXTENDS WebSocketBridge
=============================================================================
