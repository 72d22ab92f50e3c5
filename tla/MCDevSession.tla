----------------------------- MODULE MCDevSession -----------------------------
(* A platform of each kind, and one connection.                              *)
EXTENDS DevSession
MCCommands == [p \in {"macos", "ios"} |-> IF p = "macos" THEN 0 ELSE 2]
================================================================================
