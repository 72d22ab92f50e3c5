--------------------------- MODULE MCResponseStream ---------------------------
(* Instances of ResponseStream for TLC. *)
EXTENDS ResponseStream
=============================================================================
