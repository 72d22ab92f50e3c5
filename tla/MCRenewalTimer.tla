---------------------------- MODULE MCRenewalTimer ----------------------------
(* Instances of RenewalTimer for TLC. *)
EXTENDS RenewalTimer
=============================================================================
