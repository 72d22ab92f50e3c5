-------------------------- MODULE MCCertificateCache --------------------------
(* Instances of CertificateCache for TLC. *)
EXTENDS CertificateCache
=============================================================================
