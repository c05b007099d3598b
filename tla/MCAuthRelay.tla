----------------------------- MODULE MCAuthRelay -----------------------------
(* The authentication relay with a few events and faults, for TLC. *)
EXTENDS AuthRelay
=============================================================================
