------------------------------- MODULE MCDaemon -------------------------------
(* The daemon with a user that may be skipped and a few faults, for TLC. *)
EXTENDS Daemon
=============================================================================
