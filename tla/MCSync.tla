------------------------------- MODULE MCSync -------------------------------
(* Instances of the sync engine for TLC. *)
EXTENDS SyncProperties, TLC

Symmetric == Permutations(Guids) \cup Permutations(Names) \cup Permutations(Attrs)
=============================================================================
