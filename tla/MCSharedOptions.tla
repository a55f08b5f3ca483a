-------------------------- MODULE MCSharedOptions --------------------------
(* Small instances of SharedOptions for TLC. *)
EXTENDS SharedOptions, TLC

Symmetry == Permutations(Logins) \cup Permutations(Clients)
=============================================================================
