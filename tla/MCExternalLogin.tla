--------------------------- MODULE MCExternalLogin ---------------------------
(* Small instances of ExternalLogin for TLC. *)
EXTENDS ExternalLogin, TLC

Symmetry == Permutations(Browsers) \cup Permutations(ValidNames)
            \cup Permutations(Requests) \cup Permutations(Ids)
=============================================================================
