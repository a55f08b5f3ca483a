--------------------------- MODULE MCConsentPage ---------------------------
(* A small instance of ConsentPage for TLC. *)
EXTENDS ConsentPage, TLC

CONSTANTS i1, i2, d1, d2, sample, samples, a1, a2, full, modify

\* The name "sample" begins the scopes of "samples" as well.
MCScopesOf == (sample :> {full, modify}) @@ (samples :> {modify})

\* One request that names both services, and one that names one of them.
MCRequests == { {full}, {modify} }

\* Bound: one visit at a time is past its first answer.
OneAnswered ==
  \E v \in Visits : \A w \in Visits \ {v} :
    visit[w].containers = {} /\ visit[w].pc \notin { "shown", "failed" }

Symmetry == Permutations(Visits) \cup Permutations(Instances) \cup Permutations(Ids)
=============================================================================
