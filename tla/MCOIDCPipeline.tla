--------------------------- MODULE MCOIDCPipeline ---------------------------
(* Small instances of OIDCPipeline for TLC. *)
EXTENDS OIDCPipeline, TLC

CONSTANTS b1, b2, k1, k2, h1, h2, c1, c2, u1, u2, v1, v2, n1

\* A PKCE client that sends a nonce, and a client of the code flow that sends
\* neither challenge nor nonce.
PkceRequest ==
  [ client_id |-> c1, redirect_uri |-> u1, response_type |-> "code",
    code_challenge |-> v1, nonce |-> n1 ]
PlainRequest ==
  [ client_id |-> c2, redirect_uri |-> u2, response_type |-> "code",
    code_challenge |-> None, nonce |-> None ]

MCRequests == { PkceRequest, PlainRequest }

GoodToken  == [ client_id |-> c1, redirect_uri |-> u1, code_verifier |-> v1 ]
WrongProof == [ GoodToken EXCEPT !.code_verifier = v2 ]
WrongUri   == [ GoodToken EXCEPT !.redirect_uri = u2 ]

MCTokenRequests == { GoodToken, WrongProof }
MCUriTokenRequests == { GoodToken, WrongUri }

\* Bound: each key sees at most one answer of the provider and one post.
NoRepeats == \A k \in Keys : logins[k] <= 1 /\ posts[k] <= 1

Symmetry == Permutations(Browsers) \cup Permutations(Keys) \cup Permutations(Handlers)
=============================================================================
