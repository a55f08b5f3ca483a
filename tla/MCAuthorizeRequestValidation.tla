-------------------- MODULE MCAuthorizeRequestValidation --------------------
(* Instances of AuthorizeRequestValidation for TLC. *)
EXTENDS AuthorizeRequestValidation

CONSTANTS u1, u2, c1, c2, c3, s1, s2

\* c1 is registered under both schemes, with different URIs; c2 under one; c3
\* under none.
MCRegistered ==
  [ s \in {s1, s2} |->
      [ c \in {c1, c2, c3} |-> CASE c = c1 -> IF s = s1 THEN {u1} ELSE {u2}
                                 [] c = c2 -> IF s = s1 THEN {u1, u2} ELSE {}
                                 [] c = c3 -> {} ]]

MCResponseTypes ==
  { <<"code">>, <<"token">>, <<"id_token">>, <<"id_token", "token">>,
    <<"token", "id_token">>, <<"code", "id_token">>, <<"id_token", "id_token">>,
    <<"none">> }
=============================================================================
