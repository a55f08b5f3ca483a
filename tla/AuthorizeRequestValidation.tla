--------------------- MODULE AuthorizeRequestValidation ---------------------
(***************************************************************************)
(* DefaultAuthorizeRequestValidator: which raw authorize requests the      *)
(* endpoint accepts and what it then stores.  AuthorizeEndpoint answers a  *)
(* refusal and an exception alike, with a redirect to the error page, so   *)
(* that both are a refusal here.                                           *)
(*                                                                         *)
(* OIDCPipeline starts from a set of accepted requests and assumes         *)
(* something of it (ConstantsAssumption); this module is where that set    *)
(* comes from.                                                             *)
(***************************************************************************)
EXTENDS Naturals, Sequences, FiniteSets

CONSTANTS
  Schemes,       \* schemes the client store has records for
  ClientIds,     \* client_id values, registered or not
  RedirectUris,  \* redirect_uri values, registered or not
  Registered,    \* the redirect URIs of each scheme's clients; {} for no record
  Challenges,    \* code_challenge values of a permitted length
  BadChallenge,  \* a code_challenge that is too short or too long
  ResponseTypes, \* response_type values, as sequences of words
  None           \* an absent value

ASSUME RegisteredAssumption ==
  Registered \in [Schemes -> [ClientIds -> SUBSET RedirectUris]]
ASSUME NoneAssumption ==
  /\ None \notin ClientIds \cup RedirectUris \cup Challenges \cup ResponseTypes
  /\ BadChallenge \notin Challenges \cup {None}

ResponseModes == { "form_post", "query", "fragment", "other" }
Methods       == { "plain", "S256", "other" }

RawRequest ==
  [ client_id             : ClientIds \cup {None},
    redirect_uri          : RedirectUris \cup {None},
    response_type         : ResponseTypes \cup {None},
    response_mode         : ResponseModes \cup {None},
    code_challenge        : Challenges \cup {BadChallenge, None},
    code_challenge_method : Methods \cup {None} ]

-----------------------------------------------------------------------------
(* The tables *)

SupportedResponseTypes == { <<"id_token">>, <<"id_token", "token">>, <<"code">> }

ImplicitTypes == { <<"token">>, <<"id_token">>, <<"id_token", "token">> }
HybridTypes   == { <<"code", "id_token">>, <<"code", "token">>,
                   <<"code", "id_token", "token">> }

\* A Dictionary: its keys are compared as strings.
ResponseTypeToGrantType ==
  [ t \in ImplicitTypes \cup {<<"code">>} \cup HybridTypes |->
      CASE t \in ImplicitTypes -> "implicit"
        [] t = <<"code">>      -> "authorization_code"
        [] t \in HybridTypes   -> "hybrid" ]

SupportedResponseModes == { "form_post", "query" }

AllowedResponseModes ==
  [ authorization_code |-> <<"query", "form_post">>,
    hybrid             |-> <<"fragment", "form_post">>,
    implicit           |-> <<"fragment", "form_post">> ]
-----------------------------------------------------------------------------
(* ResponseTypeEqualityComparer *)

Occurrences(t, w) == Cardinality({ i \in DOMAIN t : t[i] = w })

\* Both are split and sorted before they are compared.
SameResponseType(t, u) ==
  /\ Len(t) = Len(u)
  /\ \A i \in DOMAIN t : Occurrences(t, t[i]) = Occurrences(u, t[i])

-----------------------------------------------------------------------------
(* ValidateAsync *)

VARIABLES
  raw,      \* the parameters of the request under validation
  uris,     \* the redirect URIs in the client's record, None without a record
  verdict,  \* "none" so far, "accepted" or "refused"
  stored    \* the validated request the endpoint stores, None if refused

vars == << raw, uris, verdict, stored >>

\* The client store takes the first record it finds for the client, in the
\* records of any scheme.
FetchClientRecord(c) ==
  LET found == IF c = None THEN {} ELSE { Registered[s][c] : s \in Schemes } \ {{}}
  IN  IF found = {} THEN {None} ELSE found

SupportedAs(r) == { t \in SupportedResponseTypes : SameResponseType(t, r.response_type) }

\* The mapping is indexed with the words as they were sent: an unknown order
\* throws.
ResponseTypeOk(r) ==
  /\ r.response_type # None
  /\ SupportedAs(r) # {}
  /\ r.response_type \in DOMAIN ResponseTypeToGrantType

GrantType(r) == ResponseTypeToGrantType[r.response_type]

\* Mutant: a supported mode is good for every flow.
ResponseModeOkAnyFlow(r) ==
  r.response_mode # None => r.response_mode \in SupportedResponseModes

ResponseModeOk(r) ==
  r.response_mode # None =>
    /\ r.response_mode \in SupportedResponseModes
    /\ \E i \in DOMAIN AllowedResponseModes[GrantType(r)] :
         AllowedResponseModes[GrantType(r)][i] = r.response_mode

ClientOk(r) == uris # None /\ r.redirect_uri \in uris

\* Without a challenge there is nothing to check; "plain", which a missing
\* method stands for, is not allowed.
PkceOk(r) ==
  GrantType(r) = "authorization_code" /\ r.code_challenge # None
  => r.code_challenge \in Challenges /\ r.code_challenge_method = "S256"

Accepts(r) ==
  /\ r.redirect_uri # None
  /\ ResponseTypeOk(r)
  /\ r.client_id # None
  /\ ClientOk(r)
  /\ ResponseModeOk(r)
  /\ PkceOk(r)

\* Mutant: the challenge is taken from the raw request whatever the flow.
ValidatedRequestAnyFlow(r) ==
  [ client_id      |-> r.client_id,
    redirect_uri   |-> r.redirect_uri,
    response_type  |-> CHOOSE t \in SupportedAs(r) : TRUE,
    response_mode  |-> IF r.response_mode # None THEN r.response_mode
                       ELSE AllowedResponseModes[GrantType(r)][1],
    code_challenge |-> r.code_challenge ]

\* What the accepted request keeps: the response type as the table spells it,
\* the first mode of the flow unless one was asked for, and a challenge only if
\* it was checked.
ValidatedRequest(r) ==
  [ client_id      |-> r.client_id,
    redirect_uri   |-> r.redirect_uri,
    response_type  |-> CHOOSE t \in SupportedAs(r) : TRUE,
    response_mode  |-> IF r.response_mode # None THEN r.response_mode
                       ELSE AllowedResponseModes[GrantType(r)][1],
    code_challenge |-> IF GrantType(r) = "authorization_code"
                       THEN r.code_challenge ELSE None ]

Init ==
  /\ raw \in RawRequest
  /\ uris \in FetchClientRecord(raw.client_id)
  /\ verdict = "none"
  /\ stored = None

Validate ==
  /\ verdict = "none"
  /\ \/ Accepts(raw) /\ verdict' = "accepted" /\ stored' = ValidatedRequest(raw)
     \/ ~Accepts(raw) /\ verdict' = "refused" /\ stored' = None
  /\ UNCHANGED << raw, uris >>

Next == Validate

Spec == Init /\ [][Next]_vars

-----------------------------------------------------------------------------
(* Properties *)

\* OIDCPipeline.AuthorizeRequest, of the requests with this client store.
CoreRequest(q) ==
  /\ \E s \in Schemes : q.redirect_uri \in Registered[s][q.client_id]
  /\ q.code_challenge \in Challenges \cup {None}
  /\ q.response_type \in { <<"code">>, <<"id_token">>, <<"id_token", "token">> }
  /\ q.response_type # <<"code">> => q.code_challenge = None

\* What the endpoint stores is what OIDCPipeline assumes of a request: of a
\* registered client, with a well-formed challenge if any, and without one
\* unless a code is asked for.
StoredIsCoreRequest == verdict = "accepted" => CoreRequest(stored)

\* AuthorizeResult.RenderAuthorizeResponseAsync throws for a mode it does not
\* know: whatever the tables of the validator let pass can be rendered, and the
\* query never carries the tokens of an implicit request.
StoredCanBeAnswered ==
  verdict = "accepted" =>
    /\ stored.response_mode \in { "query", "fragment", "form_post" }
    /\ stored.response_mode = "query" => stored.response_type = <<"code">>

\* ResponseTypeEqualityComparer calls the order of the words insignificant: if a
\* request is refused, it is refused in every order of its response type.
OrderIsInsignificant ==
  verdict = "refused" /\ raw.response_type # None =>
    \A t \in ResponseTypes : SameResponseType(t, raw.response_type)
                             => ~Accepts([raw EXCEPT !.response_type = t])
=============================================================================
