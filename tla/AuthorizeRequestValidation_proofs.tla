----------------- MODULE AuthorizeRequestValidation_proofs -----------------
(* Proofs about AuthorizeRequestValidation, for any client store. *)
EXTENDS AuthorizeRequestValidation, FiniteSetTheorems, TLAPS

\* The inductive invariant: what is known of the request and the client's
\* record while the verdict is open, and the two properties once it is not.
IInv ==
  /\ raw \in RawRequest
  /\ uris \in FetchClientRecord(raw.client_id)
  /\ StoredIsCoreRequest
  /\ StoredCanBeAnswered

-----------------------------------------------------------------------------
(* The tables *)

\* The dictionary knows three flows, and the code flow by one type only.
LEMMA CodeFlowIsCode ==
  ASSUME NEW t \in DOMAIN ResponseTypeToGrantType
  PROVE  /\ ResponseTypeToGrantType[t] \in { "implicit", "authorization_code", "hybrid" }
         /\ ResponseTypeToGrantType[t] = "authorization_code" => t = <<"code">>
  <1>1. CASE t \in ImplicitTypes
    BY <1>1 DEF ResponseTypeToGrantType
  <1>2. CASE t = <<"code">>
    <2>1. t \notin ImplicitTypes
      BY <1>2 DEF ImplicitTypes
    <2>2. t \notin HybridTypes
      BY <1>2 DEF HybridTypes
    <2> QED
      BY <1>2, <2>1, <2>2 DEF ResponseTypeToGrantType
  <1>3. CASE t \in HybridTypes
    <2>1. t \notin ImplicitTypes /\ t # <<"code">>
      BY <1>3 DEF ImplicitTypes, HybridTypes
    <2> QED
      BY <1>3, <2>1 DEF ResponseTypeToGrantType
  <1> QED
    BY <1>1, <1>2, <1>3 DEF ResponseTypeToGrantType

\* Of the supported types only "code" has the one word "code" in it, in
\* whatever way the comparer counts.
LEMMA OnlyCodeIsCode ==
  ASSUME NEW t \in SupportedResponseTypes, SameResponseType(t, <<"code">>)
  PROVE  t = <<"code">>
  <1>1. Len(t) = 1
    BY DEF SameResponseType
  <1>2. t # <<"id_token", "token">>
    BY <1>1
  <1>3. ASSUME t = <<"id_token">> PROVE FALSE
    <2>1. { i \in DOMAIN t : t[i] = "id_token" } = {1}
      BY <1>3
    <2>2. { i \in DOMAIN <<"code">> : <<"code">>[i] = "id_token" } = {}
      OBVIOUS
    <2>3. Occurrences(t, "id_token") = 1 /\ Occurrences(<<"code">>, "id_token") = 0
      BY <2>1, <2>2, FS_EmptySet, FS_Singleton DEF Occurrences
    <2>4. 1 \in DOMAIN t /\ t[1] = "id_token"
      BY <1>3
    <2> QED
      BY <2>3, <2>4 DEF SameResponseType
  <1> QED
    BY <1>2, <1>3 DEF SupportedResponseTypes
\* A type the comparer finds supported for "code" is "code".
LEMMA SupportedAsCode ==
  ASSUME NEW r, r.response_type = <<"code">>, NEW t \in SupportedAs(r)
  PROVE  t = <<"code">>
  BY OnlyCodeIsCode DEF SupportedAs

-----------------------------------------------------------------------------
(* What an accepted request stores *)

LEMMA StoredFields ==
  ASSUME NEW r, Accepts(r)
  PROVE  LET q == ValidatedRequest(r) IN
         /\ q.client_id = r.client_id
         /\ q.redirect_uri = r.redirect_uri
         /\ q.response_type \in SupportedAs(r)
         /\ q.response_mode = IF r.response_mode # None THEN r.response_mode
                              ELSE AllowedResponseModes[GrantType(r)][1]
         /\ q.code_challenge = IF GrantType(r) = "authorization_code"
                               THEN r.code_challenge ELSE None
  <1>1. (CHOOSE t \in SupportedAs(r) : TRUE) \in SupportedAs(r)
    BY DEF Accepts, ResponseTypeOk
  <1> QED
    BY <1>1 DEF ValidatedRequest

LEMMA AcceptedIsCoreRequest ==
  ASSUME NEW r \in RawRequest, uris \in FetchClientRecord(r.client_id), Accepts(r)
  PROVE  CoreRequest(ValidatedRequest(r))
  <1> DEFINE q == ValidatedRequest(r)
  <1>1. /\ q.client_id = r.client_id /\ q.redirect_uri = r.redirect_uri
        /\ q.response_type \in SupportedAs(r)
        /\ q.code_challenge = IF GrantType(r) = "authorization_code"
                              THEN r.code_challenge ELSE None
    BY StoredFields
  <1> HIDE DEF q
  <1>2. \E s \in Schemes : q.redirect_uri \in Registered[s][q.client_id]
    <2>1. uris # None /\ r.redirect_uri \in uris
      BY DEF Accepts, ClientOk
    <2>2. PICK s \in Schemes : uris = Registered[s][r.client_id]
      BY <2>1 DEF FetchClientRecord
    <2> QED
      BY <1>1, <2>1, <2>2
  <1>3. q.code_challenge \in Challenges \cup {None}
    BY <1>1 DEF Accepts, PkceOk
  <1>4. q.response_type \in { <<"code">>, <<"id_token">>, <<"id_token", "token">> }
    BY <1>1 DEF SupportedAs, SupportedResponseTypes
  <1>5. q.response_type # <<"code">> => q.code_challenge = None
    <2>1. CASE GrantType(r) = "authorization_code"
      <3>1. r.response_type = <<"code">>
        BY <2>1, CodeFlowIsCode DEF GrantType, Accepts, ResponseTypeOk
      <3> QED
        BY <1>1, <3>1, SupportedAsCode
    <2>2. CASE GrantType(r) # "authorization_code"
      BY <1>1, <2>2
    <2> QED
      BY <2>1, <2>2
  <1> QED
    BY <1>2, <1>3, <1>4, <1>5 DEF CoreRequest, q

LEMMA AcceptedCanBeAnswered ==
  ASSUME NEW r \in RawRequest, Accepts(r)
  PROVE  LET q == ValidatedRequest(r) IN
         /\ q.response_mode \in { "query", "fragment", "form_post" }
         /\ q.response_mode = "query" => q.response_type = <<"code">>
  <1> DEFINE q == ValidatedRequest(r)
             g == GrantType(r)
  <1>1. /\ q.response_type \in SupportedAs(r)
        /\ q.response_mode = IF r.response_mode # None THEN r.response_mode
                             ELSE AllowedResponseModes[g][1]
    BY StoredFields
  <1>2. /\ g \in { "implicit", "authorization_code", "hybrid" }
        /\ g = "authorization_code" => r.response_type = <<"code">>
    BY CodeFlowIsCode DEF GrantType, Accepts, ResponseTypeOk
  <1> HIDE DEF q, g
  <1>3. \E i \in DOMAIN AllowedResponseModes[g] : AllowedResponseModes[g][i] = q.response_mode
    <2>1. CASE r.response_mode # None
      BY <1>1, <2>1 DEF Accepts, ResponseModeOk, g
    <2>2. CASE r.response_mode = None
      <3>1. 1 \in DOMAIN AllowedResponseModes[g]
        BY <1>2 DEF AllowedResponseModes
      <3> QED
        BY <1>1, <2>2, <3>1
    <2> QED
      BY <2>1, <2>2
  <1>4. /\ q.response_mode \in { "query", "fragment", "form_post" }
        /\ q.response_mode = "query" => g = "authorization_code"
    BY <1>2, <1>3 DEF AllowedResponseModes
  <1>5. q.response_mode = "query" => q.response_type = <<"code">>
    BY <1>1, <1>2, <1>4, SupportedAsCode
  <1> QED
    BY <1>4, <1>5 DEF q

-----------------------------------------------------------------------------
(* The specification *)

LEMMA InitIInv == Init => IInv
  BY DEF Init, IInv, StoredIsCoreRequest, StoredCanBeAnswered

LEMMA NextIInv == IInv /\ [Next]_vars => IInv'
  <1> SUFFICES ASSUME IInv, [Next]_vars PROVE IInv'
    OBVIOUS
  <1>1. CASE Validate
    <2>1. raw' = raw /\ uris' = uris
      BY <1>1 DEF Validate
    <2>2. CASE Accepts(raw) /\ verdict' = "accepted" /\ stored' = ValidatedRequest(raw)
      BY <2>1, <2>2, AcceptedIsCoreRequest, AcceptedCanBeAnswered
         DEF IInv, FetchClientRecord, StoredIsCoreRequest, StoredCanBeAnswered, CoreRequest
    <2>3. CASE verdict' = "refused"
      BY <2>1, <2>3 DEF IInv, FetchClientRecord, StoredIsCoreRequest, StoredCanBeAnswered
    <2> QED
      BY <1>1, <2>2, <2>3 DEF Validate
  <1>2. CASE UNCHANGED vars
    BY <1>2 DEF vars, IInv, FetchClientRecord, StoredIsCoreRequest, StoredCanBeAnswered,
       CoreRequest
  <1> QED
    BY <1>1, <1>2 DEF Next

\* DefaultAuthorizeRequestValidator: whatever the clients and their URIs, a
\* request that is stored is one the core assumes.
THEOREM AcceptedAreCoreRequests == Spec => []StoredIsCoreRequest
  <1>1. IInv => StoredIsCoreRequest
    BY DEF IInv
  <1> QED
    BY InitIInv, NextIInv, <1>1, PTL DEF Spec

\* DefaultAuthorizeRequestValidator and AuthorizeResult: whatever is stored can
\* be rendered, and in the query only if it is a code.
THEOREM AcceptedCanBeRendered == Spec => []StoredCanBeAnswered
  <1>1. IInv => StoredCanBeAnswered
    BY DEF IInv
  <1> QED
    BY InitIInv, NextIInv, <1>1, PTL DEF Spec

=============================================================================
