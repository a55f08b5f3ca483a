---------------------------- MODULE OIDCPipeline ----------------------------
(***************************************************************************)
(* One orchestrated login, from the client's authorize request to the      *)
(* redemption of the code: AuthorizeEndpoint, the OpenIdConnect events of  *)
(* the host application, the final page, OIDCResponseGenerator and         *)
(* TokenEndpoint, all working on the one DistributedCacheOIDCPipelineStore.*)
(*                                                                         *)
(* Every HTTP request is a handler of its own.  A handler gives up control *)
(* at each await of a store operation, so each store operation is a step,  *)
(* and what a handler read before an await it still holds after it.        *)
(* A browser sends its cookies when a request begins and takes the new     *)
(* ones when the response arrives.                                         *)
(***************************************************************************)
EXTENDS Naturals, FiniteSets

CONSTANTS
  Browsers,       \* user agents; each has one cookie jar
  Keys,           \* the Guids that can be minted (bounds the logins)
  Handlers,       \* HTTP requests in flight (bounds the concurrency)
  Clients,        \* client_id values
  RedirectUris,   \* redirect_uri values
  Verifiers,      \* PKCE verifiers; a challenge is named by its verifier
  Nonces,         \* nonces the clients choose
  Requests,       \* the authorize requests that pass validation
  TokenRequests,  \* the parameters clients send to the token endpoint
  None            \* an absent value

AuthorizeRequest(nonces) ==
  [ client_id      : Clients,
    redirect_uri   : RedirectUris,
    response_type  : {"code", "id_token"},
    code_challenge : Verifiers \cup {None},
    nonce          : nonces ]

\* The endpoint replaces a blank nonce by a generated one, here the key,
\* which is as fresh: a stored request always has a nonce.
StoredRequests == AuthorizeRequest(Nonces \cup Keys)

TokenRequest ==
  [ client_id     : Clients,
    redirect_uri  : RedirectUris \cup {None},
    code_verifier : Verifiers \cup {None} ]

\* What the identity provider answers: the login it belongs to, the client it
\* was asked for and the nonce inside the id_token.
IdpTokens == [ key : Keys, client_id : Clients, nonce : Nonces \cup Keys ]

\* The Custom dictionary: did the final page put its entries, and the nonce.
Customs == [ page : BOOLEAN, nonce : Nonces \cup Keys \cup {None} ]
NoCustom == [ page |-> FALSE, nonce |-> None ]

DownstreamResponses ==
  [ request : StoredRequests, token : IdpTokens, custom : Customs ]

ASSUME ConstantsAssumption ==
  /\ Requests \subseteq AuthorizeRequest(Nonces \cup {None})
  /\ \A r \in Requests : r.response_type = "id_token" => r.code_challenge = None
  /\ TokenRequests \subseteq TokenRequest

ASSUME NoneAssumption ==
  /\ None \notin Browsers \cup Keys \cup Verifiers \cup Nonces
  /\ None \notin StoredRequests \cup Requests
  /\ None \notin DownstreamResponses
  /\ None \notin TokenRequest
  /\ None \notin [ code : Keys, params : TokenRequests ]

VARIABLES
  original,    \* store: the authorize request kept under each key
  downstream,  \* store: the identity provider's answer kept under each key
  cookie,      \* browser: the key in the ".oidc.Nonce.Tracker" cookie
  session,     \* the browsers signed in to the application
  atIdp,       \* authorizations the identity provider has yet to answer
  proc,        \* the handlers
  (* history, read by no guard but the choice of a fresh key *)
  requested,   \* the request each key was minted for
  owner,       \* the browser each key was minted for
  redirects,   \* the authorize responses sent to clients
  granted,     \* the successful token responses
  presented,   \* codes whose redemption ran to its end, whatever the outcome
  raced,       \* codes presented while another handler held them
  logins,      \* answers of the identity provider stored per key, up to 2
  posts        \* final-page posts begun per key, up to 2

store   == << original, downstream >>
browser == << cookie, session >>
history == << requested, owner, redirects, granted, presented, raced,
              logins, posts >>
vars    == << store, browser, atIdp, proc, history >>

-----------------------------------------------------------------------------
(* Handlers *)

Idle == [ pc |-> "idle", browser |-> None, key |-> None, request |-> None,
          response |-> None, params |-> None ]

AuthorizePcs == { "authorize_delete_original", "authorize_delete_downstream",
                  "authorize_store", "authorize_reply" }
\* Handlers that can still write the downstream entry of their key.
WriterPcs    == { "validated_store", "custom_get", "custom_store",
                  "generate_get_original", "generate_get_downstream",
                  "generate_store" }
TokenPcs     == { "token_delete_original", "token_delete_downstream" }
Pcs          == { "idle", "generate_delete_original",
                  "generate_delete_downstream", "final_reply" }
                \cup AuthorizePcs \cup WriterPcs \cup TokenPcs
StoreCalls   == Pcs \ { "idle", "authorize_reply", "final_reply" }

Handler ==
  [ pc       : Pcs,
    browser  : Browsers \cup {None},
    key      : Keys \cup {None},
    request  : StoredRequests \cup Requests \cup {None},
    response : DownstreamResponses \cup {None},
    params   : TokenRequests \cup {None} ]

At(h, pc)     == proc[h].pc = pc
Start(h, p)   == At(h, "idle") /\ proc' = [proc EXCEPT ![h] = p]
GoTo(h, pc)   == proc' = [proc EXCEPT ![h].pc = pc]
Finish(h)     == proc' = [proc EXCEPT ![h] = Idle]
InFlight(pcs, k) == { h \in Handlers : proc[h].pc \in pcs /\ proc[h].key = k }

\* Deserialize throws on a missing entry, so a Get of one ends the handler.
GetOriginal(h, found) ==
  IF original[proc[h].key] = None THEN Finish(h) ELSE found
GetDownstream(h, found) ==
  IF downstream[proc[h].key] = None THEN Finish(h) ELSE found

\* DeleteStoredCacheAsync awaits two removals, the original request first.
RemoveOriginal(h, from, to) ==
  /\ At(h, from)
  /\ original' = [original EXCEPT ![proc[h].key] = None]
  /\ GoTo(h, to)
  /\ UNCHANGED << downstream, browser, atIdp, history >>

RemoveDownstream(h) ==
  downstream' = [downstream EXCEPT ![proc[h].key] = None]

StoreDownstream(h) ==
  downstream' = [downstream EXCEPT ![proc[h].key] = proc[h].response]

SignOut(b) == session' = session \ {b}

Count(f, k) == [f EXCEPT ![k] = IF @ < 2 THEN @ + 1 ELSE 2]

Init ==
  /\ original   = [k \in Keys |-> None]
  /\ downstream = [k \in Keys |-> None]
  /\ cookie     = [b \in Browsers |-> None]
  /\ session    = {}
  /\ atIdp      = {}
  /\ proc       = [h \in Handlers |-> Idle]
  /\ requested  = [k \in Keys |-> None]
  /\ owner      = [k \in Keys |-> None]
  /\ redirects  = {}
  /\ granted    = {}
  /\ presented  = {}
  /\ raced      = {}
  /\ logins     = [k \in Keys |-> 0]
  /\ posts      = [k \in Keys |-> 0]

-----------------------------------------------------------------------------
(* AuthorizeEndpoint.ProcessAsync *)

\* The request is valid.  The browser's previous key, if it sent one, is
\* deleted before a new key is minted.
AuthorizeBegin(h, b, r) ==
  /\ Start(h, [ Idle EXCEPT !.browser = b, !.request = r, !.key = cookie[b],
                  !.pc = IF cookie[b] = None THEN "authorize_store"
                         ELSE "authorize_delete_original" ])
  /\ UNCHANGED << store, browser, atIdp, history >>

AuthorizeDeleteOriginal(h) ==
  RemoveOriginal(h, "authorize_delete_original", "authorize_delete_downstream")

AuthorizeDeleteDownstream(h) ==
  /\ At(h, "authorize_delete_downstream")
  /\ RemoveDownstream(h)
  /\ GoTo(h, "authorize_store")
  /\ UNCHANGED << original, browser, atIdp, history >>

\* Mutant: the new key is not fresh.
AuthorizeStoreUnderAnyKey(h, k) ==
  LET r == proc[h].request
      stored == [r EXCEPT !.nonce = IF @ = None THEN k ELSE @]
  IN /\ At(h, "authorize_store")
     /\ original'  = [original EXCEPT ![k] = stored]
     /\ requested' = [requested EXCEPT ![k] = stored]
     /\ owner'     = [owner EXCEPT ![k] = proc[h].browser]
     /\ proc' = [proc EXCEPT ![h].pc = "authorize_reply", ![h].key = k,
                             ![h].request = stored]
     /\ UNCHANGED << downstream, browser, atIdp, redirects, granted,
                     presented, raced, logins, posts >>

AuthorizeStore(h, k) ==
  LET r == proc[h].request
      stored == [r EXCEPT !.nonce = IF @ = None THEN k ELSE @]
  IN /\ At(h, "authorize_store")
     /\ requested[k] = None
     /\ original'  = [original EXCEPT ![k] = stored]
     /\ requested' = [requested EXCEPT ![k] = stored]
     /\ owner'     = [owner EXCEPT ![k] = proc[h].browser]
     /\ proc' = [proc EXCEPT ![h].pc = "authorize_reply", ![h].key = k,
                             ![h].request = stored]
     /\ UNCHANGED << downstream, browser, atIdp, redirects, granted,
                     presented, raced, logins, posts >>

\* OriginalAuthorizeResult: the response carries the new key and the sign-out.
AuthorizeReply(h) ==
  /\ At(h, "authorize_reply")
  /\ cookie' = [cookie EXCEPT ![proc[h].browser] = proc[h].key]
  /\ SignOut(proc[h].browser)
  /\ Finish(h)
  /\ UNCHANGED << store, atIdp, history >>

\* Any other request signs the browser out and leaves its key alone.
AuthorizeRejected(b) ==
  /\ SignOut(b)
  /\ UNCHANGED << store, cookie, atIdp, proc, history >>

-----------------------------------------------------------------------------
(* The host application's OpenIdConnect events and its sign-in *)

\* GenerateNonce and OnRedirectToIdentityProvider take the nonce and the
\* client from the request under the cookie's key, and pass the key as state.
Challenge(b) ==
  /\ cookie[b] # None
  /\ original[cookie[b]] # None
  /\ atIdp' = atIdp \cup
       { [ browser   |-> b,
           key       |-> cookie[b],
           client_id |-> original[cookie[b]].client_id,
           nonce     |-> original[cookie[b]].nonce ] }
  /\ UNCHANGED << store, browser, proc, history >>

\* The user refuses, or the provider fails: OnRemoteFailure redirects to "/".
IdpFailure(a) ==
  /\ atIdp' = atIdp \ {a}
  /\ UNCHANGED << store, browser, proc, history >>

\* What OnTokenValidated builds for key k from the provider's answer a.
Validated(a, k) ==
  [ Idle EXCEPT !.pc = "validated_store", !.browser = a.browser, !.key = k,
      !.response = [ request |-> original[k],
                     token   |-> [ key       |-> a.key,
                                   client_id |-> a.client_id,
                                   nonce     |-> a.nonce ],
                     custom  |-> NoCustom ] ]

\* Mutant: a missing request is not noticed.
TokenValidatedGetUnchecked(h, a) ==
  /\ atIdp' = atIdp \ {a}
  /\ Start(h, Validated(a, a.key))
  /\ UNCHANGED << store, browser, history >>

\* Mutant: the key is taken from the cookie instead of the state.
TokenValidatedGetByCookie(h, a) ==
  /\ atIdp' = atIdp \ {a}
  /\ IF cookie[a.browser] = None THEN At(h, "idle") /\ UNCHANGED proc
     ELSE IF original[cookie[a.browser]] = None
     THEN At(h, "idle") /\ UNCHANGED proc
     ELSE Start(h, Validated(a, cookie[a.browser]))
  /\ UNCHANGED << store, browser, history >>

\* OnTokenValidated reads the request under the key found in the state ...
TokenValidatedGet(h, a) ==
  /\ atIdp' = atIdp \ {a}
  /\ IF original[a.key] = None
     THEN At(h, "idle") /\ UNCHANGED proc
     ELSE Start(h, Validated(a, a.key))
  /\ UNCHANGED << store, browser, history >>

\* ... and stores the answer there.  The response signs the browser in to the
\* external scheme, which no step of this module asks for.
TokenValidatedStore(h) ==
  /\ At(h, "validated_store")
  /\ StoreDownstream(h)
  /\ logins' = Count(logins, proc[h].key)
  /\ Finish(h)
  /\ UNCHANGED << original, browser, atIdp, requested, owner, redirects,
                  granted, presented, raced, posts >>

\* The host signs the browser in to the application: the external login page
\* does when the provider's answer came, and the login page does for an account
\* of the host's own, at any time.  Their steps are those of ExternalLogin.
SignIn(b) ==
  /\ session' = session \cup {b}
  /\ UNCHANGED << store, cookie, atIdp, proc, history >>

-----------------------------------------------------------------------------
(* FinalPage.OnPostWay2 *)

\* Mutant: the original request is not looked up.
FinalPagePostUnchecked(h, b) ==
  /\ b \in session
  /\ cookie[b] # None
  /\ Start(h, [ Idle EXCEPT !.pc = "custom_get", !.browser = b,
                            !.key = cookie[b] ])
  /\ posts' = Count(posts, cookie[b])
  /\ UNCHANGED << store, browser, atIdp, requested, owner, redirects,
                  granted, presented, raced, logins >>

\* The page asks for a signed-in browser, whoever it is signed in as and since
\* whichever login; the key is the cookie's.
FinalPagePost(h, b) ==
  /\ b \in session
  /\ cookie[b] # None
  /\ original[cookie[b]] # None
  /\ Start(h, [ Idle EXCEPT !.pc = "custom_get", !.browser = b,
                            !.key = cookie[b] ])
  /\ posts' = Count(posts, cookie[b])
  /\ UNCHANGED << store, browser, atIdp, requested, owner, redirects,
                  granted, presented, raced, logins >>

\* Mutant: a missing entry is made anew.
CustomGetOrNew(h) ==
  LET p == proc[h]
      found == IF downstream[p.key] # None THEN downstream[p.key]
               ELSE [ request |-> original[p.key], token |-> None,
                      custom |-> NoCustom ]
  IN /\ At(h, "custom_get")
     /\ proc' = [proc EXCEPT ![h].pc = "custom_store",
                   ![h].response = [ found EXCEPT
                                       !.custom = [NoCustom EXCEPT !.page = TRUE] ]]
     /\ UNCHANGED << store, browser, atIdp, history >>

\* StoreDownstreamCustomDataAsync: read the entry, replace its Custom ...
CustomGet(h) ==
  /\ At(h, "custom_get")
  /\ GetDownstream(h,
       proc' = [proc EXCEPT ![h].pc = "custom_store",
                  ![h].response = [ downstream[proc[h].key] EXCEPT
                                      !.custom = [NoCustom EXCEPT !.page = TRUE] ]])
  /\ UNCHANGED << store, browser, atIdp, history >>

\* ... and write it back, whatever has become of it since.
CustomStore(h) ==
  /\ At(h, "custom_store")
  /\ StoreDownstream(h)
  /\ proc' = [proc EXCEPT ![h].pc = "generate_get_original",
                          ![h].response = None]
  /\ UNCHANGED << original, browser, atIdp, history >>

(* OIDCResponseGenerator.CreateAuthorizeResponseActionResultAsync *)

GenerateGetOriginal(h) ==
  /\ At(h, "generate_get_original")
  /\ GetOriginal(h,
       proc' = [proc EXCEPT ![h].pc = "generate_get_downstream",
                            ![h].request = original[proc[h].key]])
  /\ UNCHANGED << store, browser, atIdp, history >>

\* A request with a code challenge gets a code, any other its tokens.
GetsCode(r) == r.code_challenge # None

\* Mutant: the generator replaces the custom data where it should add to them.
GenerateGetDownstreamAnew(h) ==
  /\ At(h, "generate_get_downstream")
  /\ GetDownstream(h,
       proc' = [proc EXCEPT
         ![h].pc = IF GetsCode(proc[h].request) THEN "generate_store"
                   ELSE "generate_delete_original",
         ![h].response = [ downstream[proc[h].key] EXCEPT
                             !.custom = [ page |-> FALSE, nonce |-> proc[h].request.nonce ]]])
  /\ UNCHANGED << store, browser, atIdp, history >>

GenerateGetDownstream(h) ==
  /\ At(h, "generate_get_downstream")
  /\ GetDownstream(h,
       proc' = [proc EXCEPT
         ![h].pc = IF GetsCode(proc[h].request) THEN "generate_store"
                   ELSE "generate_delete_original",
         ![h].response = [ downstream[proc[h].key] EXCEPT
                             !.custom.nonce = proc[h].request.nonce ]])
  /\ UNCHANGED << store, browser, atIdp, history >>

\* Mutant: the code is sent without storing the response again.
GenerateStoreSkipped(h) ==
  /\ At(h, "generate_store")
  /\ GoTo(h, "final_reply")
  /\ UNCHANGED << store, browser, atIdp, history >>

\* Mutant: the original request is stored again as well.
GenerateStoreBoth(h) ==
  /\ At(h, "generate_store")
  /\ StoreDownstream(h)
  /\ original' = [original EXCEPT ![proc[h].key] = proc[h].request]
  /\ GoTo(h, "final_reply")
  /\ UNCHANGED << browser, atIdp, history >>

GenerateStore(h) ==
  /\ At(h, "generate_store")
  /\ StoreDownstream(h)
  /\ GoTo(h, "final_reply")
  /\ UNCHANGED << original, browser, atIdp, history >>

GenerateDeleteOriginal(h) ==
  RemoveOriginal(h, "generate_delete_original", "generate_delete_downstream")

\* Mutant: only the original request is deleted.
GenerateDeleteDownstreamSkipped(h) ==
  /\ At(h, "generate_delete_downstream")
  /\ GoTo(h, "final_reply")
  /\ UNCHANGED << store, browser, atIdp, history >>

GenerateDeleteDownstream(h) ==
  /\ At(h, "generate_delete_downstream")
  /\ RemoveDownstream(h)
  /\ GoTo(h, "final_reply")
  /\ UNCHANGED << original, browser, atIdp, history >>

\* The redirect to the client's redirect_uri, and the sign-out.
FinalPageReply(h) ==
  LET p == proc[h] IN
  /\ At(h, "final_reply")
  /\ redirects' = redirects \cup
       { [ browser |-> p.browser, key |-> p.key, request |-> p.request,
           code    |-> IF GetsCode(p.request) THEN p.key ELSE None,
           token   |-> IF GetsCode(p.request) THEN None ELSE p.response.token ] }
  /\ SignOut(p.browser)
  /\ Finish(h)
  /\ UNCHANGED << store, cookie, atIdp, requested, owner, granted, presented,
                  raced, logins, posts >>

-----------------------------------------------------------------------------
(* TokenEndpoint.ProcessAsync and DefaultTokenRequestValidator *)

\* Mutant: redirect_uri is not compared.
ValidTokenRequestAnyUri(t, r) ==
  /\ t.client_id = r.client_id
  /\ t.code_verifier = r.code_challenge

\* The checks made once the code is gone: client, redirect_uri, PKCE.
ValidTokenRequest(t, r) ==
  /\ t.client_id = r.client_id
  /\ t.redirect_uri = r.redirect_uri
  /\ t.code_verifier = r.code_challenge

\* The codes clients have been sent.
Issued == { r.code : r \in redirects } \ {None}

\* A code without an entry is answered 404.
TokenBegin(h, k, t) ==
  /\ k \in Issued
  /\ downstream[k] # None
  /\ Start(h, [ Idle EXCEPT !.pc = "token_delete_original", !.key = k,
                            !.response = downstream[k], !.params = t ])
  /\ raced' = IF InFlight(TokenPcs, k) # {} THEN raced \cup {k} ELSE raced
  /\ UNCHANGED << store, browser, atIdp, requested, owner, redirects, granted,
                  presented, logins, posts >>

\* Mutant: only the identity provider's answer is deleted.
TokenDeleteOriginalSkipped(h) ==
  /\ At(h, "token_delete_original")
  /\ GoTo(h, "token_delete_downstream")
  /\ UNCHANGED << store, browser, atIdp, history >>

TokenDeleteOriginal(h) ==
  RemoveOriginal(h, "token_delete_original", "token_delete_downstream")

\* What a redemption leaves behind, its deletions done.
TokenReply(h) ==
  LET p == proc[h] IN
  /\ granted' = IF ValidTokenRequest(p.params, p.response.request)
                THEN granted \cup
                       { [ code   |-> p.key, params |-> p.params,
                           token  |-> p.response.token,
                           custom |-> p.response.custom,
                           again  |-> \E g \in granted : g.code = p.key ] }
                ELSE granted
  /\ presented' = presented \cup {p.key}
  /\ raced' = IF InFlight(WriterPcs, p.key) # {} THEN raced \cup {p.key}
              ELSE raced
  /\ Finish(h)
  /\ UNCHANGED << original, browser, atIdp, requested, owner, redirects,
                  logins, posts >>

\* Mutant: the entry outlives a redemption that fails.
TokenDeleteDownstreamIfValid(h) ==
  /\ At(h, "token_delete_downstream")
  /\ IF ValidTokenRequest(proc[h].params, proc[h].response.request)
     THEN RemoveDownstream(h) ELSE UNCHANGED downstream
  /\ TokenReply(h)

\* Mutant: the entry outlives every redemption.
TokenDeleteDownstreamSkipped(h) ==
  /\ At(h, "token_delete_downstream")
  /\ TokenReply(h)
  /\ UNCHANGED downstream

\* The entry is removed before the request is judged.
TokenDeleteDownstream(h) ==
  /\ At(h, "token_delete_downstream")
  /\ RemoveDownstream(h)
  /\ TokenReply(h)

-----------------------------------------------------------------------------
(* The environment: expiry, eviction and the process's own restart *)

ExpireOriginal(k) ==
  /\ original[k] # None
  /\ original' = [original EXCEPT ![k] = None]
  /\ UNCHANGED << downstream, browser, atIdp, proc, history >>

ExpireDownstream(k) ==
  /\ downstream[k] # None
  /\ downstream' = [downstream EXCEPT ![k] = None]
  /\ UNCHANGED << original, browser, atIdp, proc, history >>

CookieExpires(b) ==
  /\ cookie' = [cookie EXCEPT ![b] = None]
  /\ UNCHANGED << store, session, atIdp, proc, history >>

SessionExpires(b) ==
  /\ session' = session \ {b}
  /\ UNCHANGED << store, cookie, atIdp, proc, history >>

\* A call of the cache throws.  The authorize endpoint catches it and answers
\* with its key so far: the old one while it deletes, later a new one that
\* nothing was stored under, which works like none.  Any other handler just ends.
StoreFails(h) ==
  LET p == proc[h] IN
  /\ p.pc \in StoreCalls
  /\ IF p.pc \in AuthorizePcs
     THEN /\ cookie' = [cookie EXCEPT ![p.browser] =
                          IF p.pc = "authorize_store" THEN None ELSE p.key]
          /\ SignOut(p.browser)
     ELSE UNCHANGED browser
  /\ Finish(h)
  /\ UNCHANGED << store, atIdp, history >>

\* AddDistributedMemoryCache keeps the store, and with it the server sessions,
\* inside the process.
Restart ==
  /\ original'   = [k \in Keys |-> None]
  /\ downstream' = [k \in Keys |-> None]
  /\ proc'       = [h \in Handlers |-> Idle]
  /\ session'    = {}
  /\ UNCHANGED << cookie, atIdp, history >>

-----------------------------------------------------------------------------

\* A handler that has begun runs on by itself.
Proceed(h) ==
  \/ AuthorizeDeleteOriginal(h)
  \/ AuthorizeDeleteDownstream(h)
  \/ \E k \in Keys : AuthorizeStore(h, k)
  \/ AuthorizeReply(h)
  \/ TokenValidatedStore(h)
  \/ CustomGet(h)
  \/ CustomStore(h)
  \/ GenerateGetOriginal(h)
  \/ GenerateGetDownstream(h)
  \/ GenerateStore(h)
  \/ GenerateDeleteOriginal(h)
  \/ GenerateDeleteDownstream(h)
  \/ FinalPageReply(h)
  \/ TokenDeleteOriginal(h)
  \/ TokenDeleteDownstream(h)

Begin(h) ==
  \/ \E b \in Browsers, r \in Requests : AuthorizeBegin(h, b, r)
  \/ \E a \in atIdp : TokenValidatedGet(h, a)
  \/ \E b \in Browsers : FinalPagePost(h, b)
  \/ \E k \in Keys, t \in TokenRequests : TokenBegin(h, k, t)

BrowserStep(b) ==
  \/ AuthorizeRejected(b)
  \/ Challenge(b)
  \/ SignIn(b)
  \/ CookieExpires(b)
  \/ SessionExpires(b)

Next ==
  \/ \E h \in Handlers : Begin(h) \/ Proceed(h) \/ StoreFails(h)
  \/ \E b \in Browsers : BrowserStep(b)
  \/ \E a \in atIdp : IdpFailure(a)
  \/ \E k \in Keys : ExpireOriginal(k) \/ ExpireDownstream(k)
  \/ Restart

Spec == Init /\ [][Next]_vars

\* Awaited store operations complete, and entries expire; nothing obliges a
\* user, a client or the identity provider to act.
Fairness ==
  /\ \A h \in Handlers : WF_vars(Proceed(h))
  /\ \A k \in Keys : WF_vars(ExpireOriginal(k)) /\ WF_vars(ExpireDownstream(k))

FairSpec == Spec /\ Fairness

-----------------------------------------------------------------------------
(* Properties *)

\* Every variable holds a value of its kind.
TypeOK ==
  /\ original   \in [Keys -> StoredRequests \cup {None}]
  /\ downstream \in [Keys -> DownstreamResponses \cup {None}]
  /\ cookie     \in [Browsers -> Keys \cup {None}]
  /\ session \subseteq Browsers
  /\ atIdp \subseteq [ browser : Browsers, key : Keys, client_id : Clients,
                       nonce : Nonces \cup Keys ]
  /\ proc       \in [Handlers -> Handler]
  /\ requested  \in [Keys -> StoredRequests \cup {None}]
  /\ owner      \in [Keys -> Browsers \cup {None}]
  /\ redirects \subseteq [ browser : Browsers, key : Keys,
                           request : StoredRequests, code : Keys \cup {None},
                           token : IdpTokens \cup {None} ]
  /\ granted \subseteq [ code : Keys, params : TokenRequests, token : IdpTokens,
                         custom : Customs, again : BOOLEAN ]
  /\ presented \subseteq Keys
  /\ raced \subseteq Keys
  /\ logins \in [Keys -> 0..2]
  /\ posts  \in [Keys -> 0..2]

\* The tokens that belong to the request minted under k.
OwnToken(k, token) ==
  /\ requested[k] # None
  /\ token = [ key |-> k, client_id |-> requested[k].client_id,
               nonce |-> requested[k].nonce ]

\* TokenEndpoint gives tokens only to the client, redirect_uri and verifier
\* the code's own authorize request named, and only those its login produced,
\* with the nonce that request asked for, however handlers of other keys,
\* expiries and restarts interleave.
GrantedToRequester ==
  \A g \in granted :
    /\ OwnToken(g.code, g.token)
    /\ g.params.client_id = requested[g.code].client_id
    /\ g.params.redirect_uri = requested[g.code].redirect_uri
    /\ g.params.code_verifier = requested[g.code].code_challenge

\* The authorize response a browser carries answers the request it made
\* itself, and holds that request's code or the tokens of its own login, not
\* those of a login another tab or another user began.
RedirectedToOwner ==
  \A r \in redirects :
    /\ r.request = requested[r.key]
    /\ r.browser = owner[r.key]
    /\ r.code # None => r.code = r.key /\ r.token = None
    /\ r.code = None => OwnToken(r.key, r.token)

\* A code that has been presented once, rightly or wrongly, is dead: nothing
\* is stored under it any more.  The exceptions are the two windows the code
\* leaves open: a second redemption that read the entry before the first
\* removed it, and a final-page post or login that writes back what it read.
PresentedCodeIsDead ==
  \A k \in presented \ raced : original[k] = None /\ downstream[k] = None

\* Tokens leave twice for one code only through those windows.
GrantedOnce ==
  \A g \in granted : g.again => g.code \in raced

\* The final page lets in whoever is signed in: to an account of the host's own,
\* or since an earlier login, with the cookie of one it has only just begun.  A
\* client is sent a code or tokens, and redeems a code, for no login the identity
\* provider has not answered, whatever is signed in, expires or fails meanwhile.
AnsweredLoginsOnly ==
  /\ \A r \in redirects : logins[r.key] # 0
  /\ \A g \in granted : logins[g.code] # 0

\* A code used in a login that nothing disturbed (one answer from the identity
\* provider, one post of the final page) yields the page's custom entries and
\* the nonce: no write of the flow is lost to another.
UndisturbedGrantIsComplete ==
  \A g \in granted :
    logins[g.code] = 1 /\ posts[g.code] = 1
      => g.custom = [ page |-> TRUE, nonce |-> requested[g.code].nonce ]

\* Once tokens have gone out on the redirect of an undisturbed login, nothing
\* of it stays in the store.
DirectResponseLeavesNothing ==
  \A r \in redirects :
    r.code = None /\ logins[r.key] = 1 /\ posts[r.key] = 1
      => original[r.key] = None /\ downstream[r.key] = None

\* A minted key with no entry and no handler about to write one.
Dead(k) ==
  /\ requested[k] # None
  /\ original[k] = None
  /\ downstream[k] = None
  /\ InFlight(WriterPcs, k) = {}

\* No late callback, post or redemption brings a dead key back.
DeadKeysStayDead == [][\A k \in Keys : Dead(k) => Dead(k)']_vars

\* How far a writer of a downstream entry is from its last write.
WritesLeft ==
  [ pc \in WriterPcs |->
      CASE pc = "custom_get"              -> 4
        [] pc = "custom_store"            -> 3
        [] pc = "generate_get_original"   -> 2
        [] pc = "generate_get_downstream" -> 1
        [] OTHER                          -> 0 ]

\* When the request of a minted key is gone, by deletion or expiry, it is gone for
\* good, no request becomes a writer of the key, and those that are move on to
\* their last write: what DeadKeysStayDead and EntriesVanish come down to.
RequestlessKeysRunDown ==
  [][ \A k \in Keys :
        requested[k] # None /\ original[k] = None =>
          /\ original'[k] = None
          /\ \A h \in InFlight(WriterPcs, k)' :
               \/ proc'[h] = proc[h]
               \/ /\ h \in InFlight(WriterPcs, k)
                  /\ WritesLeft[proc'[h].pc] < WritesLeft[proc[h].pc] ]_vars

\* Whatever is left behind by abandoned logins, lost cookies and writes that
\* raced a deletion goes away for good: no entry is kept alive for ever.
EntriesVanish ==
  \A k \in Keys : <>[](original[k] = None /\ downstream[k] = None)

\* "This stored key becomes the CODE we respond back to the client app."
CodeFlowGetsCode ==
  \A r \in redirects : r.request.response_type = "code" => r.code = r.key

-----------------------------------------------------------------------------
(* What the codes promise, as OneTimeCode states it: a key is a live code from *)
(* the moment it is minted until it is dead, and a redemption under way is a   *)
(* claim on it.                                                                *)

RedemptionOf(h) ==
  IF proc[h].pc \in TokenPcs
  THEN [ code |-> proc[h].key, params |-> proc[h].params ] ELSE None

LiveCodes == { k \in Keys : requested[k] # None /\ ~Dead(k) }
GrantsOf(k) == { g \in granted : g.code = k }
YieldsOf(k) == IF GrantsOf(k) = {} THEN 0
               ELSE IF \E g \in GrantsOf(k) : g.again THEN 2 ELSE 1

\* The pairs a client may be given tokens for.
FittingPairs ==
  { tr \in TokenRequests \X StoredRequests :
      /\ tr[1].client_id     = tr[2].client_id
      /\ tr[1].redirect_uri  = tr[2].redirect_uri
      /\ tr[1].code_verifier = tr[2].code_challenge }

Code == INSTANCE OneTimeCode WITH
  Codes     <- Keys,
  Holders   <- Handlers,
  Requests  <- StoredRequests,
  Params    <- TokenRequests,
  Matches   <- FittingPairs,
  opened    <- requested,
  live      <- LiveCodes,
  claim     <- [ h \in Handlers |-> RedemptionOf(h) ],
  settled   <- presented,
  yields    <- [ k \in Keys |-> YieldsOf(k) ],
  contended <- raced

\* Whatever the handlers of a login do to its two entries, step by step and in
\* any order, a client sees a code that is opened once, claimed while it is
\* live, settled for its own request's parameters and dead for good afterwards.
CodesAreOneTime == Code!Spec

-----------------------------------------------------------------------------
(* The inductive invariant behind GrantedToRequester and RedirectedToOwner:  *)
(* whatever is kept under a key, in the store, in a cookie, at the identity  *)
(* provider or in the hands of a handler, stems from the one request the key *)
(* was minted for.                                                           *)

Minted(k) == k \in Keys /\ requested[k] # None

\* d answers the request minted under k.
Bound(k, d) ==
  /\ Minted(k)
  /\ d \in DownstreamResponses
  /\ d.request = requested[k]
  /\ OwnToken(k, d.token)

StoreBound ==
  \A k \in Keys : /\ original[k] # None => original[k] = requested[k]
                  /\ downstream[k] # None => Bound(k, downstream[k])

BrowserBound ==
  /\ \A b \in Browsers :
       cookie[b] # None => Minted(cookie[b]) /\ owner[cookie[b]] = b
  /\ \A a \in atIdp :
       /\ OwnToken(a.key, [ key |-> a.key, client_id |-> a.client_id,
                            nonce |-> a.nonce ])
       /\ owner[a.key] = a.browser

\* The parts of the flow in which a handler holds a key of its own browser, a
\* response, and the stored request.
LoginPcs    == WriterPcs \cup
  { "authorize_delete_original", "authorize_delete_downstream", "authorize_reply",
    "generate_delete_original", "generate_delete_downstream", "final_reply" }
ResponsePcs == TokenPcs \cup
  { "validated_store", "custom_store", "generate_store",
    "generate_delete_original", "generate_delete_downstream", "final_reply" }
RequestPcs  ==
  { "generate_get_downstream", "generate_store", "generate_delete_original",
    "generate_delete_downstream", "final_reply" }

\* What a handler holds is what the flow promised it at that point.
HoldsItsOwn(p) ==
  /\ p.pc \in AuthorizePcs \ {"authorize_reply"} =>
       p.browser \in Browsers /\ p.request \in Requests
  /\ p.pc \in LoginPcs =>
       p.browser \in Browsers /\ Minted(p.key) /\ owner[p.key] = p.browser
  /\ p.pc \in ResponsePcs => Bound(p.key, p.response)
  /\ p.pc \in RequestPcs => p.request = requested[p.key]
  /\ p.pc \in TokenPcs => p.params \in TokenRequests

HandlerBound == \A h \in Handlers : HoldsItsOwn(proc[h])

IInv ==
  /\ TypeOK
  /\ StoreBound
  /\ BrowserBound
  /\ HandlerBound
  /\ GrantedToRequester
  /\ RedirectedToOwner

\* The inductive invariant behind PresentedCodeIsDead and GrantedOnce: between
\* them, two redemptions of one code always know of each other.
RedemptionInv ==
  /\ \A k \in presented \ raced : Dead(k)
  /\ \A h \in Handlers :
       At(h, "token_delete_downstream") => original[proc[h].key] = None
  /\ \A h \in Handlers :
       proc[h].pc \in TokenPcs /\ proc[h].key \in presented
         => proc[h].key \in raced
  /\ \A g \in Handlers : \A h \in Handlers \ {g} :
       {proc[g].pc, proc[h].pc} \subseteq TokenPcs /\ proc[g].key = proc[h].key
         => proc[g].key \in raced
  /\ \A g \in granted : g.code \in presented
  /\ GrantedOnce

-----------------------------------------------------------------------------
(* The inductive invariant behind UndisturbedGrantIsComplete and             *)
(* DirectResponseLeavesNothing: of a login that was stored and posted once,  *)
(* each write is in the entry or in the one handler that is to write it.     *)

PostPcs == { "custom_get", "custom_store", "generate_get_original",
             "generate_get_downstream", "generate_store",
             "generate_delete_original", "generate_delete_downstream",
             "final_reply" }

RedirectsOf(k) == { r \in redirects : r.key = k }

\* A key is posted by one handler at a time, and answered after that, unless it
\* is posted again.
PostsCounted(k) ==
  /\ posts[k] = 0 => InFlight(PostPcs, k) = {} /\ RedirectsOf(k) = {}
  /\ posts[k] # 2 =>
       /\ \A g, h \in InFlight(PostPcs, k) : g = h
       /\ RedirectsOf(k) # {} => InFlight(PostPcs, k) = {}

\* Before the provider's answer is stored there is nothing to post or redeem.
LoginsCounted(k) ==
  logins[k] = 0 =>
    /\ downstream[k] = None
    /\ InFlight((PostPcs \cup TokenPcs) \ {"custom_get"}, k) = {}
    /\ RedirectsOf(k) = {}

Undisturbed(k) == logins[k] # 2 /\ posts[k] # 2

Full(k) == [ page |-> TRUE, nonce |-> requested[k].nonce ]

\* What the store holds when the client is answered with a code, or tokens.
Answered(k, code) ==
  IF code THEN downstream[k] = None \/ downstream[k].custom = Full(k)
          ELSE downstream[k] = None /\ original[k] = None

\* What a handler has written or is about to write.
HoldsWrites(p) ==
  /\ p.pc = "custom_store" => p.response.custom.page = TRUE
  /\ p.pc \in { "generate_get_original", "generate_get_downstream" } =>
       downstream[p.key] = None \/ downstream[p.key].custom.page = TRUE
  /\ p.pc = "generate_store" => GetsCode(p.request) /\ p.response.custom = Full(p.key)
  /\ p.pc \in { "generate_delete_original", "generate_delete_downstream" } =>
       ~GetsCode(p.request)
  /\ p.pc = "generate_delete_downstream" => original[p.key] = None
  /\ p.pc = "final_reply" => Answered(p.key, GetsCode(p.request))
  /\ p.pc \in TokenPcs => p.response.custom = Full(p.key)

WritesKept(k) ==
  /\ \A h \in Handlers : proc[h].key = k => HoldsWrites(proc[h])
  /\ \A r \in RedirectsOf(k) : Answered(k, r.code # None)
  /\ \A g \in GrantsOf(k) : g.custom = Full(k)

FlowOf(k) ==
  /\ PostsCounted(k)
  /\ LoginsCounted(k)
  /\ Undisturbed(k) => WritesKept(k)

FlowInv == \A k \in Keys : FlowOf(k)

=============================================================================
