------------------------ MODULE OIDCPipeline_proofs ------------------------
(* Proofs about OIDCPipeline, for any number of browsers, keys, requests in  *)
(* flight and clients.                                                       *)
EXTENDS OIDCPipeline, TLAPS

-----------------------------------------------------------------------------
(* The initial state *)

LEMMA InitIInv == Init => IInv
  <1> SUFFICES ASSUME Init PROVE IInv
    OBVIOUS
  <1>1. TypeOK
    BY DEF Init, TypeOK, Handler, Pcs, Idle
  <1>2. StoreBound /\ BrowserBound
    BY DEF Init, StoreBound, BrowserBound
  <1>3. HandlerBound
    BY DEF Init, Idle, HandlerBound, HoldsItsOwn, AuthorizePcs, LoginPcs, WriterPcs,
           ResponsePcs, RequestPcs, TokenPcs
  <1>4. GrantedToRequester /\ RedirectedToOwner
    BY DEF Init, GrantedToRequester, RedirectedToOwner
  <1> QED
    BY <1>1, <1>2, <1>3, <1>4 DEF IInv

-----------------------------------------------------------------------------
(* Frames: what a step that mints no key leaves true *)

\* A handler's holdings depend on nothing but the handler and the minting.
LEMMA HandlerFrame ==
  ASSUME HandlerBound, UNCHANGED << requested, owner >>,
         NEW h \in Handlers, NEW p, HoldsItsOwn(p), proc \in [Handlers -> Handler],
         proc' = [proc EXCEPT ![h] = p]
  PROVE  HandlerBound'
  <1> SUFFICES ASSUME NEW g \in Handlers PROVE HoldsItsOwn(proc[g])'
    BY DEF HandlerBound
  <1>1. HoldsItsOwn(proc'[g])
    BY DEF HandlerBound
  <1> QED
    BY <1>1 DEF HoldsItsOwn, Minted, Bound, OwnToken

LEMMA IdleHolds == HoldsItsOwn(Idle)
  BY DEF Idle, HoldsItsOwn, AuthorizePcs, LoginPcs, WriterPcs, ResponsePcs,
         RequestPcs, TokenPcs

LEMMA IdleIsHandler == Idle \in Handler
  BY DEF Idle, Handler, Pcs
\* The minting untouched, a history that does not grow stays true.
LEMMA HistoryFrame ==
  ASSUME GrantedToRequester, RedirectedToOwner,
         UNCHANGED << requested, owner, granted, redirects >>
  PROVE  GrantedToRequester' /\ RedirectedToOwner'
  BY DEF GrantedToRequester, RedirectedToOwner, OwnToken

\* A store whose entries are kept or removed stays bound.
LEMMA RemovalFrame ==
  ASSUME StoreBound, UNCHANGED << requested, owner >>,
         \A k \in Keys : original'[k] \in {original[k], None},
         \A k \in Keys : downstream'[k] \in {downstream[k], None}
  PROVE  StoreBound'
  BY DEF StoreBound, Bound, OwnToken, Minted

\* So does a browser whose cookie is kept or lost, and the identity provider
\* whose authorizations end.
LEMMA BrowserFrame ==
  ASSUME BrowserBound, UNCHANGED << requested, owner >>,
         \A b \in Browsers : cookie'[b] \in {cookie[b], None},
         atIdp' \subseteq atIdp
  PROVE  BrowserBound'
  BY DEF BrowserBound, OwnToken, Minted

-----------------------------------------------------------------------------
(* AuthorizeEndpoint *)

LEMMA AuthorizeBeginStep ==
  ASSUME IInv, NEW h \in Handlers, NEW b \in Browsers, NEW r \in Requests,
         AuthorizeBegin(h, b, r)
  PROVE  IInv'
  <1> DEFINE p == [ Idle EXCEPT !.browser = b, !.request = r, !.key = cookie[b],
                      !.pc = IF cookie[b] = None THEN "authorize_store"
                             ELSE "authorize_delete_original" ]
  <1>1. p \in Handler
    BY DEF IInv, TypeOK, Idle, Handler, Pcs, AuthorizePcs
  <1>2. /\ p.pc = IF cookie[b] = None THEN "authorize_store"
                 ELSE "authorize_delete_original"
        /\ p.browser = b /\ p.request = r /\ p.key = cookie[b]
    BY DEF Idle
  <1> HIDE DEF p
  <1>2a. HoldsItsOwn(p)
    BY <1>2 DEF IInv, BrowserBound, HoldsItsOwn, AuthorizePcs, LoginPcs,
                WriterPcs, ResponsePcs, RequestPcs, TokenPcs
  <1>3. proc' = [proc EXCEPT ![h] = p] /\ UNCHANGED << store, browser, atIdp, history >>
    BY DEF AuthorizeBegin, Start, p
  <1>4. TypeOK'
    BY <1>1, <1>3 DEF IInv, TypeOK, store, browser, history
  <1>5. HandlerBound'
    BY <1>2a, <1>3, HandlerFrame DEF IInv, TypeOK, history
  <1>6. StoreBound' /\ BrowserBound'
    BY <1>3, RemovalFrame, BrowserFrame DEF IInv, store, browser, history
  <1> QED
    BY <1>3, <1>4, <1>5, <1>6, HistoryFrame DEF IInv, history

LEMMA RemoveOriginalStep ==
  ASSUME IInv, NEW h \in Handlers, NEW from, NEW to,
         RemoveOriginal(h, from, to),
         << from, to >> \in
           { << "authorize_delete_original", "authorize_delete_downstream" >>,
             << "generate_delete_original", "generate_delete_downstream" >>,
             << "token_delete_original", "token_delete_downstream" >> }
  PROVE  IInv'
  <1> DEFINE p == [proc[h] EXCEPT !.pc = to]
  <1>1. p \in Handler /\ proc' = [proc EXCEPT ![h] = p]
    BY DEF IInv, TypeOK, RemoveOriginal, GoTo, Handler, Pcs, AuthorizePcs, TokenPcs
  <1>2. HoldsItsOwn(p)
    BY DEF IInv, HandlerBound, TypeOK, RemoveOriginal, At, Handler, HoldsItsOwn,
           AuthorizePcs, LoginPcs, WriterPcs, ResponsePcs, RequestPcs, TokenPcs
  <1> HIDE DEF p
  <1>3. /\ original' = [original EXCEPT ![proc[h].key] = None]
        /\ UNCHANGED << downstream, browser, atIdp, history >>
    BY DEF RemoveOriginal
  <1>4. TypeOK'
    BY <1>1, <1>3 DEF IInv, TypeOK, browser, history
  <1>5. HandlerBound'
    BY <1>1, <1>2, <1>3, HandlerFrame DEF IInv, TypeOK, history
  <1>6. StoreBound' /\ BrowserBound'
    BY <1>3, RemovalFrame, BrowserFrame DEF IInv, TypeOK, browser, history
  <1> QED
    BY <1>3, <1>4, <1>5, <1>6, HistoryFrame DEF IInv, history
LEMMA AuthorizeDeleteDownstreamStep ==
  ASSUME IInv, NEW h \in Handlers, AuthorizeDeleteDownstream(h)
  PROVE  IInv'
  <1> DEFINE p == [proc[h] EXCEPT !.pc = "authorize_store"]
  <1>1. p \in Handler /\ proc' = [proc EXCEPT ![h] = p]
    BY DEF IInv, TypeOK, AuthorizeDeleteDownstream, GoTo, Handler, Pcs, AuthorizePcs
  <1>2. HoldsItsOwn(p)
    BY DEF IInv, HandlerBound, TypeOK, AuthorizeDeleteDownstream, At, Handler,
           HoldsItsOwn, AuthorizePcs, LoginPcs, WriterPcs, ResponsePcs,
           RequestPcs, TokenPcs
  <1> HIDE DEF p
  <1>3. /\ downstream' = [downstream EXCEPT ![proc[h].key] = None]
        /\ UNCHANGED << original, browser, atIdp, history >>
    BY DEF AuthorizeDeleteDownstream, RemoveDownstream
  <1>4. TypeOK'
    BY <1>1, <1>3 DEF IInv, TypeOK, browser, history
  <1>5. HandlerBound'
    BY <1>1, <1>2, <1>3, HandlerFrame DEF IInv, TypeOK, history
  <1>6. StoreBound' /\ BrowserBound'
    BY <1>3, RemovalFrame, BrowserFrame DEF IInv, TypeOK, browser, history
  <1> QED
    BY <1>3, <1>4, <1>5, <1>6, HistoryFrame DEF IInv, history

\* A fresh key is named by nothing yet, so giving it a request and an owner
\* disturbs nothing that was bound before.
LEMMA AuthorizeStoreStep ==
  ASSUME IInv, NEW h \in Handlers, NEW k \in Keys, AuthorizeStore(h, k)
  PROVE  IInv'
  <1> DEFINE r == proc[h].request
             s == [r EXCEPT !.nonce = IF @ = None THEN k ELSE @]
             p == [proc[h] EXCEPT !.pc = "authorize_reply", !.key = k, !.request = s]
  <1>1. r \in Requests /\ proc[h].browser \in Browsers
    BY DEF IInv, HandlerBound, HoldsItsOwn, AuthorizeStore, At, AuthorizePcs
  <1>2. r \in AuthorizeRequest(Nonces \cup {None})
    BY <1>1, ConstantsAssumption
  <1>3. s \in StoredRequests
    BY <1>2 DEF StoredRequests, AuthorizeRequest
  <1>4. s # None
    BY <1>3, NoneAssumption
  <1>5. /\ requested[k] = None
        /\ original'  = [original EXCEPT ![k] = s]
        /\ requested' = [requested EXCEPT ![k] = s]
        /\ owner'     = [owner EXCEPT ![k] = proc[h].browser]
        /\ proc'      = [proc EXCEPT ![h] = p]
        /\ UNCHANGED << downstream, browser, atIdp, redirects, granted,
                        presented, raced, logins, posts >>
    BY DEF AuthorizeStore, IInv, TypeOK, Handler
  <1>6. p \in Handler /\ p.pc = "authorize_reply" /\ p.key = k
        /\ p.browser = proc[h].browser
    BY <1>3 DEF IInv, TypeOK, Handler, Pcs, AuthorizePcs
  <1> HIDE DEF r, s, p
  <1>7. TypeOK'
    BY <1>1, <1>3, <1>5, <1>6 DEF IInv, TypeOK, browser
  <1>8. \A j \in Keys : requested[j] # None =>
          j # k /\ requested'[j] = requested[j] /\ owner'[j] = owner[j]
    BY <1>5 DEF IInv, TypeOK
  <1>9. /\ \A j : Minted(j) => Minted(j)' /\ owner'[j] = owner[j]
                                /\ requested'[j] = requested[j]
        /\ Minted(k)' /\ requested'[k] = s /\ owner'[k] = proc[h].browser
    BY <1>4, <1>5, <1>8 DEF Minted, IInv, TypeOK
  <1>10. \A j, d : Bound(j, d) => Bound(j, d)'
    BY <1>9 DEF Bound, OwnToken, Minted
  <1>11. StoreBound'
    <2> SUFFICES ASSUME NEW j \in Keys
                 PROVE  /\ original'[j] # None => original'[j] = requested'[j]
                        /\ downstream'[j] # None => Bound(j, downstream[j])'
      BY DEF StoreBound
    <2>1. original'[j] # None => original'[j] = requested'[j]
      <3>1. CASE j = k
        BY <3>1, <1>5, <1>9 DEF IInv, TypeOK
      <3>2. CASE j # k
        BY <3>2, <1>5, <1>8 DEF IInv, TypeOK, StoreBound
      <3> QED
        BY <3>1, <3>2
    <2>2. downstream'[j] # None => Bound(j, downstream[j])'
      BY <1>5, <1>10 DEF IInv, StoreBound
    <2> QED
      BY <2>1, <2>2
  <1>12. BrowserBound'
    <2>1. \A b \in Browsers :
            cookie'[b] # None => Minted(cookie[b])' /\ owner'[cookie'[b]] = b
      BY <1>5, <1>9 DEF IInv, BrowserBound, browser
    <2>2. \A a \in atIdp : a.key \in Keys
      BY DEF IInv, TypeOK
    <2> QED
      BY <2>1, <2>2, <1>5, <1>8 DEF IInv, BrowserBound, OwnToken
  <1>13. HandlerBound'
    <2> SUFFICES ASSUME NEW g \in Handlers PROVE HoldsItsOwn(proc[g])'
      BY DEF HandlerBound
    <2>1. CASE g = h
      <3>1. proc'[g] = p
        BY <2>1, <1>5 DEF IInv, TypeOK
      <3> QED
        BY <3>1, <1>1, <1>6, <1>9 DEF HoldsItsOwn, AuthorizePcs, LoginPcs,
           WriterPcs, ResponsePcs, RequestPcs, TokenPcs
    <2>2. CASE g # h
      <3>1. proc'[g] = proc[g] /\ HoldsItsOwn(proc[g])
        BY <2>2, <1>5 DEF IInv, TypeOK, HandlerBound
      <3>2. proc[g].pc \in RequestPcs => Minted(proc[g].key)
        BY <3>1 DEF HoldsItsOwn, RequestPcs, LoginPcs, WriterPcs
      <3> QED
        BY <3>1, <3>2, <1>9, <1>10 DEF HoldsItsOwn
    <2> QED
      BY <2>1, <2>2
  <1>14. GrantedToRequester'
    BY <1>5, <1>8 DEF IInv, TypeOK, GrantedToRequester, OwnToken
  <1>15. RedirectedToOwner'
    <2>1. \A q \in redirects : q.key \in Keys /\ requested[q.key] # None
      BY NoneAssumption DEF IInv, TypeOK, RedirectedToOwner
    <2> QED
      BY <2>1, <1>5, <1>8 DEF IInv, RedirectedToOwner, OwnToken
  <1> QED
    BY <1>7, <1>11, <1>12, <1>13, <1>14, <1>15 DEF IInv

LEMMA AuthorizeReplyStep ==
  ASSUME IInv, NEW h \in Handlers, AuthorizeReply(h)
  PROVE  IInv'
  <1>1. /\ proc[h].browser \in Browsers
        /\ Minted(proc[h].key)
        /\ owner[proc[h].key] = proc[h].browser
    BY DEF IInv, HandlerBound, HoldsItsOwn, AuthorizeReply, At, LoginPcs
  <1>2. /\ cookie' = [cookie EXCEPT ![proc[h].browser] = proc[h].key]
        /\ session' \subseteq session
        /\ proc' = [proc EXCEPT ![h] = Idle]
        /\ UNCHANGED << store, atIdp, history >>
    BY DEF AuthorizeReply, SignOut, Finish
  <1>3. TypeOK'
    BY <1>1, <1>2, IdleIsHandler DEF IInv, TypeOK, store, history, Minted
  <1>4. HandlerBound'
    BY <1>2, IdleHolds, HandlerFrame DEF IInv, TypeOK, history
  <1>5. BrowserBound'
    BY <1>1, <1>2 DEF IInv, TypeOK, BrowserBound, OwnToken, Minted, history
  <1>6. StoreBound'
    BY <1>2, RemovalFrame DEF IInv, store, history
  <1> QED
    BY <1>2, <1>3, <1>4, <1>5, <1>6, HistoryFrame DEF IInv, history

-----------------------------------------------------------------------------
(* The environment of the handlers: browsers, the identity provider, expiry  *)

LEMMA BrowserSteps ==
  ASSUME IInv, NEW b \in Browsers, BrowserStep(b)
  PROVE  IInv'
  <1>1. CASE Challenge(b)
    <2> DEFINE a == [ browser   |-> b,
                      key       |-> cookie[b],
                      client_id |-> original[cookie[b]].client_id,
                      nonce     |-> original[cookie[b]].nonce ]
    <2>1. /\ cookie[b] \in Keys
          /\ original[cookie[b]] \in StoredRequests
          /\ original[cookie[b]] = requested[cookie[b]]
          /\ requested[cookie[b]] # None
          /\ owner[cookie[b]] = b
      BY <1>1 DEF Challenge, IInv, TypeOK, StoreBound, BrowserBound, Minted
    <2>2. a \in [ browser : Browsers, key : Keys, client_id : Clients,
                  nonce : Nonces \cup Keys ]
      BY <2>1 DEF StoredRequests, AuthorizeRequest
    <2>3. OwnToken(a.key, [ key |-> a.key, client_id |-> a.client_id,
                            nonce |-> a.nonce ]) /\ owner[a.key] = a.browser
      BY <2>1 DEF OwnToken
    <2>4. atIdp' = atIdp \cup {a} /\ UNCHANGED << store, browser, proc, history >>
      BY <1>1 DEF Challenge
    <2> HIDE DEF a
    <2>5. TypeOK'
      BY <2>2, <2>4 DEF IInv, TypeOK, store, browser, history
    <2>6. BrowserBound'
      BY <2>3, <2>4 DEF IInv, BrowserBound, browser, history, OwnToken, Minted
    <2>7. StoreBound' /\ HandlerBound'
      BY <2>4, RemovalFrame DEF IInv, HandlerBound, HoldsItsOwn, Minted, Bound,
         OwnToken, store, history
    <2> QED
      BY <2>4, <2>5, <2>6, <2>7, HistoryFrame DEF IInv, history
  <1>2. CASE \/ AuthorizeRejected(b) \/ SignIn(b) \/ CookieExpires(b)
             \/ SessionExpires(b)
    <2>1. /\ session' \subseteq Browsers
          /\ cookie' \in [Browsers -> Keys \cup {None}]
          /\ \A c \in Browsers : cookie'[c] \in {cookie[c], None}
          /\ UNCHANGED << store, atIdp, proc, history >>
      BY <1>2 DEF AuthorizeRejected, SignIn, CookieExpires, SessionExpires,
         SignOut, IInv, TypeOK
    <2>2. TypeOK'
      BY <2>1 DEF IInv, TypeOK, store, history
    <2>3. StoreBound' /\ BrowserBound'
      BY <2>1, RemovalFrame, BrowserFrame DEF IInv, store, history
    <2>4. HandlerBound'
      BY <2>1 DEF IInv, HandlerBound, HoldsItsOwn, Minted, Bound, OwnToken, history
    <2> QED
      BY <2>1, <2>2, <2>3, <2>4, HistoryFrame DEF IInv, history
  <1> QED
    BY <1>1, <1>2 DEF BrowserStep

\* Losing entries, authorizations or handlers breaks nothing.
LEMMA LossSteps ==
  ASSUME IInv,
         \/ \E a \in atIdp : IdpFailure(a)
         \/ \E k \in Keys : ExpireOriginal(k) \/ ExpireDownstream(k)
         \/ Restart
  PROVE  IInv'
  <1>1. /\ original' \in [Keys -> StoredRequests \cup {None}]
        /\ downstream' \in [Keys -> DownstreamResponses \cup {None}]
        /\ \A k \in Keys : original'[k] \in {original[k], None}
        /\ \A k \in Keys : downstream'[k] \in {downstream[k], None}
        /\ atIdp' \subseteq atIdp /\ session' \subseteq session
        /\ UNCHANGED << cookie, history >>
    BY DEF browser, IdpFailure, ExpireOriginal, ExpireDownstream, Restart, IInv, TypeOK, store
  <1>2. proc' = proc \/ proc' = [h \in Handlers |-> Idle]
    BY DEF IdpFailure, ExpireOriginal, ExpireDownstream, Restart
  <1>3. TypeOK'
    BY <1>1, <1>2, IdleIsHandler DEF IInv, TypeOK, history
  <1>4. StoreBound' /\ BrowserBound'
    BY <1>1, RemovalFrame, BrowserFrame DEF IInv, history
  <1>5. HandlerBound'
    <2> SUFFICES ASSUME NEW h \in Handlers PROVE HoldsItsOwn(proc[h])'
      BY DEF HandlerBound
    <2>1. HoldsItsOwn(proc'[h])
      BY <1>2, IdleHolds DEF IInv, HandlerBound
    <2> QED
      BY <1>1, <2>1 DEF HoldsItsOwn, Minted, Bound, OwnToken, history
  <1> QED
    BY <1>1, <1>3, <1>4, <1>5, HistoryFrame DEF IInv, history

\* A handler that ends where it is takes nothing but its own knowledge along;
\* a cookie it sets is its own.
LEMMA StoreFailsStep ==
  ASSUME IInv, NEW h \in Handlers, StoreFails(h)
  PROVE  IInv'
  <1>1. /\ proc' = [proc EXCEPT ![h] = Idle]
        /\ UNCHANGED << store, atIdp, history >>
        /\ session' \subseteq session
    BY DEF StoreFails, Finish, SignOut, browser
  <1>2. \/ cookie' = cookie
        \/ \E b \in Browsers, k \in Keys \cup {None} :
             /\ cookie' = [cookie EXCEPT ![b] = k]
             /\ k # None => Minted(k) /\ owner[k] = b
    <2>1. CASE proc[h].pc \in AuthorizePcs
      <3>1. /\ proc[h].pc # "authorize_reply"
            /\ proc[h].browser \in Browsers
            /\ HoldsItsOwn(proc[h])
        BY <2>1 DEF StoreFails, StoreCalls, IInv, HandlerBound, HoldsItsOwn
      <3>2. proc[h].pc # "authorize_store" =>
              /\ proc[h].key \in Keys
              /\ Minted(proc[h].key) /\ owner[proc[h].key] = proc[h].browser
        BY <2>1, <3>1 DEF HoldsItsOwn, AuthorizePcs, LoginPcs, Minted
      <3> QED
        BY <2>1, <3>1, <3>2 DEF StoreFails
    <2>2. CASE proc[h].pc \notin AuthorizePcs
      BY <2>2 DEF StoreFails, browser
    <2> QED
      BY <2>1, <2>2
  <1>3. TypeOK'
    BY <1>1, <1>2, IdleIsHandler DEF IInv, TypeOK, store, history
  <1>4. HandlerBound'
    BY <1>1, IdleHolds, HandlerFrame DEF IInv, TypeOK, history
  <1>5. StoreBound'
    BY <1>1, RemovalFrame DEF IInv, store, history
  <1>6. BrowserBound'
    <2>1. UNCHANGED << requested, owner, atIdp >>
      BY <1>1 DEF history
    <2>2. \A b \in Browsers : cookie'[b] # None =>
            Minted(cookie'[b]) /\ owner[cookie'[b]] = b
      BY <1>2 DEF IInv, TypeOK, BrowserBound
    <2> QED
      BY <2>1, <2>2 DEF IInv, BrowserBound, Minted, OwnToken
  <1> QED
    BY <1>1, <1>3, <1>4, <1>5, <1>6, HistoryFrame DEF IInv, history

-----------------------------------------------------------------------------
(* OnTokenValidated *)

\* The answer is for the key in the state, whose request is still stored.
LEMMA TokenValidatedGetStep ==
  ASSUME IInv, NEW h \in Handlers, NEW a \in atIdp, TokenValidatedGet(h, a)
  PROVE  IInv'
  <1>1. atIdp' \subseteq atIdp /\ UNCHANGED << store, browser, history >>
    BY DEF TokenValidatedGet
  <1>2. PICK p : /\ p \in Handler /\ HoldsItsOwn(p)
                 /\ proc' = [proc EXCEPT ![h] = p] \/ proc' = proc
    <2>1. CASE original[a.key] = None
      BY <2>1, IdleHolds, IdleIsHandler DEF TokenValidatedGet
    <2>2. CASE original[a.key] # None
      <3> DEFINE t == [ key |-> a.key, client_id |-> a.client_id, nonce |-> a.nonce ]
                 d == [ request |-> original[a.key], token |-> t, custom |-> NoCustom ]
                 v == Validated(a, a.key)
      <3>1. /\ a.key \in Keys /\ a.browser \in Browsers
            /\ t \in IdpTokens
            /\ original[a.key] \in StoredRequests
        BY <2>2 DEF IInv, TypeOK, IdpTokens
      <3>2. d \in DownstreamResponses
        BY <3>1 DEF DownstreamResponses, Customs, NoCustom
      <3>3. Bound(a.key, d) /\ owner[a.key] = a.browser
        BY <2>2, <3>1, <3>2 DEF IInv, StoreBound, BrowserBound, Bound, OwnToken, Minted
      <3>4. /\ v.pc = "validated_store" /\ v.browser = a.browser
            /\ v.key = a.key /\ v.response = d
        BY DEF Validated, Idle
      <3>5. v \in Handler
        BY <3>1, <3>2 DEF Validated, Idle, Handler, Pcs, WriterPcs
      <3> HIDE DEF v, d
      <3>6. HoldsItsOwn(v)
        BY <3>1, <3>3, <3>4 DEF Bound, HoldsItsOwn, AuthorizePcs, LoginPcs,
           WriterPcs, ResponsePcs, RequestPcs, TokenPcs
      <3>7. proc' = [proc EXCEPT ![h] = v]
        BY <2>2 DEF TokenValidatedGet, Start, v
      <3> QED
        BY <3>5, <3>6, <3>7
    <2> QED
      BY <2>1, <2>2
  <1>3. TypeOK'
    BY <1>1, <1>2 DEF IInv, TypeOK, store, browser, history
  <1>4. StoreBound' /\ BrowserBound'
    BY <1>1, RemovalFrame, BrowserFrame DEF IInv, store, browser, history
  <1>5. HandlerBound'
    <2>1. CASE proc' = proc
      BY <1>1, <2>1 DEF IInv, HandlerBound, HoldsItsOwn, Minted, Bound, OwnToken,
         history
    <2>2. CASE proc' = [proc EXCEPT ![h] = p]
      BY <1>1, <1>2, <2>2, HandlerFrame DEF IInv, TypeOK, history
    <2> QED
      BY <1>2, <2>1, <2>2
  <1> QED
    BY <1>1, <1>3, <1>4, <1>5, HistoryFrame DEF IInv, history

\* Writing a response that is bound to its key keeps the store bound.
LEMMA StoreDownstreamBound ==
  ASSUME TypeOK, StoreBound, NEW h \in Handlers,
         Bound(proc[h].key, proc[h].response), StoreDownstream(h),
         UNCHANGED << original, requested, owner >>
  PROVE  /\ downstream' \in [Keys -> DownstreamResponses \cup {None}]
         /\ StoreBound'
  <1>1. proc[h].key \in Keys /\ proc[h].response \in DownstreamResponses
    BY DEF Bound, Minted
  <1>2. downstream' = [downstream EXCEPT ![proc[h].key] = proc[h].response]
    BY DEF StoreDownstream
  <1>3. downstream' \in [Keys -> DownstreamResponses \cup {None}]
    BY <1>1, <1>2 DEF TypeOK
  <1>4. \A k \in Keys : downstream'[k] # None => Bound(k, downstream'[k])
    BY <1>1, <1>2 DEF TypeOK, StoreBound
  <1> QED
    BY <1>3, <1>4 DEF StoreBound, Bound, OwnToken, Minted

LEMMA CountType ==
  ASSUME NEW f \in [Keys -> 0..2], NEW k
  PROVE  Count(f, k) \in [Keys -> 0..2]
  <1>1. \A n \in 0..2 : (IF n < 2 THEN n + 1 ELSE 2) \in 0..2
    OBVIOUS
  <1> QED
    BY <1>1 DEF Count

LEMMA TokenValidatedStoreStep ==
  ASSUME IInv, NEW h \in Handlers, TokenValidatedStore(h)
  PROVE  IInv'
  <1>1. /\ proc[h].browser \in Browsers /\ Bound(proc[h].key, proc[h].response)
    BY DEF IInv, HandlerBound, HoldsItsOwn, TokenValidatedStore, At, LoginPcs,
           WriterPcs, ResponsePcs
  <1>2. /\ StoreDownstream(h)
        /\ logins' = Count(logins, proc[h].key)
        /\ proc' = [proc EXCEPT ![h] = Idle]
        /\ UNCHANGED << original, browser, atIdp, requested,
                        owner, redirects, granted, presented, raced, posts >>
    BY DEF TokenValidatedStore, Finish
  <1>3. logins' \in [Keys -> 0..2]
    BY <1>2, CountType DEF IInv, TypeOK
  <1>4. TypeOK' /\ StoreBound'
    BY <1>1, <1>2, <1>3, StoreDownstreamBound, IdleIsHandler DEF IInv, TypeOK, browser
  <1>5. HandlerBound'
    BY <1>2, IdleHolds, HandlerFrame DEF IInv, TypeOK
  <1>6. BrowserBound'
    BY <1>2, BrowserFrame DEF IInv, browser
  <1> QED
    BY <1>2, <1>4, <1>5, <1>6, HistoryFrame DEF IInv

-----------------------------------------------------------------------------
(* The final page and the response generator *)

\* A step that moves one handler on and leaves the store and what was handed
\* out alone needs only that the handler holds its own afterwards.
LEMMA HandlerOnly ==
  ASSUME IInv, NEW h \in Handlers, NEW p \in Handler, HoldsItsOwn(p),
         proc' = [proc EXCEPT ![h] = p],
         posts' \in [Keys -> 0..2], raced' \subseteq Keys,
         UNCHANGED << store, browser, atIdp, requested, owner, redirects,
                      granted, presented, logins >>
  PROVE  IInv'
  <1>1. TypeOK'
    BY DEF IInv, TypeOK, store, browser
  <1>2. HandlerBound'
    BY HandlerFrame DEF IInv, TypeOK
  <1>3. StoreBound' /\ BrowserBound'
    BY RemovalFrame, BrowserFrame DEF IInv, store, browser
  <1> QED
    BY <1>1, <1>2, <1>3, HistoryFrame DEF IInv

LEMMA FinalPagePostStep ==
  ASSUME IInv, NEW h \in Handlers, NEW b \in Browsers, FinalPagePost(h, b)
  PROVE  IInv'
  <1> DEFINE p == [ Idle EXCEPT !.pc = "custom_get", !.browser = b, !.key = cookie[b] ]
  <1>1. Minted(cookie[b]) /\ owner[cookie[b]] = b
    BY DEF FinalPagePost, IInv, BrowserBound
  <1>2. p \in Handler
    BY <1>1 DEF Idle, Handler, Pcs, WriterPcs, Minted
  <1>3. HoldsItsOwn(p)
    BY <1>1 DEF Idle, HoldsItsOwn, AuthorizePcs, LoginPcs, WriterPcs,
       ResponsePcs, RequestPcs, TokenPcs
  <1>4. /\ proc' = [proc EXCEPT ![h] = p]
        /\ posts' = Count(posts, cookie[b])
        /\ UNCHANGED << store, browser, atIdp, requested, owner, redirects,
                        granted, presented, raced, logins >>
    BY DEF FinalPagePost, Start
  <1> HIDE DEF p
  <1>5. posts' \in [Keys -> 0..2] /\ raced' \subseteq Keys
    BY <1>4, CountType DEF IInv, TypeOK
  <1> QED
    BY <1>2, <1>3, <1>4, <1>5, HandlerOnly

\* A handler whose entry is gone ends; that is a step of its own.
LEMMA HandlerEnds ==
  ASSUME IInv, NEW h \in Handlers, Finish(h),
         UNCHANGED << store, browser, atIdp, history >>
  PROVE  IInv'
  BY HandlerOnly, IdleHolds, IdleIsHandler DEF Finish, IInv, TypeOK, history

LEMMA CustomGetStep ==
  ASSUME IInv, NEW h \in Handlers, CustomGet(h)
  PROVE  IInv'
  <1> DEFINE d == downstream[proc[h].key]
             e == [ d EXCEPT !.custom = [NoCustom EXCEPT !.page = TRUE] ]
             p == [proc[h] EXCEPT !.pc = "custom_store", !.response = e]
  <1>1. CASE d = None
    BY <1>1, HandlerEnds DEF CustomGet, GetDownstream
  <1>2. CASE d # None
    <2>1. /\ proc[h] \in Handler /\ proc[h].browser \in Browsers
          /\ Minted(proc[h].key) /\ owner[proc[h].key] = proc[h].browser
      BY DEF IInv, TypeOK, HandlerBound, HoldsItsOwn, CustomGet, At, LoginPcs, WriterPcs
    <2>2. Bound(proc[h].key, d)
      BY <1>2, <2>1 DEF IInv, StoreBound, Minted
    <2>3. e \in DownstreamResponses /\ e.request = d.request /\ e.token = d.token
      BY <2>2 DEF Bound, DownstreamResponses, Customs, NoCustom
    <2>4. Bound(proc[h].key, e)
      BY <2>2, <2>3 DEF Bound
    <2>5. proc' = [proc EXCEPT ![h] = p] /\ UNCHANGED << store, browser, atIdp, history >>
      BY <1>2 DEF CustomGet, GetDownstream, IInv, TypeOK
    <2> HIDE DEF e
    <2>6. p \in Handler
      BY <2>1, <2>3 DEF Handler, Pcs, WriterPcs
    <2>7. HoldsItsOwn(p)
      BY <2>1, <2>4 DEF Handler, HoldsItsOwn, AuthorizePcs, LoginPcs, WriterPcs,
         ResponsePcs, RequestPcs, TokenPcs
    <2> HIDE DEF p
    <2> QED
      BY <2>5, <2>6, <2>7, HandlerOnly DEF IInv, TypeOK, history
  <1> QED
    BY <1>1, <1>2

\* A step that writes the handler's response under its key.
LEMMA WriteBack ==
  ASSUME IInv, NEW h \in Handlers, NEW p \in Handler, HoldsItsOwn(p),
         proc' = [proc EXCEPT ![h] = p], Bound(proc[h].key, proc[h].response),
         StoreDownstream(h), UNCHANGED << original, browser, atIdp, history >>
  PROVE  IInv'
  <1>1. TypeOK' /\ StoreBound'
    BY StoreDownstreamBound DEF IInv, TypeOK, browser, history
  <1>2. HandlerBound' /\ BrowserBound'
    BY HandlerFrame, BrowserFrame DEF IInv, TypeOK, browser, history
  <1> QED
    BY <1>1, <1>2, HistoryFrame DEF IInv, history

LEMMA CustomStoreStep ==
  ASSUME IInv, NEW h \in Handlers, CustomStore(h)
  PROVE  IInv'
  <1> DEFINE p == [proc[h] EXCEPT !.pc = "generate_get_original", !.response = None]
  <1>1. /\ proc[h] \in Handler /\ proc[h].browser \in Browsers
        /\ Minted(proc[h].key) /\ owner[proc[h].key] = proc[h].browser
        /\ Bound(proc[h].key, proc[h].response)
    BY DEF IInv, TypeOK, HandlerBound, HoldsItsOwn, CustomStore, At, LoginPcs,
       WriterPcs, ResponsePcs
  <1>2. proc' = [proc EXCEPT ![h] = p] /\ StoreDownstream(h)
        /\ UNCHANGED << original, browser, atIdp, history >>
    BY DEF CustomStore, IInv, TypeOK
  <1>3. p \in Handler
    BY <1>1 DEF Handler, Pcs, WriterPcs
  <1>4. HoldsItsOwn(p)
    BY <1>1 DEF Handler, HoldsItsOwn, AuthorizePcs, LoginPcs, WriterPcs,
       ResponsePcs, RequestPcs, TokenPcs
  <1> HIDE DEF p
  <1> QED
    BY <1>1, <1>2, <1>3, <1>4, WriteBack

LEMMA GenerateStoreStep ==
  ASSUME IInv, NEW h \in Handlers, GenerateStore(h)
  PROVE  IInv'
  <1> DEFINE p == [proc[h] EXCEPT !.pc = "final_reply"]
  <1>1. /\ proc[h] \in Handler /\ proc[h].browser \in Browsers
        /\ Minted(proc[h].key) /\ owner[proc[h].key] = proc[h].browser
        /\ Bound(proc[h].key, proc[h].response)
        /\ proc[h].request = requested[proc[h].key]
    BY DEF IInv, TypeOK, HandlerBound, HoldsItsOwn, GenerateStore, At, LoginPcs,
       WriterPcs, ResponsePcs, RequestPcs
  <1>2. proc' = [proc EXCEPT ![h] = p] /\ StoreDownstream(h)
        /\ UNCHANGED << original, browser, atIdp, history >>
    BY DEF GenerateStore, GoTo, IInv, TypeOK
  <1>3. p \in Handler
    BY <1>1 DEF Handler, Pcs
  <1>4. HoldsItsOwn(p)
    BY <1>1 DEF Handler, HoldsItsOwn, AuthorizePcs, LoginPcs, WriterPcs,
       ResponsePcs, RequestPcs, TokenPcs
  <1> HIDE DEF p
  <1> QED
    BY <1>1, <1>2, <1>3, <1>4, WriteBack

LEMMA GenerateGetOriginalStep ==
  ASSUME IInv, NEW h \in Handlers, GenerateGetOriginal(h)
  PROVE  IInv'
  <1> DEFINE q == original[proc[h].key]
             p == [proc[h] EXCEPT !.pc = "generate_get_downstream", !.request = q]
  <1>1. CASE q = None
    BY <1>1, HandlerEnds DEF GenerateGetOriginal, GetOriginal
  <1>2. CASE q # None
    <2>1. /\ proc[h] \in Handler /\ proc[h].browser \in Browsers
          /\ Minted(proc[h].key) /\ owner[proc[h].key] = proc[h].browser
      BY DEF IInv, TypeOK, HandlerBound, HoldsItsOwn, GenerateGetOriginal, At,
         LoginPcs, WriterPcs
    <2>2. q \in StoredRequests /\ q = requested[proc[h].key]
      BY <1>2, <2>1 DEF IInv, TypeOK, StoreBound, Minted
    <2>3. proc' = [proc EXCEPT ![h] = p] /\ UNCHANGED << store, browser, atIdp, history >>
      BY <1>2 DEF GenerateGetOriginal, GetOriginal, IInv, TypeOK
    <2>4. p \in Handler
      BY <2>1, <2>2 DEF Handler, Pcs, WriterPcs
    <2>5. HoldsItsOwn(p)
      BY <2>1, <2>2 DEF Handler, HoldsItsOwn, AuthorizePcs, LoginPcs, WriterPcs,
         ResponsePcs, RequestPcs, TokenPcs
    <2> HIDE DEF p
    <2> QED
      BY <2>3, <2>4, <2>5, HandlerOnly DEF IInv, TypeOK, history
  <1> QED
    BY <1>1, <1>2

LEMMA GenerateGetDownstreamStep ==
  ASSUME IInv, NEW h \in Handlers, GenerateGetDownstream(h)
  PROVE  IInv'
  <1> DEFINE d == downstream[proc[h].key]
             e == [ d EXCEPT !.custom.nonce = proc[h].request.nonce ]
             pc == IF GetsCode(proc[h].request) THEN "generate_store"
                   ELSE "generate_delete_original"
             p == [proc[h] EXCEPT !.pc = pc, !.response = e]
  <1>1. CASE d = None
    BY <1>1, HandlerEnds DEF GenerateGetDownstream, GetDownstream
  <1>2. CASE d # None
    <2>1. /\ proc[h] \in Handler /\ proc[h].browser \in Browsers
          /\ Minted(proc[h].key) /\ owner[proc[h].key] = proc[h].browser
          /\ proc[h].request = requested[proc[h].key]
      BY DEF IInv, TypeOK, HandlerBound, HoldsItsOwn, GenerateGetDownstream, At,
         LoginPcs, WriterPcs, RequestPcs
    <2>2. Bound(proc[h].key, d)
      BY <1>2, <2>1 DEF IInv, StoreBound, Minted
    <2>3. proc[h].request.nonce \in Nonces \cup Keys
      BY <2>1, <2>2 DEF Bound, DownstreamResponses, StoredRequests, AuthorizeRequest
    <2>4. e \in DownstreamResponses /\ e.request = d.request /\ e.token = d.token
      BY <2>2, <2>3 DEF Bound, DownstreamResponses, Customs
    <2>5. Bound(proc[h].key, e)
      BY <2>2, <2>4 DEF Bound
    <2>6. proc' = [proc EXCEPT ![h] = p] /\ UNCHANGED << store, browser, atIdp, history >>
      BY <1>2 DEF GenerateGetDownstream, GetDownstream, IInv, TypeOK
    <2>7. pc \in {"generate_store", "generate_delete_original"}
      OBVIOUS
    <2> HIDE DEF e, pc
    <2>8. p \in Handler
      BY <2>1, <2>4, <2>7 DEF Handler, Pcs, WriterPcs
    <2>9. HoldsItsOwn(p)
      BY <2>1, <2>5, <2>7 DEF Handler, HoldsItsOwn, AuthorizePcs, LoginPcs,
         WriterPcs, ResponsePcs, RequestPcs, TokenPcs
    <2> HIDE DEF p
    <2> QED
      BY <2>6, <2>8, <2>9, HandlerOnly DEF IInv, TypeOK, history
  <1> QED
    BY <1>1, <1>2

LEMMA GenerateDeleteDownstreamStep ==
  ASSUME IInv, NEW h \in Handlers, GenerateDeleteDownstream(h)
  PROVE  IInv'
  <1> DEFINE p == [proc[h] EXCEPT !.pc = "final_reply"]
  <1>1. p \in Handler /\ proc' = [proc EXCEPT ![h] = p]
    BY DEF IInv, TypeOK, GenerateDeleteDownstream, GoTo, Handler, Pcs
  <1>2. HoldsItsOwn(p)
    BY DEF IInv, HandlerBound, TypeOK, GenerateDeleteDownstream, At, Handler,
           HoldsItsOwn, AuthorizePcs, LoginPcs, WriterPcs, ResponsePcs,
           RequestPcs, TokenPcs
  <1> HIDE DEF p
  <1>3. /\ downstream' = [downstream EXCEPT ![proc[h].key] = None]
        /\ UNCHANGED << original, browser, atIdp, history >>
    BY DEF GenerateDeleteDownstream, RemoveDownstream
  <1>4. TypeOK'
    BY <1>1, <1>3 DEF IInv, TypeOK, browser, history
  <1>5. HandlerBound'
    BY <1>1, <1>2, <1>3, HandlerFrame DEF IInv, TypeOK, history
  <1>6. StoreBound' /\ BrowserBound'
    BY <1>3, RemovalFrame, BrowserFrame DEF IInv, TypeOK, browser, history
  <1> QED
    BY <1>3, <1>4, <1>5, <1>6, HistoryFrame DEF IInv, history

\* The redirect carries what the handler holds, hence its own login's.
LEMMA FinalPageReplyStep ==
  ASSUME IInv, NEW h \in Handlers, FinalPageReply(h)
  PROVE  IInv'
  <1> DEFINE p == proc[h]
             r == [ browser |-> p.browser, key |-> p.key, request |-> p.request,
                    code    |-> IF GetsCode(p.request) THEN p.key ELSE None,
                    token   |-> IF GetsCode(p.request) THEN None
                                ELSE p.response.token ]
  <1>1. /\ p.browser \in Browsers /\ Minted(p.key) /\ owner[p.key] = p.browser
        /\ Bound(p.key, p.response) /\ p.request = requested[p.key]
    BY DEF IInv, HandlerBound, HoldsItsOwn, FinalPageReply, At, LoginPcs,
       ResponsePcs, RequestPcs
  <1>2. /\ redirects' = redirects \cup {r}
        /\ session' \subseteq session
        /\ proc' = [proc EXCEPT ![h] = Idle]
        /\ UNCHANGED << store, cookie, atIdp, requested, owner,
                        granted, presented, raced, logins, posts >>
    BY DEF FinalPageReply, SignOut, Finish
  <1>3. /\ p.request \in StoredRequests /\ p.key \in Keys
        /\ p.response.token \in IdpTokens
    BY <1>1 DEF Minted, Bound, DownstreamResponses, IInv, TypeOK
  <1>4. r \in [ browser : Browsers, key : Keys, request : StoredRequests,
                code : Keys \cup {None}, token : IdpTokens \cup {None} ]
    BY <1>1, <1>3
  <1>5. /\ r.request = requested[r.key] /\ r.browser = owner[r.key]
        /\ r.code # None => r.code = r.key /\ r.token = None
        /\ r.code = None => OwnToken(r.key, r.token)
    BY <1>1, <1>3, NoneAssumption DEF Bound
  <1> HIDE DEF r
  <1>6. TypeOK'
    BY <1>2, <1>4, IdleIsHandler DEF IInv, TypeOK, store
  <1>7. HandlerBound'
    BY <1>2, IdleHolds, HandlerFrame DEF IInv, TypeOK
  <1>8. StoreBound' /\ BrowserBound'
    BY <1>2, RemovalFrame, BrowserFrame DEF IInv, store
  <1>9. RedirectedToOwner'
    BY <1>2, <1>5 DEF IInv, RedirectedToOwner, OwnToken
  <1>10. GrantedToRequester'
    BY <1>2 DEF IInv, GrantedToRequester, OwnToken
  <1> QED
    BY <1>6, <1>7, <1>8, <1>9, <1>10 DEF IInv

-----------------------------------------------------------------------------
(* TokenEndpoint *)

LEMMA TokenBeginStep ==
  ASSUME IInv, NEW h \in Handlers, NEW k \in Keys, NEW t \in TokenRequests,
         TokenBegin(h, k, t)
  PROVE  IInv'
  <1> DEFINE p == [ Idle EXCEPT !.pc = "token_delete_original", !.key = k,
                      !.response = downstream[k], !.params = t ]
  <1>1. Bound(k, downstream[k])
    BY DEF TokenBegin, IInv, StoreBound
  <1>2. p \in Handler
    BY <1>1 DEF Bound, Idle, Handler, Pcs, TokenPcs
  <1>3. HoldsItsOwn(p)
    BY <1>1 DEF Idle, HoldsItsOwn, AuthorizePcs, LoginPcs, WriterPcs,
       ResponsePcs, RequestPcs, TokenPcs
  <1>4. /\ proc' = [proc EXCEPT ![h] = p]
        /\ raced' \subseteq Keys
        /\ UNCHANGED << store, browser, atIdp, requested, owner, redirects,
                        granted, presented, logins, posts >>
    BY DEF TokenBegin, Start, IInv, TypeOK
  <1> HIDE DEF p
  <1> QED
    BY <1>2, <1>3, <1>4, HandlerOnly DEF IInv, TypeOK

\* Tokens are granted from the entry the handler read, which is its code's own,
\* and only when the parameters match that entry's request.
LEMMA TokenDeleteDownstreamStep ==
  ASSUME IInv, NEW h \in Handlers, TokenDeleteDownstream(h)
  PROVE  IInv'
  <1> DEFINE p == proc[h]
             g == [ code   |-> p.key, params |-> p.params,
                    token  |-> p.response.token,
                    custom |-> p.response.custom,
                    again  |-> \E x \in granted : x.code = p.key ]
  <1>1. Bound(p.key, p.response) /\ p.params \in TokenRequests
    BY DEF IInv, HandlerBound, HoldsItsOwn, TokenDeleteDownstream, At,
       ResponsePcs, TokenPcs
  <1>2. /\ downstream' = [downstream EXCEPT ![p.key] = None]
        /\ granted' = IF ValidTokenRequest(p.params, p.response.request)
                      THEN granted \cup {g} ELSE granted
        /\ presented' = presented \cup {p.key}
        /\ raced' \subseteq raced \cup {p.key}
        /\ proc' = [proc EXCEPT ![h] = Idle]
        /\ UNCHANGED << original, browser, atIdp, requested, owner, redirects,
                        logins, posts >>
    BY DEF TokenDeleteDownstream, TokenReply, RemoveDownstream, Finish
  <1>3. /\ p.key \in Keys /\ p.response.token \in IdpTokens
        /\ p.response.custom \in Customs
    BY <1>1 DEF Bound, Minted, DownstreamResponses
  <1>4. g \in [ code : Keys, params : TokenRequests, token : IdpTokens,
                custom : Customs, again : BOOLEAN ]
    <2>1. (\E x \in granted : x.code = p.key) \in BOOLEAN
      OBVIOUS
    <2> HIDE DEF p
    <2> QED
      BY <1>1, <1>3, <2>1
  <1>5. /\ g.code = p.key /\ g.params = p.params /\ g.token = p.response.token
    OBVIOUS
  <1> HIDE DEF g
  <1>6. TypeOK'
    BY <1>2, <1>3, <1>4, IdleIsHandler DEF IInv, TypeOK, browser
  <1>7. HandlerBound'
    BY <1>2, IdleHolds, HandlerFrame DEF IInv, TypeOK
  <1>8. StoreBound' /\ BrowserBound'
    BY <1>2, RemovalFrame, BrowserFrame DEF IInv, TypeOK, browser
  <1>9. GrantedToRequester'
    <2> SUFFICES ASSUME NEW x \in granted'
                 PROVE  /\ OwnToken(x.code, x.token)'
                        /\ ValidTokenRequest(x.params, requested[x.code])'
      BY DEF GrantedToRequester, ValidTokenRequest
    <2>1. CASE x \in granted
      BY <2>1, <1>2 DEF IInv, GrantedToRequester, OwnToken, ValidTokenRequest
    <2>2. CASE x = g /\ ValidTokenRequest(p.params, p.response.request)
      BY <2>2, <1>1, <1>2, <1>5 DEF Bound, OwnToken, ValidTokenRequest
    <2> QED
      BY <2>1, <2>2, <1>2
  <1>10. RedirectedToOwner'
    BY <1>2 DEF IInv, RedirectedToOwner, OwnToken
  <1> QED
    BY <1>6, <1>7, <1>8, <1>9, <1>10 DEF IInv

-----------------------------------------------------------------------------
(* The invariant *)

LEMMA IInvIsInductive == IInv /\ [Next]_vars => IInv'
  <1> SUFFICES ASSUME IInv, [Next]_vars PROVE IInv'
    OBVIOUS
  <1>1. ASSUME NEW h \in Handlers, Begin(h) PROVE IInv'
    BY <1>1, AuthorizeBeginStep, TokenValidatedGetStep, FinalPagePostStep,
       TokenBeginStep DEF Begin
  <1>2. ASSUME NEW h \in Handlers, Proceed(h) PROVE IInv'
    <2>1. CASE \/ AuthorizeDeleteOriginal(h)
               \/ GenerateDeleteOriginal(h)
               \/ TokenDeleteOriginal(h)
      BY <2>1, RemoveOriginalStep DEF AuthorizeDeleteOriginal,
         GenerateDeleteOriginal, TokenDeleteOriginal
    <2>2. CASE \/ AuthorizeDeleteDownstream(h)
               \/ \E k \in Keys : AuthorizeStore(h, k)
               \/ AuthorizeReply(h)
      BY <2>2, AuthorizeDeleteDownstreamStep, AuthorizeStoreStep, AuthorizeReplyStep
    <2>3. CASE TokenValidatedStore(h) \/ CustomGet(h) \/ CustomStore(h)
      BY <2>3, TokenValidatedStoreStep, CustomGetStep, CustomStoreStep
    <2>4. CASE \/ GenerateGetOriginal(h) \/ GenerateGetDownstream(h)
               \/ GenerateStore(h) \/ GenerateDeleteDownstream(h)
               \/ FinalPageReply(h)
      BY <2>4, GenerateGetOriginalStep, GenerateGetDownstreamStep,
         GenerateStoreStep, GenerateDeleteDownstreamStep, FinalPageReplyStep
    <2>5. CASE TokenDeleteDownstream(h)
      BY <2>5, TokenDeleteDownstreamStep
    <2> QED
      BY <1>2, <2>1, <2>2, <2>3, <2>4, <2>5 DEF Proceed
  <1>3. CASE UNCHANGED vars
    <2>1. UNCHANGED << store, browser, atIdp, proc, history >>
      BY <1>3 DEF vars
    <2>2. TypeOK'
      BY <2>1 DEF IInv, TypeOK, store, browser, history
    <2>3. StoreBound' /\ BrowserBound'
      BY <2>1, RemovalFrame, BrowserFrame DEF IInv, store, browser, history
    <2>4. HandlerBound'
      BY <2>1 DEF IInv, HandlerBound, HoldsItsOwn, Minted, Bound, OwnToken, history
    <2> QED
      BY <2>1, <2>2, <2>3, <2>4, HistoryFrame DEF IInv, history
  <1> QED
    BY <1>1, <1>2, <1>3, BrowserSteps, LossSteps, StoreFailsStep DEF Next

\* What is kept under a key, wherever it is kept, stems from the one request
\* the key was minted for: the invariant the theorems below follow from.
THEOREM Invariance == Spec => []IInv
  <1>1. Init => IInv
    BY InitIInv
  <1>2. IInv /\ [Next]_vars => IInv'
    BY IInvIsInductive
  <1> QED
    BY <1>1, <1>2, PTL DEF Spec

\* Every variable holds a value of its kind.
THEOREM TypeCorrect == Spec => []TypeOK
  BY Invariance, PTL DEF IInv

\* TokenEndpoint hands the tokens of a login, with that login's nonce, to no
\* one but a client that names the client_id, redirect_uri and verifier of the
\* request that began it.
THEOREM GrantsAreTheRequesters == Spec => []GrantedToRequester
  BY Invariance, PTL DEF IInv

\* FinalPage redirects a browser only with the code or the tokens of a login
\* that browser began itself.
THEOREM RedirectsAreTheOwners == Spec => []RedirectedToOwner
  BY Invariance, PTL DEF IInv

-----------------------------------------------------------------------------
(* Dead keys *)

LEMMA NotInFlight ==
  ASSUME NEW k, NEW pcs
  PROVE  InFlight(pcs, k) = {} <=>
           \A h \in Handlers : ~(proc[h].pc \in pcs /\ proc[h].key = k)
  BY DEF InFlight

\* Every write of a key's entries is made by a handler in flight for that key,
\* and one begins only while the original request is stored.
LEMMA DeadStep ==
  ASSUME IInv, [Next]_vars, NEW k \in Keys, Dead(k)
  PROVE  Dead(k)'
  <1>1. /\ requested[k] # None /\ original[k] = None /\ downstream[k] = None
        /\ \A h \in Handlers : ~(proc[h].pc \in WriterPcs /\ proc[h].key = k)
    BY NotInFlight DEF Dead
  <1>2. ASSUME NEW h \in Handlers, NEW p, p.pc \notin WriterPcs \/ p.key # k,
               proc' = [proc EXCEPT ![h] = p]
        PROVE  \A g \in Handlers : ~(proc'[g].pc \in WriterPcs /\ proc'[g].key = k)
    BY <1>1, <1>2 DEF IInv, TypeOK
  <1>3. Idle.pc \notin WriterPcs
    BY DEF Idle, WriterPcs
  <1>4. ASSUME NEW h \in Handlers, Begin(h) PROVE Dead(k)'
    <2>1. ASSUME NEW b \in Browsers, NEW r \in Requests, AuthorizeBegin(h, b, r)
          PROVE  Dead(k)'
      <3> DEFINE p == [ Idle EXCEPT !.browser = b, !.request = r, !.key = cookie[b],
                          !.pc = IF cookie[b] = None THEN "authorize_store"
                                 ELSE "authorize_delete_original" ]
      <3>1. p.pc \notin WriterPcs
        BY DEF Idle, WriterPcs
      <3>2. proc' = [proc EXCEPT ![h] = p] /\ UNCHANGED << store, history >>
        BY <2>1 DEF AuthorizeBegin, Start
      <3> HIDE DEF p
      <3> QED
        BY <1>1, <1>2, <3>1, <3>2 DEF Dead, InFlight, store, history
    <2>2. ASSUME NEW a \in atIdp, TokenValidatedGet(h, a)
          PROVE  Dead(k)'
      <3>1. UNCHANGED << store, history >>
        BY <2>2 DEF TokenValidatedGet
      <3>2. CASE original[a.key] = None
        BY <2>2, <3>1, <3>2, <1>1 DEF TokenValidatedGet, Dead, InFlight, store, history
      <3>3. CASE original[a.key] # None
        <4> DEFINE p == Validated(a, a.key)
        <4>1. p.key # k
          BY <1>1, <3>3 DEF Validated, Idle
        <4>2. proc' = [proc EXCEPT ![h] = p]
          BY <2>2, <3>3 DEF TokenValidatedGet, Start
        <4> HIDE DEF p
        <4> QED
          BY <1>1, <1>2, <3>1, <4>1, <4>2 DEF Dead, InFlight, store, history
      <3> QED
        BY <3>2, <3>3
    <2>3. ASSUME NEW b \in Browsers, FinalPagePost(h, b)
          PROVE  Dead(k)'
      <3> DEFINE p == [ Idle EXCEPT !.pc = "custom_get", !.browser = b, !.key = cookie[b] ]
      <3>1. p.key # k
        BY <1>1, <2>3 DEF FinalPagePost, Idle
      <3>2. proc' = [proc EXCEPT ![h] = p] /\ UNCHANGED << store, requested >>
        BY <2>3 DEF FinalPagePost, Start
      <3> HIDE DEF p
      <3> QED
        BY <1>1, <1>2, <3>1, <3>2 DEF Dead, InFlight, store
    <2>4. ASSUME NEW j \in Keys, NEW t \in TokenRequests, TokenBegin(h, j, t)
          PROVE  Dead(k)'
      <3> DEFINE p == [ Idle EXCEPT !.pc = "token_delete_original", !.key = j,
                          !.response = downstream[j], !.params = t ]
      <3>1. p.pc \notin WriterPcs
        BY DEF Idle, WriterPcs
      <3>2. proc' = [proc EXCEPT ![h] = p] /\ UNCHANGED << store, requested >>
        BY <2>4 DEF TokenBegin, Start
      <3> HIDE DEF p
      <3> QED
        BY <1>1, <1>2, <3>1, <3>2 DEF Dead, InFlight, store
    <2> QED
      BY <1>4, <2>1, <2>2, <2>3, <2>4 DEF Begin
  <1>5. ASSUME NEW h \in Handlers, Proceed(h) PROVE Dead(k)'
    <2>1. CASE \E from, to :
                 /\ to \notin WriterPcs
                 /\ RemoveOriginal(h, from, to)
      <3>1. PICK from, to : to \notin WriterPcs /\ RemoveOriginal(h, from, to)
        BY <2>1
      <3>2. /\ proc' = [proc EXCEPT ![h].pc = to]
            /\ original' = [original EXCEPT ![proc[h].key] = None]
            /\ UNCHANGED << downstream, requested >>
        BY <3>1 DEF RemoveOriginal, GoTo, history
      <3> QED
        BY <1>1, <3>1, <3>2 DEF Dead, InFlight, IInv, TypeOK, Handler
    <2>2. CASE \/ AuthorizeDeleteDownstream(h)
               \/ GenerateDeleteDownstream(h)
               \/ TokenDeleteDownstream(h)
      <3>1. /\ \E pc \in {"idle", "authorize_store", "final_reply"} :
                 \/ proc' = [proc EXCEPT ![h].pc = pc]
                 \/ proc' = [proc EXCEPT ![h] = Idle]
            /\ downstream' = [downstream EXCEPT ![proc[h].key] = None]
            /\ UNCHANGED << original, requested >>
        BY <2>2 DEF AuthorizeDeleteDownstream, GenerateDeleteDownstream,
           TokenDeleteDownstream, TokenReply, RemoveDownstream, GoTo, Finish, history
      <3> QED
        BY <1>1, <1>3, <3>1 DEF Dead, InFlight, IInv, TypeOK, Handler, WriterPcs
    <2>3. CASE AuthorizeReply(h) \/ FinalPageReply(h)
      BY <1>1, <1>3, <2>3 DEF AuthorizeReply, FinalPageReply, Finish, Dead,
         InFlight, IInv, TypeOK, store, history
    <2>4. ASSUME NEW j \in Keys, AuthorizeStore(h, j) PROVE Dead(k)'
      <3>1. j # k
        BY <1>1, <2>4 DEF AuthorizeStore
      <3>2. /\ original'[k] = original[k] /\ requested'[k] = requested[k]
            /\ UNCHANGED downstream
        BY <2>4, <3>1 DEF AuthorizeStore, IInv, TypeOK
      <3>3. \A g \in Handlers : /\ g # h => proc'[g] = proc[g]
                                /\ g = h => proc'[g].pc = "authorize_reply"
        BY <2>4 DEF AuthorizeStore, IInv, TypeOK, Handler
      <3> QED
        BY <1>1, <3>2, <3>3 DEF Dead, InFlight, WriterPcs
    <2>5. CASE \/ TokenValidatedStore(h) \/ CustomGet(h) \/ CustomStore(h)
               \/ GenerateGetOriginal(h) \/ GenerateGetDownstream(h)
               \/ GenerateStore(h)
      <3>1. proc[h].pc \in WriterPcs
        BY <2>5 DEF TokenValidatedStore, CustomGet, CustomStore,
           GenerateGetOriginal, GenerateGetDownstream, GenerateStore, At, WriterPcs
      <3>2. proc[h].key # k
        BY <1>1, <3>1
      <3>3. UNCHANGED << original, requested >> /\ downstream'[k] = downstream[k]
        BY <2>5, <3>2 DEF TokenValidatedStore, CustomGet, CustomStore,
           GenerateGetOriginal, GenerateGetDownstream, GenerateStore,
           StoreDownstream, IInv, TypeOK, store, history
      <3>4. \E p : /\ p = Idle \/ p.key = proc[h].key
                   /\ proc' = [proc EXCEPT ![h] = p]
        <4>1. CASE Finish(h)
          BY <4>1 DEF Finish
        <4>2. CASE CustomStore(h) \/ GenerateStore(h)
          BY <4>2 DEF CustomStore, GenerateStore, GoTo, IInv, TypeOK, Handler
        <4>3. CASE ~Finish(h) /\ (CustomGet(h) \/ GenerateGetDownstream(h))
          BY <4>3 DEF CustomGet, GenerateGetDownstream, GetDownstream, IInv,
             TypeOK, Handler
        <4>4. CASE ~Finish(h) /\ GenerateGetOriginal(h)
          BY <4>4 DEF GenerateGetOriginal, GetOriginal, IInv, TypeOK, Handler
        <4> QED
          BY <2>5, <4>1, <4>2, <4>3, <4>4 DEF TokenValidatedStore
      <3>5. \A g \in Handlers : ~(proc'[g].pc \in WriterPcs /\ proc'[g].key = k)
        BY <1>2, <1>3, <3>2, <3>4
      <3> QED
        BY <1>1, <3>3, <3>5 DEF Dead, InFlight
    <2>6. AuthorizeDeleteOriginal(h) \/ GenerateDeleteOriginal(h)
          \/ TokenDeleteOriginal(h) =>
            \E from, to : to \notin WriterPcs /\ RemoveOriginal(h, from, to)
      BY DEF AuthorizeDeleteOriginal, GenerateDeleteOriginal, TokenDeleteOriginal,
         WriterPcs
    <2> QED
      BY <1>5, <2>1, <2>2, <2>3, <2>4, <2>5, <2>6 DEF Proceed
  <1>6. ASSUME NEW b \in Browsers, BrowserStep(b) PROVE Dead(k)'
    BY <1>1, <1>6 DEF BrowserStep, AuthorizeRejected, Challenge, SignIn,
       CookieExpires, SessionExpires, Dead, InFlight, store, history
  <1>7. CASE \/ \E a \in atIdp : IdpFailure(a)
             \/ \E j \in Keys : ExpireOriginal(j) \/ ExpireDownstream(j)
    BY <1>1, <1>7 DEF IdpFailure, ExpireOriginal, ExpireDownstream, Dead,
       InFlight, IInv, TypeOK, store, history
  <1>8. CASE Restart
    BY <1>1, <1>3, <1>8 DEF Restart, Dead, InFlight, history
  <1>9. CASE UNCHANGED vars
    BY <1>1, <1>9 DEF vars, Dead, InFlight, store, history
  <1>10. ASSUME NEW h \in Handlers, StoreFails(h) PROVE Dead(k)'
    <2>1. \A g \in Handlers : ~(proc'[g].pc \in WriterPcs /\ proc'[g].key = k)
      BY <1>2, <1>3, <1>10 DEF StoreFails, Finish
    <2> QED
      BY <1>1, <1>10, <2>1 DEF StoreFails, Dead, InFlight, store, history
  <1> QED
    BY <1>4, <1>5, <1>6, <1>7, <1>8, <1>9, <1>10 DEF Next

\* No late callback, post or redemption brings a dead key back.
THEOREM DeathIsFinal == Spec => DeadKeysStayDead
  <1>1. IInv /\ [Next]_vars => [\A k \in Keys : Dead(k) => Dead(k)']_vars
    BY DeadStep
  <1> QED
    BY <1>1, Invariance, PTL DEF Spec, DeadKeysStayDead

-----------------------------------------------------------------------------
(* Redemptions *)

LEMMA InitRedemptionInv == Init => RedemptionInv
  BY DEF Init, Idle, RedemptionInv, GrantedOnce, At, TokenPcs

\* An original request, once gone, is never stored again: only the minting
\* stores one, and no key is minted twice.
LEMMA OriginalStaysGone ==
  ASSUME IInv, [Next]_vars, NEW k \in Keys, requested[k] # None, original[k] = None
  PROVE  original'[k] = None
  <1>1. ASSUME NEW h \in Handlers, NEW j \in Keys, AuthorizeStore(h, j)
        PROVE  original'[k] = None
    BY <1>1 DEF AuthorizeStore, IInv, TypeOK
  <1>2. ASSUME NEW h \in Handlers, NEW from, NEW to, RemoveOriginal(h, from, to)
        PROVE  original'[k] = None
    BY <1>2 DEF RemoveOriginal, IInv, TypeOK
  <1>3. ASSUME NEW h \in Handlers, Proceed(h) PROVE original'[k] = None
    <2>1. CASE \/ AuthorizeDeleteOriginal(h) \/ GenerateDeleteOriginal(h)
               \/ TokenDeleteOriginal(h)
      BY <1>2, <2>1 DEF AuthorizeDeleteOriginal, GenerateDeleteOriginal,
         TokenDeleteOriginal
    <2>2. CASE \E j \in Keys : AuthorizeStore(h, j)
      BY <1>1, <2>2
    <2>3. CASE \/ AuthorizeDeleteDownstream(h) \/ AuthorizeReply(h)
               \/ TokenValidatedStore(h) \/ CustomGet(h) \/ CustomStore(h)
               \/ GenerateGetOriginal(h) \/ GenerateGetDownstream(h)
               \/ GenerateStore(h) \/ GenerateDeleteDownstream(h)
               \/ FinalPageReply(h) \/ TokenDeleteDownstream(h)
      BY <2>3 DEF AuthorizeDeleteDownstream, AuthorizeReply,
         TokenValidatedStore, CustomGet, CustomStore, GenerateGetOriginal,
         GenerateGetDownstream, GenerateStore, GenerateDeleteDownstream,
         FinalPageReply, TokenDeleteDownstream, TokenReply, store
    <2> QED
      BY <1>3, <2>1, <2>2, <2>3 DEF Proceed
  <1>4. ASSUME NEW h \in Handlers, Begin(h) PROVE original'[k] = None
    BY <1>4 DEF Begin, AuthorizeBegin, TokenValidatedGet, FinalPagePost,
       TokenBegin, store
  <1>5. CASE \/ \E b \in Browsers : BrowserStep(b)
             \/ \E a \in atIdp : IdpFailure(a)
             \/ \E j \in Keys : ExpireOriginal(j) \/ ExpireDownstream(j)
             \/ \E h \in Handlers : StoreFails(h)
             \/ Restart \/ UNCHANGED vars
    BY <1>5 DEF StoreFails, BrowserStep, AuthorizeRejected, Challenge, SignIn,
       CookieExpires, SessionExpires, IdpFailure, ExpireOriginal,
       ExpireDownstream, Restart, IInv, TypeOK, vars, store
  <1> QED
    BY <1>3, <1>4, <1>5 DEF Next

\* A handler that moves on is no writer of the key afterwards, or one that has
\* less to do than before.
LEMMA WriterMoves ==
  ASSUME IInv, NEW k \in Keys, NEW g \in Handlers, NEW p,
         proc' = [proc EXCEPT ![g] = p],
         \/ p.pc \notin WriterPcs
         \/ p.key # k
         \/ /\ proc[g].pc \in WriterPcs /\ proc[g].key = k
            /\ WritesLeft[p.pc] < WritesLeft[proc[g].pc]
  PROVE  \A h \in InFlight(WriterPcs, k)' :
           \/ proc'[h] = proc[h]
           \/ /\ h \in InFlight(WriterPcs, k)
              /\ WritesLeft[proc'[h].pc] < WritesLeft[proc[h].pc]
  BY DEF InFlight, IInv, TypeOK

LEMMA WritesLeftOrder ==
  /\ WritesLeft["custom_store"] < WritesLeft["custom_get"]
  /\ WritesLeft["generate_get_original"] < WritesLeft["custom_store"]
  /\ WritesLeft["generate_get_downstream"] < WritesLeft["generate_get_original"]
  /\ WritesLeft["generate_store"] < WritesLeft["generate_get_downstream"]
  <1>1. /\ WritesLeft["custom_get"] = 4
        /\ WritesLeft["custom_store"] = 3
        /\ WritesLeft["generate_get_original"] = 2
        /\ WritesLeft["generate_get_downstream"] = 1
        /\ WritesLeft["generate_store"] = 0
    BY DEF WritesLeft, WriterPcs
  <1> QED
    BY <1>1

\* A callback and a post begin with the original request; a handler under way
\* goes one call further at a time, and a generator that has yet to read the
\* original request ends there.
LEMMA RunDownStep ==
  ASSUME IInv, [Next]_vars, NEW k \in Keys, requested[k] # None, original[k] = None
  PROVE  \A h \in InFlight(WriterPcs, k)' :
           \/ proc'[h] = proc[h]
           \/ /\ h \in InFlight(WriterPcs, k)
              /\ WritesLeft[proc'[h].pc] < WritesLeft[proc[h].pc]
  <1> DEFINE Goal == \A h \in InFlight(WriterPcs, k)' :
                       \/ proc'[h] = proc[h]
                       \/ /\ h \in InFlight(WriterPcs, k)
                          /\ WritesLeft[proc'[h].pc] < WritesLeft[proc[h].pc]
  <1>1. ASSUME proc' = proc \/ proc' = [h \in Handlers |-> Idle] PROVE Goal
    BY <1>1 DEF InFlight, Idle, WriterPcs
  <1>2. ASSUME NEW g \in Handlers, Finish(g) PROVE Goal
    BY <1>2, WriterMoves DEF Finish, Idle, WriterPcs
  <1>3. ASSUME NEW g \in Handlers, NEW to, to \notin WriterPcs, GoTo(g, to)
        PROVE  Goal
    <2>1. /\ proc' = [proc EXCEPT ![g] = [proc[g] EXCEPT !.pc = to]]
          /\ [proc[g] EXCEPT !.pc = to].pc = to
      BY <1>3 DEF GoTo, IInv, TypeOK, Handler
    <2> QED
      BY <1>3, <2>1, WriterMoves
  <1>4. ASSUME NEW g \in Handlers, Begin(g) PROVE Goal
    <2>1. ASSUME NEW b \in Browsers, NEW r \in Requests, AuthorizeBegin(g, b, r)
          PROVE  Goal
      <3> DEFINE p == [ Idle EXCEPT !.browser = b, !.request = r, !.key = cookie[b],
                          !.pc = IF cookie[b] = None THEN "authorize_store"
                                 ELSE "authorize_delete_original" ]
      <3>1. p.pc \notin WriterPcs
        BY DEF Idle, WriterPcs
      <3>2. proc' = [proc EXCEPT ![g] = p]
        BY <2>1 DEF AuthorizeBegin, Start
      <3> HIDE DEF p
      <3> QED
        BY <3>1, <3>2, WriterMoves
    <2>2. ASSUME NEW a \in atIdp, TokenValidatedGet(g, a) PROVE Goal
      <3> DEFINE p == Validated(a, a.key)
      <3>1. p.key = a.key
        BY DEF Validated, Idle
      <3>2. \/ proc' = proc
            \/ original[a.key] # None /\ proc' = [proc EXCEPT ![g] = p]
        BY <2>2 DEF TokenValidatedGet, Start
      <3> HIDE DEF p
      <3> QED
        BY <1>1, <3>1, <3>2, WriterMoves
    <2>3. ASSUME NEW b \in Browsers, FinalPagePost(g, b) PROVE Goal
      <3> DEFINE p == [ Idle EXCEPT !.pc = "custom_get", !.browser = b, !.key = cookie[b] ]
      <3>1. p.key # k
        BY <2>3 DEF FinalPagePost, Idle
      <3>2. proc' = [proc EXCEPT ![g] = p]
        BY <2>3 DEF FinalPagePost, Start
      <3> HIDE DEF p
      <3> QED
        BY <3>1, <3>2, WriterMoves
    <2>4. ASSUME NEW j \in Keys, NEW t \in TokenRequests, TokenBegin(g, j, t)
          PROVE  Goal
      <3> DEFINE p == [ Idle EXCEPT !.pc = "token_delete_original", !.key = j,
                          !.response = downstream[j], !.params = t ]
      <3>1. p.pc \notin WriterPcs
        BY DEF Idle, WriterPcs
      <3>2. proc' = [proc EXCEPT ![g] = p]
        BY <2>4 DEF TokenBegin, Start
      <3> HIDE DEF p
      <3> QED
        BY <3>1, <3>2, WriterMoves
    <2> QED
      BY <1>4, <2>1, <2>2, <2>3, <2>4 DEF Begin
  <1>5. ASSUME NEW g \in Handlers, Proceed(g) PROVE Goal
    <2>1. CASE \E j \in Keys : AuthorizeStore(g, j)
      <3> PICK j \in Keys : AuthorizeStore(g, j)
        BY <2>1
      <3>1. \A h \in Handlers : \/ proc'[h] = proc[h]
                                \/ proc'[h].pc = "authorize_reply"
        BY DEF AuthorizeStore, IInv, TypeOK, Handler
      <3> QED
        BY <3>1 DEF InFlight, WriterPcs
    <2>2. CASE \/ AuthorizeDeleteOriginal(g) \/ AuthorizeDeleteDownstream(g)
               \/ GenerateDeleteOriginal(g) \/ GenerateDeleteDownstream(g)
               \/ TokenDeleteOriginal(g) \/ GenerateStore(g)
      <3>1. \E to : to \notin WriterPcs /\ GoTo(g, to)
        BY <2>2 DEF AuthorizeDeleteOriginal, AuthorizeDeleteDownstream,
           GenerateDeleteOriginal, GenerateDeleteDownstream, TokenDeleteOriginal,
           GenerateStore, RemoveOriginal, WriterPcs
      <3> QED
        BY <3>1, <1>3
    <2>3. CASE \/ AuthorizeReply(g) \/ TokenValidatedStore(g) \/ FinalPageReply(g)
               \/ TokenDeleteDownstream(g)
      BY <1>2, <2>3 DEF AuthorizeReply, TokenValidatedStore, FinalPageReply,
         TokenDeleteDownstream, TokenReply
    <2>4. CASE CustomGet(g) /\ ~Finish(g)
      <3> DEFINE p == [ proc[g] EXCEPT !.pc = "custom_store",
                          !.response = [ downstream[proc[g].key] EXCEPT
                             !.custom = [NoCustom EXCEPT !.page = TRUE] ] ]
      <3>1. At(g, "custom_get") /\ proc' = [proc EXCEPT ![g] = p]
        BY <2>4 DEF CustomGet, GetDownstream, IInv, TypeOK, Handler
      <3>2. p.pc = "custom_store" /\ p.key = proc[g].key
        BY DEF IInv, TypeOK, Handler
      <3> HIDE DEF p
      <3> QED
        BY <3>1, <3>2, WriterMoves, WritesLeftOrder DEF At, WriterPcs
    <2>5. CASE CustomStore(g)
      <3> DEFINE p == [ proc[g] EXCEPT !.pc = "generate_get_original",
                                       !.response = None ]
      <3>1. At(g, "custom_store") /\ proc' = [proc EXCEPT ![g] = p]
        BY <2>5 DEF CustomStore, IInv, TypeOK, Handler
      <3>2. p.pc = "generate_get_original" /\ p.key = proc[g].key
        BY DEF IInv, TypeOK, Handler
      <3> HIDE DEF p
      <3> QED
        BY <3>1, <3>2, WriterMoves, WritesLeftOrder DEF At, WriterPcs
    <2>6. CASE GenerateGetOriginal(g) /\ ~Finish(g)
      <3> DEFINE p == [ proc[g] EXCEPT !.pc = "generate_get_downstream",
                                       !.request = original[proc[g].key] ]
      <3>1. original[proc[g].key] # None /\ proc' = [proc EXCEPT ![g] = p]
        BY <2>6 DEF GenerateGetOriginal, GetOriginal, IInv, TypeOK, Handler
      <3>2. p.key = proc[g].key
        BY DEF IInv, TypeOK, Handler
      <3> HIDE DEF p
      <3> QED
        BY <3>1, <3>2, WriterMoves
    <2>7. CASE GenerateGetDownstream(g) /\ ~Finish(g)
      <3> DEFINE p == [ proc[g] EXCEPT
                          !.pc = IF GetsCode(proc[g].request) THEN "generate_store"
                                 ELSE "generate_delete_original",
                          !.response = [ downstream[proc[g].key] EXCEPT
                             !.custom.nonce = proc[g].request.nonce ] ]
      <3>1. At(g, "generate_get_downstream") /\ proc' = [proc EXCEPT ![g] = p]
        BY <2>7 DEF GenerateGetDownstream, GetDownstream, IInv, TypeOK, Handler
      <3>2. /\ p.pc \in {"generate_store", "generate_delete_original"}
            /\ p.key = proc[g].key
        BY DEF IInv, TypeOK, Handler
      <3> HIDE DEF p
      <3> QED
        BY <3>1, <3>2, WriterMoves, WritesLeftOrder DEF At, WriterPcs
    <2> QED
      BY <1>2, <1>5, <2>1, <2>2, <2>3, <2>4, <2>5, <2>6, <2>7 DEF Proceed
  <1>6. CASE \/ \E b \in Browsers : BrowserStep(b)
             \/ \E a \in atIdp : IdpFailure(a)
             \/ \E j \in Keys : ExpireOriginal(j) \/ ExpireDownstream(j)
             \/ Restart \/ UNCHANGED vars
    BY <1>1, <1>6 DEF BrowserStep, AuthorizeRejected, Challenge, SignIn,
       CookieExpires, SessionExpires, IdpFailure, ExpireOriginal,
       ExpireDownstream, Restart, vars
  <1>7. ASSUME NEW g \in Handlers, StoreFails(g) PROVE Goal
    BY <1>2, <1>7 DEF StoreFails
  <1> QED
    BY <1>4, <1>5, <1>6, <1>7 DEF Next

\* From the loss of its original request on, a key has no new writers, and each
\* it has is a fixed number of calls from its last write.
THEOREM RequestlessKeysAreSpent == Spec => RequestlessKeysRunDown
  <1>1. IInv /\ [Next]_vars =>
          [ \A k \in Keys :
              requested[k] # None /\ original[k] = None =>
                /\ original'[k] = None
                /\ \A h \in InFlight(WriterPcs, k)' :
                     \/ proc'[h] = proc[h]
                     \/ /\ h \in InFlight(WriterPcs, k)
                        /\ WritesLeft[proc'[h].pc] < WritesLeft[proc[h].pc] ]_vars
    BY OriginalStaysGone, RunDownStep
  <1> QED
    BY <1>1, Invariance, PTL DEF Spec, RequestlessKeysRunDown

LEMMA TokenHandlerKey ==
  ASSUME IInv, NEW h \in Handlers, proc[h].pc \in TokenPcs
  PROVE  proc[h].key \in Keys /\ requested[proc[h].key] # None
  BY DEF IInv, HandlerBound, HoldsItsOwn, ResponsePcs, Bound, Minted

\* A step that neither begins nor ends a redemption preserves the invariant.
LEMMA RedemptionFrame ==
  ASSUME IInv, RedemptionInv, [Next]_vars,
         UNCHANGED << granted, presented, raced >>,
         \A h \in Handlers : proc'[h].pc \in TokenPcs => proc'[h] = proc[h]
  PROVE  RedemptionInv'
  <1>1. \A k \in presented \ raced : Dead(k)'
    BY DeadStep DEF IInv, TypeOK, RedemptionInv
  <1>2. ASSUME NEW h \in Handlers, proc'[h].pc = "token_delete_downstream"
        PROVE  original'[proc'[h].key] = None
    BY <1>2, OriginalStaysGone, TokenHandlerKey DEF RedemptionInv, At, TokenPcs
  <1>3. GrantedOnce'
    BY DEF RedemptionInv, GrantedOnce
  <1>4. ASSUME NEW g \in Handlers, NEW h \in Handlers \ {g},
               {proc'[g].pc, proc'[h].pc} \subseteq TokenPcs,
               proc'[g].key = proc'[h].key
        PROVE  proc'[g].key \in raced
    BY <1>4 DEF RedemptionInv
  <1>5. /\ \A h \in Handlers :
             proc'[h].pc \in TokenPcs /\ proc'[h].key \in presented
               => proc'[h].key \in raced
        /\ \A g \in granted : g.code \in presented
    BY DEF RedemptionInv
  <1> QED
    BY <1>1, <1>2, <1>3, <1>4, <1>5 DEF RedemptionInv, At

LEMMA TokenBeginRedemption ==
  ASSUME IInv, RedemptionInv, [Next]_vars, NEW h \in Handlers, NEW k \in Keys,
         NEW t \in TokenRequests, TokenBegin(h, k, t)
  PROVE  RedemptionInv'
  <1> DEFINE p == [ Idle EXCEPT !.pc = "token_delete_original", !.key = k,
                      !.response = downstream[k], !.params = t ]
  <1>1. p.pc = "token_delete_original" /\ p.key = k
    BY DEF Idle
  <1>2. /\ At(h, "idle") /\ downstream[k] # None
        /\ proc' = [proc EXCEPT ![h] = p]
        /\ raced' = IF InFlight(TokenPcs, k) # {} THEN raced \cup {k} ELSE raced
        /\ UNCHANGED << store, granted, presented >>
    BY DEF TokenBegin, Start
  <1> HIDE DEF p
  <1>3. proc'[h] = p /\ \A g \in Handlers \ {h} : proc'[g] = proc[g]
    BY <1>2 DEF IInv, TypeOK
  <1>4. \A j \in presented \ raced' : Dead(j)'
    BY <1>2, DeadStep DEF IInv, TypeOK, RedemptionInv
  <1>5. \A g \in Handlers :
          At(g, "token_delete_downstream")' => original'[proc'[g].key] = None
    BY <1>1, <1>2, <1>3 DEF RedemptionInv, At, store
  \* A dead code has no answer to read, so k is not one.
  <1>6. k \in presented => k \in raced
    BY <1>2 DEF RedemptionInv, Dead
  <1>7. \A g \in Handlers :
          proc'[g].pc \in TokenPcs /\ proc'[g].key \in presented
            => proc'[g].key \in raced'
    BY <1>1, <1>2, <1>3, <1>6 DEF RedemptionInv
  <1>8. ASSUME NEW f \in Handlers, NEW g \in Handlers \ {f},
               {proc'[f].pc, proc'[g].pc} \subseteq TokenPcs,
               proc'[f].key = proc'[g].key
        PROVE  proc'[f].key \in raced'
    <2>1. CASE f # h /\ g # h
      BY <1>2, <1>3, <1>8, <2>1 DEF RedemptionInv
    <2>2. ASSUME NEW i \in Handlers \ {h}, proc[i].pc \in TokenPcs, proc[i].key = k
          PROVE  k \in raced'
      BY <1>2, <2>2, NotInFlight
    <2>3. CASE f = h \/ g = h
      BY <1>1, <1>3, <1>8, <2>2, <2>3
    <2> QED
      BY <2>1, <2>3
  <1>9. GrantedOnce' /\ \A g \in granted : g.code \in presented
    BY <1>2 DEF RedemptionInv, GrantedOnce
  <1> QED
    BY <1>2, <1>4, <1>5, <1>7, <1>8, <1>9 DEF RedemptionInv

LEMMA TokenDeleteOriginalRedemption ==
  ASSUME IInv, RedemptionInv, [Next]_vars, NEW h \in Handlers, TokenDeleteOriginal(h)
  PROVE  RedemptionInv'
  <1>1. /\ proc[h].pc \in TokenPcs
        /\ original' = [original EXCEPT ![proc[h].key] = None]
        /\ proc' = [proc EXCEPT ![h].pc = "token_delete_downstream"]
        /\ UNCHANGED << granted, presented, raced >>
    BY DEF TokenDeleteOriginal, RemoveOriginal, GoTo, At, TokenPcs, history
  <1>2. /\ proc'[h].key = proc[h].key
        /\ \A g \in Handlers \ {h} : proc'[g] = proc[g]
    BY <1>1 DEF IInv, TypeOK, Handler
  <1>3. \A g \in Handlers : /\ proc'[g].key = proc[g].key
                            /\ proc'[g].pc \in TokenPcs => proc[g].pc \in TokenPcs
    BY <1>1, <1>2
  <1>4. \A j \in presented \ raced : Dead(j)'
    BY DeadStep DEF IInv, TypeOK, RedemptionInv
  <1>5. ASSUME NEW g \in Handlers, At(g, "token_delete_downstream")'
        PROVE  original'[proc'[g].key] = None
    <2>1. CASE g = h
      BY <2>1, <1>1, <1>2, TokenHandlerKey DEF IInv, TypeOK
    <2>2. CASE g # h
      BY <2>2, <1>2, <1>5, OriginalStaysGone, TokenHandlerKey
         DEF RedemptionInv, At, TokenPcs
    <2> QED
      BY <2>1, <2>2
  <1>6. GrantedOnce'
    BY <1>1 DEF RedemptionInv, GrantedOnce
  <1> QED
    BY <1>1, <1>3, <1>4, <1>5, <1>6 DEF RedemptionInv

\* The redemption that ends first finds no writer, or says so; any other of the
\* same code knows it raced.
LEMMA TokenDeleteDownstreamRedemption ==
  ASSUME IInv, RedemptionInv, [Next]_vars, NEW h \in Handlers, TokenDeleteDownstream(h)
  PROVE  RedemptionInv'
  <1> DEFINE k == proc[h].key
             g == [ code   |-> k, params |-> proc[h].params,
                    token  |-> proc[h].response.token,
                    custom |-> proc[h].response.custom,
                    again  |-> \E x \in granted : x.code = k ]
  <1>1. /\ proc[h].pc \in TokenPcs /\ original[k] = None
        /\ k \in Keys /\ requested[k] # None
    BY TokenHandlerKey DEF TokenDeleteDownstream, At, TokenPcs, RedemptionInv
  <1>2. /\ downstream' = [downstream EXCEPT ![k] = None]
        /\ granted' \subseteq granted \cup {g} /\ granted \subseteq granted'
        /\ presented' = presented \cup {k}
        /\ raced' = IF InFlight(WriterPcs, k) # {} THEN raced \cup {k} ELSE raced
        /\ proc' = [proc EXCEPT ![h] = Idle]
        /\ UNCHANGED << original, requested >>
    BY DEF TokenDeleteDownstream, TokenReply, RemoveDownstream, Finish
  <1>3. g.code = k /\ g.again = \E x \in granted : x.code = k
    OBVIOUS
  <1> HIDE DEF g
  <1>4. ASSUME NEW j \in presented' \ raced' PROVE Dead(j)'
    <2>1. CASE j # k
      <3>1. j \in presented \ raced /\ j \in Keys
        BY <2>1, <1>2, <1>4 DEF IInv, TypeOK
      <3> QED
        BY <3>1, DeadStep DEF RedemptionInv
    <2>2. CASE j = k
      <3>1. InFlight(WriterPcs, k) = {}
        BY <1>2, <1>4, <2>2
      <3>2. \A i \in Handlers : ~(proc'[i].pc \in WriterPcs /\ proc'[i].key = k)
        BY <1>2, <3>1, NotInFlight DEF IInv, TypeOK, Idle, WriterPcs
      <3>3. downstream'[k] = None
        BY <1>1, <1>2 DEF IInv, TypeOK
      <3> QED
        BY <1>1, <1>2, <2>2, <3>2, <3>3 DEF Dead, InFlight
    <2> QED
      BY <2>1, <2>2
  <1>5. \A i \in Handlers :
          proc'[i].pc \in TokenPcs => i # h /\ proc'[i] = proc[i]
    BY <1>2 DEF IInv, TypeOK, Idle, TokenPcs
  <1>6. \A i \in Handlers :
          At(i, "token_delete_downstream")' => original'[proc'[i].key] = None
    BY <1>2, <1>5 DEF RedemptionInv, At, TokenPcs
  <1>7. raced \subseteq raced'
    BY <1>2
  <1>8. ASSUME NEW i \in Handlers, proc'[i].pc \in TokenPcs, proc'[i].key \in presented'
        PROVE  proc'[i].key \in raced'
    <2>1. i # h /\ proc'[i] = proc[i]
      BY <1>5, <1>8
    <2>2. CASE proc[i].key \in presented
      BY <2>1, <2>2, <1>7, <1>8 DEF RedemptionInv
    <2>3. CASE proc[i].key = k
      BY <2>1, <2>3, <1>1, <1>7, <1>8 DEF RedemptionInv
    <2> QED
      BY <1>2, <1>8, <2>1, <2>2, <2>3
  <1>9. ASSUME NEW i \in Handlers, NEW j \in Handlers \ {i},
               {proc'[i].pc, proc'[j].pc} \subseteq TokenPcs,
               proc'[i].key = proc'[j].key
        PROVE  proc'[i].key \in raced'
    BY <1>5, <1>7, <1>9 DEF RedemptionInv
  <1>10. \A x \in granted' : x.code \in presented'
    BY <1>2, <1>3 DEF RedemptionInv
  <1>11. GrantedOnce'
    <2> SUFFICES ASSUME NEW x \in granted', x.again PROVE x.code \in raced'
      BY DEF GrantedOnce
    <2>1. CASE x \in granted
      BY <2>1, <1>7 DEF RedemptionInv, GrantedOnce
    <2>2. CASE x = g
      <3>1. k \in presented
        BY <2>2, <1>3 DEF RedemptionInv
      <3> QED
        BY <2>2, <3>1, <1>1, <1>3, <1>7 DEF RedemptionInv
    <2> QED
      BY <1>2, <2>1, <2>2
  <1> QED
    BY <1>4, <1>6, <1>8, <1>9, <1>10, <1>11 DEF RedemptionInv

LEMMA RedemptionIsInductive == IInv /\ RedemptionInv /\ [Next]_vars => RedemptionInv'
  <1> SUFFICES ASSUME IInv, RedemptionInv, [Next]_vars PROVE RedemptionInv'
    OBVIOUS
  <1> DEFINE Elsewhere ==
        /\ UNCHANGED << granted, presented, raced >>
        /\ \A h \in Handlers : proc'[h].pc \in TokenPcs => proc'[h] = proc[h]
  <1>1. Elsewhere => RedemptionInv'
    BY RedemptionFrame
  <1>2. ASSUME NEW h \in Handlers, Begin(h) PROVE RedemptionInv'
    <2>1. CASE \E b \in Browsers, r \in Requests : AuthorizeBegin(h, b, r)
      BY <1>1, <2>1 DEF AuthorizeBegin, Start, IInv, TypeOK, Idle, TokenPcs, history
    <2>2. ASSUME NEW a \in atIdp, TokenValidatedGet(h, a) PROVE RedemptionInv'
      <3> DEFINE p == Validated(a, a.key)
      <3>1. p.pc \notin TokenPcs
        BY DEF Validated, Idle, TokenPcs
      <3>2. /\ UNCHANGED << granted, presented, raced >>
            /\ proc' = proc \/ proc' = [proc EXCEPT ![h] = p]
        BY <2>2 DEF TokenValidatedGet, Start, history
      <3> HIDE DEF p
      <3> QED
        BY <1>1, <3>1, <3>2 DEF IInv, TypeOK
    <2>3. CASE \E b \in Browsers : FinalPagePost(h, b)
      BY <1>1, <2>3 DEF FinalPagePost, Start, IInv, TypeOK, Idle, TokenPcs
    <2> QED
      BY <1>2, <2>1, <2>2, <2>3, TokenBeginRedemption DEF Begin
  <1>3. ASSUME NEW h \in Handlers, Proceed(h) PROVE RedemptionInv'
    <2>1. CASE AuthorizeDeleteOriginal(h) \/ GenerateDeleteOriginal(h)
      BY <1>1, <2>1 DEF AuthorizeDeleteOriginal, GenerateDeleteOriginal,
         RemoveOriginal, GoTo, IInv, TypeOK, Handler, TokenPcs, history
    <2>2. CASE \/ AuthorizeDeleteDownstream(h) \/ CustomStore(h)
               \/ GenerateStore(h) \/ GenerateDeleteDownstream(h)
      BY <1>1, <2>2 DEF AuthorizeDeleteDownstream, CustomStore, GenerateStore,
         GenerateDeleteDownstream, GoTo, IInv, TypeOK, Handler, TokenPcs, history
    <2>3. CASE AuthorizeReply(h) \/ TokenValidatedStore(h) \/ FinalPageReply(h)
      BY <1>1, <2>3 DEF AuthorizeReply, TokenValidatedStore, FinalPageReply,
         Finish, IInv, TypeOK, Idle, TokenPcs, history
    <2>4. CASE \E k \in Keys : AuthorizeStore(h, k)
      BY <1>1, <2>4 DEF AuthorizeStore, IInv, TypeOK, Handler, TokenPcs
    <2>5. CASE CustomGet(h) \/ GenerateGetOriginal(h)
      BY <1>1, <2>5 DEF CustomGet, GenerateGetOriginal, GetOriginal,
         GetDownstream, Finish, IInv, TypeOK, Handler, Idle, TokenPcs, history
    <2>6. CASE GenerateGetDownstream(h)
      <3>1. UNCHANGED << granted, presented, raced >>
        BY <2>6 DEF GenerateGetDownstream, history
      <3>2. CASE downstream[proc[h].key] = None
        BY <1>1, <2>6, <3>1, <3>2 DEF GenerateGetDownstream, GetDownstream,
           Finish, IInv, TypeOK, Idle, TokenPcs
      <3>3. CASE downstream[proc[h].key] # None
        <4>1. /\ proc'[h].pc \in {"generate_store", "generate_delete_original"}
              /\ \A g \in Handlers \ {h} : proc'[g] = proc[g]
          BY <2>6, <3>3 DEF GenerateGetDownstream, GetDownstream, IInv, TypeOK,
             Handler
        <4> QED
          BY <1>1, <3>1, <4>1 DEF TokenPcs
      <3> QED
        BY <3>2, <3>3
    <2> QED
      BY <1>3, <2>1, <2>2, <2>3, <2>4, <2>5, <2>6, TokenDeleteOriginalRedemption,
         TokenDeleteDownstreamRedemption DEF Proceed
  <1>4. ASSUME NEW b \in Browsers, BrowserStep(b) PROVE RedemptionInv'
    BY <1>1, <1>4 DEF BrowserStep, AuthorizeRejected, Challenge, SignIn,
       CookieExpires, SessionExpires, history
  <1>5. CASE \/ \E a \in atIdp : IdpFailure(a)
             \/ \E k \in Keys : ExpireOriginal(k) \/ ExpireDownstream(k)
             \/ UNCHANGED vars
    BY <1>1, <1>5 DEF IdpFailure, ExpireOriginal, ExpireDownstream, vars, history
  <1>6. CASE Restart
    BY <1>1, <1>6 DEF Restart, Idle, TokenPcs, history
  <1>7. CASE \E h \in Handlers : StoreFails(h)
    BY <1>1, <1>7 DEF StoreFails, Finish, IInv, TypeOK, Idle, TokenPcs, history
  <1> QED
    BY <1>2, <1>3, <1>4, <1>5, <1>6, <1>7 DEF Next

THEOREM RedemptionInvariance == Spec => []RedemptionInv
  <1>1. Init => RedemptionInv
    BY InitRedemptionInv
  <1>2. IInv /\ RedemptionInv /\ [Next]_vars => RedemptionInv'
    BY RedemptionIsInductive
  <1> QED
    BY <1>1, <1>2, Invariance, PTL DEF Spec

\* A code that has been presented once is dead, but for the two windows.
THEOREM PresentedCodesDie == Spec => []PresentedCodeIsDead
  <1>1. RedemptionInv => PresentedCodeIsDead
    BY DEF RedemptionInv, PresentedCodeIsDead, Dead
  <1> QED
    BY <1>1, RedemptionInvariance, PTL

\* Tokens leave twice for one code only when two redemptions, or a redemption
\* and a late write, overlapped.
THEOREM CodesGrantOnce == Spec => []GrantedOnce
  BY RedemptionInvariance, PTL DEF RedemptionInv

-----------------------------------------------------------------------------
(* Codes: the steps of the handlers are steps of OneTimeCode *)

LEMMA CodeInit == Init => Code!Init
  <1> SUFFICES ASSUME Init PROVE Code!Init
    OBVIOUS
  <1>1. LiveCodes = {}
    BY DEF Init, LiveCodes
  <1>2. \A h \in Handlers : RedemptionOf(h) = None
    BY DEF Init, RedemptionOf, Idle, TokenPcs
  <1>3. \A k \in Keys : YieldsOf(k) = 0
    BY DEF Init, YieldsOf, GrantsOf
  <1> QED
    BY <1>1, <1>2, <1>3 DEF Init, Code!Init

\* No step makes a key live but the one that mints it.
LEMMA LiveShrinks ==
  ASSUME IInv, [Next]_vars, requested' = requested
  PROVE  LiveCodes' \subseteq LiveCodes
  BY DeadStep DEF LiveCodes

\* What a key's being live depends on: its entries and its writers.
LEMMA LiveFrame ==
  ASSUME NEW k \in Keys, requested'[k] = requested[k],
         original'[k] = original[k], downstream'[k] = downstream[k],
         \A h \in Handlers :
           (proc'[h].pc \in WriterPcs /\ proc'[h].key = k) <=>
           (proc[h].pc \in WriterPcs /\ proc[h].key = k)
  PROVE  k \in LiveCodes' <=> k \in LiveCodes
  BY NotInFlight DEF LiveCodes, Dead, InFlight

LEMMA RedemptionFrames ==
  ASSUME NEW h \in Handlers, proc \in [Handlers -> Handler],
         NEW p, proc' = [proc EXCEPT ![h] = p],
         proc[h].pc \notin TokenPcs, p.pc \notin TokenPcs
  PROVE  \A g \in Handlers : RedemptionOf(g)' = RedemptionOf(g)
  BY DEF RedemptionOf

\* Minting a key opens a code.
LEMMA OpenCode ==
  ASSUME IInv, NEW h \in Handlers, NEW k \in Keys, AuthorizeStore(h, k)
  PROVE  Code!Open(k)
  <1> DEFINE r == proc[h].request
             s == [r EXCEPT !.nonce = IF @ = None THEN k ELSE @]
             p == [proc[h] EXCEPT !.pc = "authorize_reply", !.key = k, !.request = s]
  <1>1. r \in AuthorizeRequest(Nonces \cup {None})
    BY ConstantsAssumption DEF IInv, HandlerBound, HoldsItsOwn, AuthorizeStore,
       At, AuthorizePcs
  <1>2. s \in StoredRequests /\ s # None
    BY <1>1, NoneAssumption DEF StoredRequests, AuthorizeRequest
  <1>3. /\ requested[k] = None
        /\ original'  = [original EXCEPT ![k] = s]
        /\ requested' = [requested EXCEPT ![k] = s]
        /\ proc'      = [proc EXCEPT ![h] = p]
        /\ UNCHANGED << downstream, granted, presented, raced >>
    BY DEF AuthorizeStore, IInv, TypeOK, Handler
  <1>4. /\ p.pc = "authorize_reply" /\ proc[h].pc = "authorize_store"
        /\ proc \in [Handlers -> Handler]
    BY DEF AuthorizeStore, At, IInv, TypeOK, Handler
  <1> HIDE DEF r, s, p
  <1>5. \A g \in Handlers : RedemptionOf(g)' = RedemptionOf(g)
    BY <1>3, <1>4, RedemptionFrames DEF TokenPcs
  <1>6. \A j \in Keys \ {k} : j \in LiveCodes' <=> j \in LiveCodes
    BY <1>3, <1>4, LiveFrame DEF IInv, TypeOK, WriterPcs
  <1>7. k \in LiveCodes'
    BY <1>2, <1>3 DEF LiveCodes, Dead, IInv, TypeOK
  <1>8. LiveCodes' = LiveCodes \cup {k}
    BY <1>6, <1>7 DEF LiveCodes
  <1>9. requested'[k] \in StoredRequests
        /\ requested' = [requested EXCEPT ![k] = requested'[k]]
    BY <1>2, <1>3 DEF IInv, TypeOK
  <1>10. \A j \in Keys : YieldsOf(j)' = YieldsOf(j)
    BY <1>3 DEF YieldsOf, GrantsOf
  <1> QED
    BY <1>3, <1>5, <1>8, <1>9, <1>10 DEF Code!Open

\* Reading an entry to redeem it is claiming the code.
LEMMA ClaimCode ==
  ASSUME IInv, NEW h \in Handlers, NEW k \in Keys, NEW t \in TokenRequests,
         TokenBegin(h, k, t)
  PROVE  Code!Claim(h)
  <1> DEFINE p == [ Idle EXCEPT !.pc = "token_delete_original", !.key = k,
                                !.response = downstream[k], !.params = t ]
  <1>1. p.pc = "token_delete_original" /\ p.key = k /\ p.params = t
    BY DEF Idle
  <1> HIDE DEF p
  <1>2. /\ downstream[k] # None /\ proc[h].pc = "idle"
        /\ proc' = [proc EXCEPT ![h] = p]
        /\ UNCHANGED << store, requested, granted, presented >>
        /\ raced' = IF InFlight(TokenPcs, k) # {} THEN raced \cup {k} ELSE raced
    BY DEF TokenBegin, Start, At, p
  <1>3. /\ RedemptionOf(h) = None
        /\ RedemptionOf(h)' = [ code |-> k, params |-> t ]
        /\ \A g \in Handlers \ {h} : RedemptionOf(g)' = RedemptionOf(g)
    BY <1>1, <1>2 DEF RedemptionOf, TokenPcs, IInv, TypeOK
  <1>4. k \in LiveCodes
    BY <1>2, NoneAssumption DEF LiveCodes, Dead, IInv, StoreBound, Bound, Minted
  <1>5. \A j \in Keys : j \in LiveCodes' <=> j \in LiveCodes
    BY <1>1, <1>2, LiveFrame DEF IInv, TypeOK, WriterPcs, store
  <1>6. LiveCodes' = LiveCodes
    BY <1>5 DEF LiveCodes
  <1>7. InFlight(TokenPcs, k) = Code!ClaimsOn(k)
    BY NoneAssumption DEF InFlight, Code!ClaimsOn, RedemptionOf, IInv,
       HandlerBound, HoldsItsOwn, ResponsePcs, Bound, Minted
  <1>8. \A j \in Keys : YieldsOf(j)' = YieldsOf(j)
    BY <1>2 DEF YieldsOf, GrantsOf
  <1> DEFINE claim == [ g \in Handlers |-> RedemptionOf(g) ]
             c == [ code |-> k, params |-> t ]
             yields == [ j \in Keys |-> YieldsOf(j) ]
  <1>9. claim[h] = None /\ claim'[h] = c /\ claim' = [claim EXCEPT ![h] = claim'[h]]
    BY <1>3
  <1>10. c \in [ code : Keys, params : TokenRequests ] /\ c.code = k
    OBVIOUS
  <1>11. raced' = IF Code!ClaimsOn(k) = {} THEN raced ELSE raced \cup {k}
    BY <1>2, <1>7
  <1>12. UNCHANGED << requested, LiveCodes, presented, yields >>
    BY <1>2, <1>6, <1>8
  <1> HIDE DEF claim, yields, c
  <1> QED
    BY <1>4, <1>9, <1>10, <1>11, <1>12 DEF Code!Claim, Code!Claims, claim, yields

\* Removing the response settles the claim: the code dies with it, or a writer
\* of its login is at work and the code is contended.
LEMMA SettleCode ==
  ASSUME IInv, RedemptionInv, NEW h \in Handlers, TokenDeleteDownstream(h)
  PROVE  Code!Settle(h)
  <1> DEFINE p == proc[h]
             t == p.params
  <1>1. PICK k \in Keys : k = p.key
    BY TokenHandlerKey DEF TokenDeleteDownstream, At, TokenPcs
  <1>2. /\ p.pc = "token_delete_downstream"
        /\ requested[k] # None /\ p.response.request = requested[k]
        /\ requested[k] \in StoredRequests /\ t \in TokenRequests
        /\ original[k] = None
    BY <1>1 DEF TokenDeleteDownstream, At, TokenPcs, ResponsePcs, IInv, TypeOK,
       HandlerBound, HoldsItsOwn, Bound, Minted, RedemptionInv
  <1>3. /\ proc' = [proc EXCEPT ![h] = Idle]
        /\ downstream' = [downstream EXCEPT ![k] = None]
        /\ UNCHANGED << original, requested >>
        /\ presented' = presented \cup {k}
        /\ raced' = IF InFlight(WriterPcs, k) # {} THEN raced \cup {k} ELSE raced
    BY <1>1 DEF TokenDeleteDownstream, RemoveDownstream, TokenReply, Finish
  <1> DEFINE g0 == [ code   |-> k, params |-> t, token |-> p.response.token,
                     custom |-> p.response.custom,
                     again  |-> \E g \in granted : g.code = k ]
  <1>4. /\ g0.code = k
        /\ g0.again <=> \E g \in granted : g.code = k
        /\ granted' = IF ValidTokenRequest(t, requested[k])
                      THEN granted \cup {g0} ELSE granted
    <2>1. granted' = IF ValidTokenRequest(t, requested[k])
                      THEN granted \cup {g0} ELSE granted
      BY <1>1, <1>2 DEF TokenDeleteDownstream, TokenReply
    <2> QED
      BY <2>1
  <1> HIDE DEF g0
  <1>5. ValidTokenRequest(t, requested[k]) <=> << t, requested[k] >> \in FittingPairs
    BY <1>2 DEF ValidTokenRequest, FittingPairs
  <1> DEFINE claim  == [ g \in Handlers |-> RedemptionOf(g) ]
             yields == [ j \in Keys |-> YieldsOf(j) ]
  <1>6. /\ claim[h] # None /\ claim[h].code = k /\ claim[h].params = t
        /\ claim' = [claim EXCEPT ![h] = None]
    <2>1. RedemptionOf(h) = [ code |-> k, params |-> t ]
      BY <1>1, <1>2 DEF RedemptionOf, TokenPcs
    <2>2. RedemptionOf(h)' = None
      BY <1>3 DEF RedemptionOf, TokenPcs, Idle, IInv, TypeOK
    <2>3. \A g \in Handlers \ {h} : RedemptionOf(g)' = RedemptionOf(g)
      BY <1>3 DEF RedemptionOf, IInv, TypeOK
    <2>4. [ code |-> k, params |-> t ] # None
      BY <1>2, NoneAssumption
    <2>5. claim[h] = [ code |-> k, params |-> t ]
      BY <2>1
    <2>6. claim' = [claim EXCEPT ![h] = None]
      BY <2>2, <2>3
    <2> QED
      BY <2>4, <2>5, <2>6
  <1>7. \A j \in Keys \ {k} :
          YieldsOf(j)' = YieldsOf(j) /\ (j \in LiveCodes' <=> j \in LiveCodes)
    <2> SUFFICES ASSUME NEW j \in Keys \ {k}
                 PROVE  YieldsOf(j)' = YieldsOf(j) /\ (j \in LiveCodes' <=> j \in LiveCodes)
      OBVIOUS
    <2>1. GrantsOf(j)' = GrantsOf(j)
      BY <1>4 DEF GrantsOf
    <2>2. j \in LiveCodes' <=> j \in LiveCodes
      BY <1>2, <1>3, LiveFrame DEF IInv, TypeOK, Idle, WriterPcs
    <2> QED
      BY <2>1, <2>2 DEF YieldsOf
  <1>8. YieldsOf(k)' = IF ValidTokenRequest(t, requested[k])
                       THEN IF YieldsOf(k) < 2 THEN YieldsOf(k) + 1 ELSE 2
                       ELSE YieldsOf(k)
    <2>1. CASE ValidTokenRequest(t, requested[k])
      <3>1. GrantsOf(k)' = GrantsOf(k) \cup {g0}
        BY <1>4, <2>1 DEF GrantsOf
      <3>2. g0.again <=> GrantsOf(k) # {}
        BY <1>4 DEF GrantsOf
      <3> QED
        BY <2>1, <3>1, <3>2 DEF YieldsOf
    <2>2. CASE ~ValidTokenRequest(t, requested[k])
      BY <1>4, <2>2 DEF YieldsOf, GrantsOf
    <2> QED
      BY <2>1, <2>2
  <1>9. yields' = IF << t, requested[k] >> \in FittingPairs
                  THEN [yields EXCEPT ![k] = IF @ < 2 THEN @ + 1 ELSE 2]
                  ELSE yields
    BY <1>5, <1>7, <1>8
  <1>10. \/ LiveCodes' = LiveCodes \ {k} /\ UNCHANGED raced
         \/ raced' = raced \cup {k} /\ LiveCodes' = LiveCodes
    <2>1. CASE InFlight(WriterPcs, k) = {}
      <3>1. k \notin LiveCodes'
        BY <1>2, <1>3, <2>1, NotInFlight DEF LiveCodes, Dead, InFlight, IInv,
           TypeOK, Idle, WriterPcs
      <3> QED
        BY <1>3, <1>7, <2>1, <3>1 DEF LiveCodes
    <2>2. CASE InFlight(WriterPcs, k) # {}
      <3>1. PICK g \in Handlers \ {h} : proc[g].pc \in WriterPcs /\ proc[g].key = k
        BY <1>2, <2>2 DEF InFlight, WriterPcs
      <3>2. proc'[g] = proc[g]
        BY <1>3 DEF IInv, TypeOK
      <3>3. k \in LiveCodes /\ k \in LiveCodes'
        BY <1>2, <1>3, <3>1, <3>2 DEF LiveCodes, Dead, InFlight
      <3> QED
        BY <1>3, <1>7, <2>2, <3>3 DEF LiveCodes
    <2> QED
      BY <2>1, <2>2
  <1>11. UNCHANGED requested
    BY <1>3
  <1> HIDE DEF claim, yields, p, t
  <1> QED
    BY <1>3, <1>6, <1>9, <1>10, <1>11 DEF Code!Settle, claim, yields

\* A step that changes none of what a code is made of lets codes lapse at most.
LEMMA LapseCode ==
  ASSUME IInv, [Next]_vars,
         UNCHANGED << requested, granted, presented, raced >>,
         \A h \in Handlers : RedemptionOf(h)' = RedemptionOf(h)
  PROVE  Code!Lapse
  <1>1. LiveCodes' \subseteq LiveCodes
    BY LiveShrinks
  <1>2. \A k \in Keys : YieldsOf(k)' = YieldsOf(k)
    BY DEF YieldsOf, GrantsOf
  <1> QED
    BY <1>1, <1>2 DEF Code!Lapse

\* A redemption whose store call throws drops its claim; any other handler that
\* fails holds none.
LEMMA DropCode ==
  ASSUME IInv, [Next]_vars, NEW h \in Handlers, StoreFails(h)
  PROVE  Code!Drop(h) \/ Code!Lapse
  <1>1. /\ proc' = [proc EXCEPT ![h] = Idle]
        /\ UNCHANGED << original, downstream, requested, granted, presented, raced >>
    BY DEF StoreFails, Finish, store, history
  <1>2. \A g \in Handlers \ {h} : RedemptionOf(g)' = RedemptionOf(g)
    BY <1>1 DEF RedemptionOf, IInv, TypeOK
  <1>3. RedemptionOf(h)' = None
    BY <1>1 DEF RedemptionOf, IInv, TypeOK, Idle, TokenPcs
  <1>4. CASE RedemptionOf(h) = None
    BY <1>1, <1>2, <1>3, <1>4, LapseCode
  <1>5. CASE RedemptionOf(h) # None
    <2> DEFINE claim  == [ g \in Handlers |-> RedemptionOf(g) ]
               yields == [ k \in Keys |-> YieldsOf(k) ]
    <2>1. claim[h] # None /\ claim' = [claim EXCEPT ![h] = None]
      <3>1. claim[h] # None
        BY <1>5
      <3>2. claim' = [claim EXCEPT ![h] = None]
        BY <1>2, <1>3
      <3> QED
        BY <3>1, <3>2
    <2>2. yields' = yields
      BY <1>1 DEF YieldsOf, GrantsOf
    <2>3. proc[h].pc \in TokenPcs
      BY <1>5 DEF RedemptionOf
    <2>4. \A k \in Keys : k \in LiveCodes' <=> k \in LiveCodes
      BY <1>1, <2>3, LiveFrame DEF IInv, TypeOK, Idle, WriterPcs, TokenPcs
    <2>5. LiveCodes' = LiveCodes
      BY <2>4 DEF LiveCodes
    <2> HIDE DEF claim, yields
    <2> QED
      BY <1>1, <2>1, <2>2, <2>5 DEF Code!Drop, claim, yields
  <1> QED
    BY <1>4, <1>5

LEMMA CrashCode ==
  ASSUME IInv, Restart
  PROVE  Code!Crash
  <1>1. /\ \A k \in Keys : original'[k] = None /\ downstream'[k] = None
        /\ \A h \in Handlers : proc'[h] = Idle
        /\ UNCHANGED << requested, granted, presented, raced >>
    BY DEF Restart, history
  <1>2. LiveCodes' = {}
    BY <1>1 DEF LiveCodes, Dead, InFlight, Idle, WriterPcs
  <1>3. \A h \in Handlers : RedemptionOf(h)' = None
    BY <1>1 DEF RedemptionOf, Idle, TokenPcs
  <1>4. \A k \in Keys : YieldsOf(k)' = YieldsOf(k)
    BY <1>1 DEF YieldsOf, GrantsOf
  <1> QED
    BY <1>1, <1>2, <1>3, <1>4 DEF Code!Crash

\* A step of a handler that neither is nor becomes a redemption.
LEMMA OtherHandlers ==
  ASSUME IInv, [Next]_vars, NEW h \in Handlers,
         proc[h].pc \notin TokenPcs, proc'[h].pc \notin TokenPcs,
         \A g \in Handlers \ {h} : proc'[g] = proc[g],
         UNCHANGED << requested, granted, presented, raced >>
  PROVE  Code!Lapse
  <1>1. \A g \in Handlers : RedemptionOf(g)' = RedemptionOf(g)
    BY DEF RedemptionOf
  <1> QED
    BY <1>1, LapseCode

LEMMA BeginCode ==
  ASSUME IInv, [Next]_vars, NEW h \in Handlers, Begin(h)
  PROVE  Code!Lapse \/ Code!Claim(h)
  <1>1. CASE \E b \in Browsers, r \in Requests : AuthorizeBegin(h, b, r)
    BY <1>1, OtherHandlers DEF AuthorizeBegin, Start, At, IInv, TypeOK, Idle,
       TokenPcs, history
  <1>2. ASSUME NEW a \in atIdp, TokenValidatedGet(h, a) PROVE Code!Lapse
    <2> DEFINE p == Validated(a, a.key)
    <2>1. p.pc = "validated_store"
      BY DEF Validated, Idle
    <2>2. /\ UNCHANGED << requested, granted, presented, raced >>
          /\ proc[h].pc = "idle"
          /\ proc' = proc \/ proc' = [proc EXCEPT ![h] = p]
      BY <1>2 DEF TokenValidatedGet, Start, At, history
    <2> HIDE DEF p
    <2> QED
      BY <2>1, <2>2, OtherHandlers DEF IInv, TypeOK, TokenPcs
  <1>3. CASE \E b \in Browsers : FinalPagePost(h, b)
    BY <1>3, OtherHandlers DEF FinalPagePost, Start, At, IInv, TypeOK, Idle,
       TokenPcs
  <1> QED
    BY <1>1, <1>2, <1>3, ClaimCode DEF Begin

LEMMA ProceedCode ==
  ASSUME IInv, RedemptionInv, [Next]_vars, NEW h \in Handlers, Proceed(h)
  PROVE  Code!Next
  <1>1. CASE AuthorizeDeleteOriginal(h) \/ GenerateDeleteOriginal(h)
    BY <1>1, OtherHandlers DEF AuthorizeDeleteOriginal, GenerateDeleteOriginal,
       RemoveOriginal, At, GoTo, IInv, TypeOK, Handler, TokenPcs, history, Code!Next
  <1>2. CASE \/ AuthorizeDeleteDownstream(h) \/ CustomStore(h)
             \/ GenerateStore(h) \/ GenerateDeleteDownstream(h)
    BY <1>2, OtherHandlers DEF AuthorizeDeleteDownstream, CustomStore,
       GenerateStore, GenerateDeleteDownstream, At, GoTo, IInv, TypeOK, Handler,
       TokenPcs, history, Code!Next
  <1>3. CASE AuthorizeReply(h) \/ TokenValidatedStore(h) \/ FinalPageReply(h)
    BY <1>3, OtherHandlers DEF AuthorizeReply, TokenValidatedStore,
       FinalPageReply, At, Finish, IInv, TypeOK, Idle, TokenPcs, history, Code!Next
  <1>4. CASE \E k \in Keys : AuthorizeStore(h, k)
    BY <1>4, OpenCode DEF Code!Next
  <1>5. CASE CustomGet(h) \/ GenerateGetOriginal(h)
    BY <1>5, OtherHandlers DEF CustomGet, GenerateGetOriginal, GetOriginal,
       GetDownstream, At, Finish, IInv, TypeOK, Handler, Idle, TokenPcs, history,
       Code!Next
  <1>6. CASE GenerateGetDownstream(h)
    <2>1. /\ UNCHANGED << requested, granted, presented, raced >>
          /\ proc[h].pc = "generate_get_downstream"
      BY <1>6 DEF GenerateGetDownstream, At, history
    <2>2. /\ proc'[h].pc \in {"generate_store", "generate_delete_original", "idle"}
          /\ \A g \in Handlers \ {h} : proc'[g] = proc[g]
      BY <1>6 DEF GenerateGetDownstream, GetDownstream, Finish, IInv, TypeOK,
         Handler, Idle
    <2> QED
      BY <2>1, <2>2, OtherHandlers DEF TokenPcs, Code!Next
  <1>7. CASE TokenDeleteOriginal(h)
    <2>1. /\ UNCHANGED << requested, granted, presented, raced >>
          /\ proc[h].pc = "token_delete_original"
          /\ proc' = [proc EXCEPT ![h].pc = "token_delete_downstream"]
      BY <1>7 DEF TokenDeleteOriginal, RemoveOriginal, At, GoTo, history
    <2>2. \A g \in Handlers : RedemptionOf(g)' = RedemptionOf(g)
      BY <2>1 DEF RedemptionOf, TokenPcs, IInv, TypeOK, Handler
    <2> QED
      BY <2>1, <2>2, LapseCode DEF Code!Next
  <1>8. CASE TokenDeleteDownstream(h)
    BY <1>8, SettleCode DEF Code!Next
  <1> QED
    BY <1>1, <1>2, <1>3, <1>4, <1>5, <1>6, <1>7, <1>8 DEF Proceed

LEMMA CodeStep == IInv /\ RedemptionInv /\ [Next]_vars => Code!Next
  <1> SUFFICES ASSUME IInv, RedemptionInv, [Next]_vars PROVE Code!Next
    OBVIOUS
  <1>1. ASSUME NEW h \in Handlers, Begin(h) \/ Proceed(h) \/ StoreFails(h)
        PROVE  Code!Next
    BY <1>1, BeginCode, ProceedCode, DropCode DEF Code!Next
  <1>2. CASE \/ \E b \in Browsers : BrowserStep(b)
             \/ \E a \in atIdp : IdpFailure(a)
             \/ \E k \in Keys : ExpireOriginal(k) \/ ExpireDownstream(k)
             \/ UNCHANGED vars
    <2>1. UNCHANGED << proc, requested, granted, presented, raced >>
      BY <1>2 DEF BrowserStep, AuthorizeRejected, Challenge, SignIn,
         CookieExpires, SessionExpires, IdpFailure, ExpireOriginal,
         ExpireDownstream, vars, history
    <2>2. \A h \in Handlers : RedemptionOf(h)' = RedemptionOf(h)
      BY <2>1 DEF RedemptionOf
    <2> QED
      BY <2>1, <2>2, LapseCode DEF Code!Next
  <1>3. CASE Restart
    BY <1>3, CrashCode DEF Code!Next
  <1> QED
    BY <1>1, <1>2, <1>3 DEF Next

\* Step by step, in whatever order the requests of the login are handled, the
\* keys behave as codes that are opened once, claimed while they are live and
\* dead once settled: OIDCPipeline implements OneTimeCode.
THEOREM KeysAreCodes == Spec => CodesAreOneTime
  <1>1. Init => Code!Init
    BY CodeInit
  <1>2. IInv /\ RedemptionInv /\ [Next]_vars => [Code!Next]_(Code!vars)
    BY CodeStep
  <1> QED
    BY <1>1, <1>2, Invariance, RedemptionInvariance, PTL
       DEF Spec, CodesAreOneTime, Code!Spec

-----------------------------------------------------------------------------
(* Undisturbed logins *)

LEMMA InitFlowInv == Init => FlowInv
  <1> SUFFICES ASSUME Init PROVE FlowInv
    OBVIOUS
  <1>1. \A h \in Handlers : proc[h].pc = "idle"
    BY DEF Init, Idle
  <1>2. /\ redirects = {} /\ granted = {}
        /\ \A k \in Keys : downstream[k] = None
    BY DEF Init
  <1> QED
    BY <1>1, <1>2 DEF FlowInv, FlowOf, PostsCounted, LoginsCounted, WritesKept,
       HoldsWrites, InFlight, RedirectsOf, GrantsOf, PostPcs, TokenPcs

\* A step that posts and stores nothing under k: entries may go, handlers may
\* end, redemptions may proceed, and a grant may be made of what the login
\* promised.
LEMMA FlowFrame ==
  ASSUME NEW k \in Keys, FlowOf(k),
         original'[k] \in { original[k], None },
         downstream'[k] \in { downstream[k], None },
         requested'[k] = requested[k], logins'[k] = logins[k], posts'[k] = posts[k],
         \A h \in Handlers : proc'[h].pc \in PostPcs \cup TokenPcs /\ proc'[h].key = k =>
           /\ proc[h].key = k
           /\ \/ proc'[h] = proc[h]
              \/ /\ proc[h].pc \in TokenPcs /\ proc'[h].pc \in TokenPcs
                 /\ proc'[h].response = proc[h].response,
         \A r \in redirects' : r.key = k => r \in redirects,
         \A g \in granted' : g.code = k =>
           g \in granted \/ (Undisturbed(k) => g.custom = Full(k))
  PROVE  FlowOf(k)'
  <1>0. TokenPcs \cap PostPcs = {}
    BY DEF TokenPcs, PostPcs
  <1>1. /\ InFlight(PostPcs, k)' \subseteq InFlight(PostPcs, k)
        /\ RedirectsOf(k)' \subseteq RedirectsOf(k)
    BY <1>0 DEF InFlight, RedirectsOf
  <1>2. PostsCounted(k)'
    BY <1>1 DEF FlowOf, PostsCounted
  <1>3. LoginsCounted(k)'
    <2>1. \A h \in InFlight((PostPcs \cup TokenPcs) \ {"custom_get"}, k)' :
            h \in InFlight((PostPcs \cup TokenPcs) \ {"custom_get"}, k)
      BY DEF InFlight, TokenPcs
    <2> QED
      BY <1>1, <2>1 DEF FlowOf, LoginsCounted
  <1>4. ASSUME Undisturbed(k)' PROVE WritesKept(k)'
    <2>1. Undisturbed(k) /\ WritesKept(k) /\ Full(k)' = Full(k)
      BY <1>4 DEF FlowOf, Undisturbed, Full
    <2>2. ASSUME NEW h \in Handlers, proc'[h].key = k PROVE HoldsWrites(proc[h])'
      <3>1. CASE proc'[h] = proc[h]
        BY <3>1, <2>1, <2>2 DEF WritesKept, HoldsWrites, Answered
      <3>2. CASE proc'[h] # proc[h] /\ proc'[h].pc \in PostPcs \cup TokenPcs
        <4>1. /\ proc[h].key = k /\ proc[h].pc \in TokenPcs /\ proc'[h].pc \in TokenPcs
              /\ proc'[h].response = proc[h].response
          BY <3>2, <2>2
        <4>2. proc'[h].response.custom = Full(k)'
          BY <4>1, <2>1 DEF WritesKept, HoldsWrites
        <4> QED
          BY <4>1, <4>2, <2>2, <1>0 DEF HoldsWrites, PostPcs, TokenPcs
      <3>3. CASE proc'[h].pc \notin PostPcs \cup TokenPcs
        BY <3>3 DEF HoldsWrites, PostPcs, TokenPcs
      <3> QED
        BY <3>1, <3>2, <3>3
    <2>3. \A r \in RedirectsOf(k)' : Answered(k, r.code # None)'
      BY <1>1, <2>1 DEF WritesKept, Answered
    <2>4. \A g \in GrantsOf(k)' : g.custom = Full(k)'
      BY <2>1 DEF WritesKept, GrantsOf
    <2> QED
      BY <2>2, <2>3, <2>4 DEF WritesKept
  <1> QED
    BY <1>2, <1>3, <1>4 DEF FlowOf

\* The handlers of a post hold a minted key, those of a redemption as well.
LEMMA FlowKey ==
  ASSUME IInv, NEW h \in Handlers, proc[h].pc \in PostPcs \cup TokenPcs
  PROVE  /\ proc[h].key \in Keys
         /\ requested[proc[h].key] # None
  BY DEF IInv, HandlerBound, HoldsItsOwn, LoginPcs, ResponsePcs, WriterPcs,
     PostPcs, TokenPcs, Minted, Bound

\* The handler of a post goes on.  As long as nothing disturbed the login it is
\* the only one, the client is not answered yet, and what it holds from now on
\* is all there is to show.
LEMMA PostAdvances ==
  ASSUME FlowInv, NEW k \in Keys,
         NEW h \in Handlers, proc[h].key = k, proc[h].pc \in PostPcs,
         \A g \in Handlers \ {h} : proc'[g] = proc[g],
         proc'[h].key = k, proc'[h].pc \in PostPcs,
         logins[k] # 0,
         original'[k] \in { original[k], None },
         \A j \in Keys \ {k} :
           original'[j] = original[j] /\ downstream'[j] = downstream[j],
         UNCHANGED << requested, redirects, granted, logins, posts >>,
         Undisturbed(k) => HoldsWrites(proc[h])'
  PROVE  FlowInv'
  <1>1. ASSUME NEW j \in Keys, j # k PROVE FlowOf(j)'
    <2>1. FlowOf(j)
      BY DEF FlowInv
    <2>2. \A g \in Handlers : proc'[g].key = j => proc'[g] = proc[g]
      BY <1>1
    <2> QED
      BY <1>1, <2>1, <2>2, FlowFrame
  <1>2. FlowOf(k)
    BY DEF FlowInv
  <1>3. h \in InFlight(PostPcs, k) /\ InFlight(PostPcs, k)' = InFlight(PostPcs, k)
    BY DEF InFlight
  <1>4. PostsCounted(k)'
    BY <1>2, <1>3 DEF FlowOf, PostsCounted, RedirectsOf
  <1>5. LoginsCounted(k)'
    BY DEF LoginsCounted
  <1>6. ASSUME Undisturbed(k)' PROVE WritesKept(k)'
    <2>1. Undisturbed(k) /\ WritesKept(k) /\ Full(k)' = Full(k)
      BY <1>2, <1>6 DEF FlowOf, Undisturbed, Full
    <2>2. \A g \in InFlight(PostPcs, k) : g = h
      BY <1>2, <1>3, <2>1 DEF FlowOf, PostsCounted, Undisturbed
    <2>3. RedirectsOf(k) = {}
      BY <1>2, <1>3, <2>1 DEF FlowOf, PostsCounted, Undisturbed
    <2>4. ASSUME NEW g \in Handlers, proc'[g].key = k PROVE HoldsWrites(proc[g])'
      <3>1. CASE g = h
        BY <3>1, <2>1
      <3>2. CASE g # h
        <4>1. proc'[g] = proc[g] /\ proc[g].pc \notin PostPcs /\ HoldsWrites(proc[g])
          BY <3>2, <2>1, <2>2, <2>4 DEF InFlight, WritesKept
        <4> QED
          BY <4>1, <2>1, <2>4 DEF HoldsWrites, PostPcs
      <3> QED
        BY <3>1, <3>2
    <2> QED
      BY <2>1, <2>3, <2>4 DEF WritesKept, RedirectsOf, GrantsOf
  <1> QED
    BY <1>1, <1>4, <1>5, <1>6 DEF FlowInv, FlowOf

\* A step that is none of a post's, of a redemption's or of the provider's.
LEMMA FlowElsewhere ==
  ASSUME FlowInv, UNCHANGED << requested, redirects, granted, logins, posts >>,
         \A k \in Keys : /\ original'[k] \in { original[k], None }
                         /\ downstream'[k] \in { downstream[k], None },
         \A h \in Handlers : proc'[h].pc \in PostPcs \cup TokenPcs => proc'[h] = proc[h]
  PROVE  FlowInv'
  BY FlowFrame DEF FlowInv

\* The other keys when a handler works on k.
LEMMA OtherKeys ==
  ASSUME FlowInv, NEW k \in Keys, NEW h \in Handlers,
         \A g \in Handlers \ {h} : proc'[g] = proc[g],
         proc'[h].pc \in PostPcs \cup TokenPcs => proc'[h].key = k,
         \A j \in Keys \ {k} : /\ original'[j] = original[j]
                               /\ downstream'[j] = downstream[j]
                               /\ requested'[j] = requested[j]
                               /\ logins'[j] = logins[j]
                               /\ posts'[j] = posts[j],
         \A r \in redirects' : r \in redirects \/ r.key = k,
         granted' = granted,
         FlowOf(k)'
  PROVE  FlowInv'
  <1> SUFFICES ASSUME NEW j \in Keys, j # k PROVE FlowOf(j)'
    BY DEF FlowInv
  <1>1. FlowOf(j)
    BY DEF FlowInv
  <1>2. \A g \in Handlers : proc'[g].pc \in PostPcs \cup TokenPcs /\ proc'[g].key = j =>
          proc[g].key = j /\ proc'[g] = proc[g]
    OBVIOUS
  <1> QED
    BY <1>1, <1>2, FlowFrame

LEMMA FinalPagePostFlow ==
  ASSUME IInv, FlowInv, NEW h \in Handlers, NEW b \in Browsers, FinalPagePost(h, b)
  PROVE  FlowInv'
  <1>1. PICK k \in Keys : k = cookie[b]
    BY DEF FinalPagePost, IInv, BrowserBound, Minted
  <1> DEFINE p == [ Idle EXCEPT !.pc = "custom_get", !.browser = b, !.key = k ]
  <1>2. /\ proc' = [proc EXCEPT ![h] = p] /\ proc[h].pc = "idle"
        /\ posts' = Count(posts, k)
        /\ UNCHANGED << original, downstream, requested, redirects, granted, logins >>
    BY <1>1 DEF FinalPagePost, Start, At, store
  <1>3. p.pc = "custom_get" /\ p.key = k
    BY DEF Idle
  <1> HIDE DEF p
  <1>4. /\ proc'[h] = p
        /\ \A g \in Handlers \ {h} : proc'[g] = proc[g]
        /\ \A j \in Keys \ {k} : posts'[j] = posts[j]
        /\ posts'[k] # 0
        /\ posts'[k] # 2 => posts[k] = 0
    BY <1>2 DEF IInv, TypeOK, Count
  <1>5. FlowOf(k)
    BY DEF FlowInv
  <1>6. PostsCounted(k)'
    <2> SUFFICES ASSUME posts'[k] # 2
                 PROVE  /\ \A f, g \in InFlight(PostPcs, k)' : f = g
                        /\ RedirectsOf(k)' = {}
      BY <1>4 DEF PostsCounted
    <2>1. InFlight(PostPcs, k) = {} /\ RedirectsOf(k) = {}
      BY <1>4, <1>5 DEF FlowOf, PostsCounted
    <2>2. \A g \in InFlight(PostPcs, k)' : g = h
      BY <1>4, <2>1 DEF InFlight
    <2> QED
      BY <1>2, <2>1, <2>2 DEF RedirectsOf
  <1>7. LoginsCounted(k)'
    BY <1>2, <1>3, <1>4, <1>5 DEF FlowOf, LoginsCounted, InFlight, RedirectsOf
  <1>8. ASSUME Undisturbed(k)' PROVE WritesKept(k)'
    <2>1. WritesKept(k) /\ Full(k)' = Full(k)
      BY <1>2, <1>4, <1>5, <1>8 DEF FlowOf, Undisturbed, Full
    <2>2. HoldsWrites(proc[h])'
      BY <1>3, <1>4 DEF HoldsWrites, TokenPcs
    <2>3. ASSUME NEW g \in Handlers, g # h, proc'[g].key = k PROVE HoldsWrites(proc[g])'
      BY <1>2, <1>4, <2>1, <2>3 DEF WritesKept, HoldsWrites, Answered
    <2> QED
      BY <1>2, <2>1, <2>2, <2>3 DEF WritesKept, RedirectsOf, GrantsOf, Answered
  <1> QED
    BY <1>2, <1>3, <1>4, <1>6, <1>7, <1>8, OtherKeys DEF FlowOf

\* The first answer of the provider finds nothing stored or answered; any later
\* one disturbs the login.
LEMMA TokenValidatedStoreFlow ==
  ASSUME IInv, FlowInv, NEW h \in Handlers, TokenValidatedStore(h)
  PROVE  FlowInv'
  <1>1. PICK k \in Keys : k = proc[h].key
    BY DEF TokenValidatedStore, At, IInv, HandlerBound, HoldsItsOwn, LoginPcs,
       WriterPcs, Minted
  <1>2. /\ proc' = [proc EXCEPT ![h] = Idle] /\ proc[h].pc = "validated_store"
        /\ logins' = Count(logins, k)
        /\ downstream' = [downstream EXCEPT ![k] = proc[h].response]
        /\ UNCHANGED << original, requested, redirects, granted, posts >>
    BY <1>1 DEF TokenValidatedStore, Finish, At, StoreDownstream
  <1>3. /\ proc'[h].pc = "idle"
        /\ \A g \in Handlers \ {h} : proc'[g] = proc[g]
        /\ \A j \in Keys \ {k} : logins'[j] = logins[j] /\ downstream'[j] = downstream[j]
        /\ logins'[k] # 0
        /\ logins'[k] # 2 => logins[k] = 0
    BY <1>2 DEF IInv, TypeOK, Count, Idle
  <1>4. FlowOf(k)
    BY DEF FlowInv
  <1>5. InFlight(PostPcs, k)' = InFlight(PostPcs, k)
    BY <1>2, <1>3 DEF InFlight, PostPcs
  <1>6. PostsCounted(k)'
    BY <1>2, <1>4, <1>5 DEF FlowOf, PostsCounted, RedirectsOf
  <1>7. LoginsCounted(k)'
    BY <1>3 DEF LoginsCounted
  <1>8. ASSUME Undisturbed(k)' PROVE WritesKept(k)'
    <2>1. WritesKept(k) /\ Full(k)' = Full(k) /\ logins[k] = 0
      BY <1>2, <1>3, <1>4, <1>8 DEF FlowOf, Undisturbed, Full
    <2>2. ASSUME NEW g \in Handlers, proc'[g].key = k PROVE HoldsWrites(proc[g])'
      <3>1. proc'[g].pc \notin (PostPcs \cup TokenPcs) \ {"custom_get"}
        BY <1>3, <1>4, <2>1, <2>2 DEF FlowOf, LoginsCounted, InFlight, PostPcs, TokenPcs
      <3> QED
        BY <3>1 DEF HoldsWrites, PostPcs, TokenPcs
    <2>3. RedirectsOf(k)' = {}
      BY <1>2, <1>4, <2>1 DEF FlowOf, LoginsCounted, RedirectsOf
    <2> QED
      BY <1>2, <2>1, <2>2, <2>3 DEF WritesKept, GrantsOf
  <1> QED
    <2>1. /\ proc'[h].pc \notin PostPcs \cup TokenPcs
          /\ \A j \in Keys \ {k} : /\ original'[j] = original[j]
                                /\ downstream'[j] = downstream[j]
                                /\ requested'[j] = requested[j]
                                /\ logins'[j] = logins[j]
                                /\ posts'[j] = posts[j]
      BY <1>2, <1>3 DEF PostPcs, TokenPcs
    <2>2. FlowOf(k)'
      BY <1>6, <1>7, <1>8 DEF FlowOf
    <2> QED
      BY <1>2, <1>3, <2>1, <2>2, OtherKeys

\* A new key is named by nothing yet.
LEMMA AuthorizeStoreFlow ==
  ASSUME IInv, FlowInv, NEW h \in Handlers, NEW k \in Keys, AuthorizeStore(h, k)
  PROVE  FlowInv'
  <1>1. /\ requested[k] = None
        /\ \A j \in Keys \ {k} : original'[j] = original[j] /\ requested'[j] = requested[j]
        /\ \A g \in Handlers \ {h} : proc'[g] = proc[g]
        /\ proc'[h].pc = "authorize_reply"
        /\ UNCHANGED << downstream, redirects, granted, logins, posts >>
    BY DEF AuthorizeStore, IInv, TypeOK, Handler
  <1>2. downstream[k] = None
    BY <1>1 DEF IInv, StoreBound, Bound, Minted
  <1>3. \A g \in Handlers : proc[g].pc \in PostPcs \cup TokenPcs => proc[g].key # k
    BY <1>1, FlowKey
  <1>4. \A g \in Handlers : proc'[g].pc \in PostPcs \cup TokenPcs => proc'[g].key # k
    BY <1>1, <1>3 DEF PostPcs, TokenPcs
  <1>5. RedirectsOf(k) = {} /\ GrantsOf(k) = {}
    <2>1. \A r \in redirects : r.request = requested[r.key] /\ r.request \in StoredRequests
      BY DEF IInv, TypeOK, RedirectedToOwner
    <2>2. \A g \in granted : requested[g.code] # None
      BY DEF IInv, GrantedToRequester, OwnToken
    <2> QED
      BY <1>1, <2>1, <2>2, NoneAssumption DEF RedirectsOf, GrantsOf
  <1>6. PostsCounted(k)' /\ LoginsCounted(k)'
    BY <1>1, <1>2, <1>4, <1>5 DEF PostsCounted, LoginsCounted, InFlight, RedirectsOf
  <1>7. WritesKept(k)'
    <2>1. ASSUME NEW g \in Handlers, proc'[g].key = k PROVE HoldsWrites(proc[g])'
      BY <1>4, <2>1 DEF HoldsWrites, PostPcs, TokenPcs
    <2> QED
      BY <1>1, <1>5, <2>1 DEF WritesKept, RedirectsOf, GrantsOf
  <1> QED
    BY <1>1, <1>6, <1>7, OtherKeys DEF FlowOf, PostPcs, TokenPcs

\* A read that finds nothing ends the handler, as a failed call of the cache does.
LEMMA HandlerGone ==
  ASSUME IInv, FlowInv, NEW h \in Handlers, Finish(h), UNCHANGED << store, history >>
  PROVE  FlowInv'
  <1>1. \A g \in Handlers : proc'[g].pc \in PostPcs \cup TokenPcs => proc'[g] = proc[g]
    BY DEF Finish, Idle, IInv, TypeOK, PostPcs, TokenPcs
  <1> QED
    BY <1>1, FlowElsewhere DEF store, history

\* What is stored before the provider answers is nothing.
LEMMA StoredAfterLogin ==
  ASSUME FlowInv, NEW k \in Keys, downstream[k] # None
  PROVE  logins[k] # 0
  BY DEF FlowInv, FlowOf, LoginsCounted

LEMMA PostedAfterLogin ==
  ASSUME FlowInv, NEW h \in Handlers, proc[h].key \in Keys,
         proc[h].pc \in (PostPcs \cup TokenPcs) \ {"custom_get"}
  PROVE  logins[proc[h].key] # 0
  BY DEF FlowInv, FlowOf, LoginsCounted, InFlight

LEMMA HandlerWrites ==
  ASSUME FlowInv, NEW h \in Handlers, NEW k \in Keys, proc[h].key = k, Undisturbed(k)
  PROVE  HoldsWrites(proc[h])
  BY DEF FlowInv, FlowOf, WritesKept

LEMMA CustomGetFlow ==
  ASSUME IInv, FlowInv, NEW h \in Handlers, CustomGet(h)
  PROVE  FlowInv'
  <1>1. /\ proc[h].pc = "custom_get" /\ proc[h].pc \in PostPcs
        /\ UNCHANGED << store, history >>
    BY DEF CustomGet, At, PostPcs
  <1>2. PICK k \in Keys : k = proc[h].key
    BY <1>1, FlowKey
  <1>3. CASE downstream[k] = None
    BY <1>1, <1>2, <1>3, HandlerGone DEF CustomGet, GetDownstream
  <1>4. CASE downstream[k] # None
    <2> DEFINE e == [ downstream[k] EXCEPT !.custom = [NoCustom EXCEPT !.page = TRUE] ]
    <2>1. proc' = [proc EXCEPT ![h].pc = "custom_store", ![h].response = e]
      BY <1>2, <1>4 DEF CustomGet, GetDownstream
    <2>2. e.custom.page = TRUE
      BY <1>4 DEF IInv, TypeOK, DownstreamResponses, NoCustom
    <2> HIDE DEF e
    <2>3. /\ proc'[h].pc = "custom_store"
          /\ proc'[h].key = k
          /\ proc'[h].response = e
          /\ \A g \in Handlers \ {h} : proc'[g] = proc[g]
      BY <2>1, <1>2 DEF IInv, TypeOK, Handler
    <2>4. HoldsWrites(proc[h])'
      BY <2>2, <2>3 DEF HoldsWrites, TokenPcs
    <2> QED
      BY <1>1, <1>2, <1>4, <2>3, <2>4, StoredAfterLogin, PostAdvances
         DEF PostPcs, store, history
  <1> QED
    BY <1>3, <1>4

LEMMA CustomStoreFlow ==
  ASSUME IInv, FlowInv, NEW h \in Handlers, CustomStore(h)
  PROVE  FlowInv'
  <1>1. /\ proc[h].pc = "custom_store" /\ proc[h].pc \in PostPcs
        /\ proc' = [proc EXCEPT ![h].pc = "generate_get_original", ![h].response = None]
        /\ UNCHANGED << original, history >>
    BY DEF CustomStore, At, PostPcs
  <1>2. PICK k \in Keys : k = proc[h].key
    BY <1>1, FlowKey
  <1>3. downstream' = [downstream EXCEPT ![k] = proc[h].response]
    BY <1>2 DEF CustomStore, StoreDownstream
  <1>4. /\ proc'[h].pc = "generate_get_original"
        /\ proc'[h].key = k
        /\ \A g \in Handlers \ {h} : proc'[g] = proc[g]
        /\ downstream'[k] = proc[h].response
        /\ \A j \in Keys \ {k} : downstream'[j] = downstream[j]
    BY <1>1, <1>2, <1>3 DEF IInv, TypeOK, Handler
  <1>5. logins[k] # 0
    BY <1>1, <1>2, PostedAfterLogin
  <1>6. ASSUME Undisturbed(k) PROVE HoldsWrites(proc[h])'
    <2>1. downstream'[k].custom.page = TRUE
      BY <1>1, <1>2, <1>4, <1>6, HandlerWrites DEF HoldsWrites
    <2> QED
      BY <1>4, <2>1 DEF HoldsWrites, TokenPcs
  <1> QED
    BY <1>1, <1>2, <1>4, <1>5, <1>6, PostAdvances DEF PostPcs, history

LEMMA GenerateGetOriginalFlow ==
  ASSUME IInv, FlowInv, NEW h \in Handlers, GenerateGetOriginal(h)
  PROVE  FlowInv'
  <1>1. /\ proc[h].pc = "generate_get_original" /\ proc[h].pc \in PostPcs
        /\ UNCHANGED << store, history >>
    BY DEF GenerateGetOriginal, At, PostPcs
  <1>2. PICK k \in Keys : k = proc[h].key
    BY <1>1, FlowKey
  <1>3. CASE original[k] = None
    BY <1>1, <1>2, <1>3, HandlerGone DEF GenerateGetOriginal, GetOriginal
  <1>4. CASE original[k] # None
    <2>1. /\ proc'[h].pc = "generate_get_downstream"
          /\ proc'[h].key = k
          /\ \A g \in Handlers \ {h} : proc'[g] = proc[g]
      BY <1>2, <1>4 DEF GenerateGetOriginal, GetOriginal, IInv, TypeOK, Handler
    <2>2. logins[k] # 0
      BY <1>1, <1>2, PostedAfterLogin
    <2>3. ASSUME Undisturbed(k) PROVE HoldsWrites(proc[h])'
      <3>1. downstream[k] = None \/ downstream[k].custom.page = TRUE
        BY <1>1, <1>2, <2>3, HandlerWrites DEF HoldsWrites
      <3> QED
        BY <1>1, <2>1, <3>1 DEF HoldsWrites, TokenPcs, store
    <2> QED
      BY <1>1, <1>2, <2>1, <2>2, <2>3, PostAdvances DEF PostPcs, store, history
  <1> QED
    BY <1>3, <1>4

\* The generator adds the nonce to what the page left.
LEMMA GenerateGetDownstreamFlow ==
  ASSUME IInv, FlowInv, NEW h \in Handlers, GenerateGetDownstream(h)
  PROVE  FlowInv'
  <1>1. /\ proc[h].pc = "generate_get_downstream" /\ proc[h].pc \in PostPcs
        /\ UNCHANGED << store, history >>
    BY DEF GenerateGetDownstream, At, PostPcs
  <1>2. PICK k \in Keys : k = proc[h].key
    BY <1>1, FlowKey
  <1>3. CASE downstream[k] = None
    BY <1>1, <1>2, <1>3, HandlerGone DEF GenerateGetDownstream, GetDownstream
  <1>4. CASE downstream[k] # None
    <2> DEFINE e == [ downstream[k] EXCEPT !.custom.nonce = proc[h].request.nonce ]
               pc == IF GetsCode(proc[h].request) THEN "generate_store"
                     ELSE "generate_delete_original"
    <2>1. proc' = [proc EXCEPT ![h].pc = pc, ![h].response = e]
      BY <1>2, <1>4 DEF GenerateGetDownstream, GetDownstream
    <2>2. proc[h].request = requested[k]
      BY <1>1, <1>2 DEF IInv, HandlerBound, HoldsItsOwn, RequestPcs
    <2>3. e.custom = [ page |-> downstream[k].custom.page, nonce |-> requested[k].nonce ]
      BY <1>4, <2>2 DEF IInv, TypeOK, DownstreamResponses, Customs
    <2>4. pc \in { "generate_store", "generate_delete_original" }
      OBVIOUS
    <2>5. pc = "generate_store" <=> GetsCode(proc[h].request)
      OBVIOUS
    <2> HIDE DEF e, pc
    <2>6. /\ proc'[h].pc = pc
          /\ proc'[h].key = k
          /\ proc'[h].response = e
          /\ proc'[h].request = proc[h].request
          /\ \A g \in Handlers \ {h} : proc'[g] = proc[g]
      BY <2>1, <1>2 DEF IInv, TypeOK, Handler
    <2>7. logins[k] # 0
      BY <1>1, <1>2, PostedAfterLogin
    <2>8. ASSUME Undisturbed(k) PROVE HoldsWrites(proc[h])'
      <3>1. downstream[k].custom.page = TRUE
        BY <1>1, <1>2, <1>4, <2>8, HandlerWrites DEF HoldsWrites
      <3>2. e.custom = Full(k)'
        BY <1>1, <2>3, <3>1 DEF Full, history
      <3>3. pc # "generate_delete_downstream" /\ pc # "final_reply" /\ pc # "custom_store"
            /\ pc \notin { "generate_get_original", "generate_get_downstream" } \cup TokenPcs
        BY <2>4 DEF TokenPcs
      <3> QED
        BY <2>4, <2>5, <2>6, <3>2, <3>3 DEF HoldsWrites, GetsCode
    <2>9. proc'[h].pc \in PostPcs
      BY <2>4, <2>6 DEF PostPcs
    <2> QED
      BY <1>1, <1>2, <2>6, <2>7, <2>8, <2>9, PostAdvances DEF store, history
  <1> QED
    BY <1>3, <1>4

LEMMA GenerateStoreFlow ==
  ASSUME IInv, FlowInv, NEW h \in Handlers, GenerateStore(h)
  PROVE  FlowInv'
  <1>1. /\ proc[h].pc = "generate_store" /\ proc[h].pc \in PostPcs
        /\ proc' = [proc EXCEPT ![h].pc = "final_reply"]
        /\ UNCHANGED << original, history >>
    BY DEF GenerateStore, GoTo, At, PostPcs
  <1>2. PICK k \in Keys : k = proc[h].key
    BY <1>1, FlowKey
  <1>3. downstream' = [downstream EXCEPT ![k] = proc[h].response]
    BY <1>2 DEF GenerateStore, StoreDownstream
  <1>4. /\ proc'[h].pc = "final_reply"
        /\ proc'[h].key = k
        /\ proc'[h].request = proc[h].request
        /\ \A g \in Handlers \ {h} : proc'[g] = proc[g]
        /\ downstream'[k] = proc[h].response
        /\ \A j \in Keys \ {k} : downstream'[j] = downstream[j]
    BY <1>1, <1>2, <1>3 DEF IInv, TypeOK, Handler
  <1>5. logins[k] # 0
    BY <1>1, <1>2, PostedAfterLogin
  <1>6. ASSUME Undisturbed(k) PROVE HoldsWrites(proc[h])'
    <2>1. GetsCode(proc[h].request) /\ downstream'[k].custom = Full(k)'
      BY <1>1, <1>2, <1>4, <1>6, HandlerWrites DEF HoldsWrites, Full, history
    <2> QED
      BY <1>4, <2>1 DEF HoldsWrites, Answered, GetsCode, TokenPcs
  <1> QED
    BY <1>1, <1>2, <1>4, <1>5, <1>6, PostAdvances DEF PostPcs, history

LEMMA GenerateDeleteOriginalFlow ==
  ASSUME IInv, FlowInv, NEW h \in Handlers, GenerateDeleteOriginal(h)
  PROVE  FlowInv'
  <1>1. /\ proc[h].pc = "generate_delete_original" /\ proc[h].pc \in PostPcs
        /\ proc' = [proc EXCEPT ![h].pc = "generate_delete_downstream"]
        /\ UNCHANGED << downstream, history >>
    BY DEF GenerateDeleteOriginal, RemoveOriginal, GoTo, At, PostPcs
  <1>2. PICK k \in Keys : k = proc[h].key
    BY <1>1, FlowKey
  <1>3. original' = [original EXCEPT ![k] = None]
    BY <1>2 DEF GenerateDeleteOriginal, RemoveOriginal
  <1>4. /\ proc'[h].pc = "generate_delete_downstream"
        /\ proc'[h].key = k
        /\ proc'[h].request = proc[h].request
        /\ \A g \in Handlers \ {h} : proc'[g] = proc[g]
        /\ original'[k] = None
        /\ \A j \in Keys \ {k} : original'[j] = original[j]
    BY <1>1, <1>2, <1>3 DEF IInv, TypeOK, Handler
  <1>5. logins[k] # 0
    BY <1>1, <1>2, PostedAfterLogin
  <1>6. ASSUME Undisturbed(k) PROVE HoldsWrites(proc[h])'
    <2>1. ~GetsCode(proc[h].request)
      BY <1>1, <1>2, <1>6, HandlerWrites DEF HoldsWrites
    <2> QED
      BY <1>4, <2>1 DEF HoldsWrites, GetsCode, TokenPcs
  <1> QED
    BY <1>1, <1>2, <1>4, <1>5, <1>6, PostAdvances DEF PostPcs, history

LEMMA GenerateDeleteDownstreamFlow ==
  ASSUME IInv, FlowInv, NEW h \in Handlers, GenerateDeleteDownstream(h)
  PROVE  FlowInv'
  <1>1. /\ proc[h].pc = "generate_delete_downstream" /\ proc[h].pc \in PostPcs
        /\ proc' = [proc EXCEPT ![h].pc = "final_reply"]
        /\ UNCHANGED << original, history >>
    BY DEF GenerateDeleteDownstream, GoTo, At, PostPcs
  <1>2. PICK k \in Keys : k = proc[h].key
    BY <1>1, FlowKey
  <1>3. downstream' = [downstream EXCEPT ![k] = None]
    BY <1>2 DEF GenerateDeleteDownstream, RemoveDownstream
  <1>4. /\ proc'[h].pc = "final_reply"
        /\ proc'[h].key = k
        /\ proc'[h].request = proc[h].request
        /\ \A g \in Handlers \ {h} : proc'[g] = proc[g]
        /\ downstream'[k] = None
        /\ \A j \in Keys \ {k} : downstream'[j] = downstream[j]
    BY <1>1, <1>2, <1>3 DEF IInv, TypeOK, Handler
  <1>5. logins[k] # 0
    BY <1>1, <1>2, PostedAfterLogin
  <1>6. ASSUME Undisturbed(k) PROVE HoldsWrites(proc[h])'
    <2>1. ~GetsCode(proc[h].request) /\ original[k] = None
      BY <1>1, <1>2, <1>6, HandlerWrites DEF HoldsWrites
    <2> QED
      BY <1>1, <1>4, <2>1 DEF HoldsWrites, Answered, GetsCode, TokenPcs
  <1> QED
    BY <1>1, <1>2, <1>4, <1>5, <1>6, PostAdvances DEF PostPcs, history

\* The client is answered, and the one post of an undisturbed login is over.
LEMMA FinalPageReplyFlow ==
  ASSUME IInv, FlowInv, NEW h \in Handlers, FinalPageReply(h)
  PROVE  FlowInv'
  <1>1. /\ proc[h].pc = "final_reply" /\ proc[h].pc \in PostPcs
        /\ UNCHANGED << original, downstream, requested, granted, logins, posts >>
    BY DEF FinalPageReply, At, PostPcs, store
  <1>2. PICK k \in Keys : k = proc[h].key
    BY <1>1, FlowKey
  <1> DEFINE p == proc[h]
             r == [ browser |-> p.browser, key |-> p.key, request |-> p.request,
                    code    |-> IF GetsCode(p.request) THEN p.key ELSE None,
                    token   |-> IF GetsCode(p.request) THEN None
                                ELSE p.response.token ]
  <1>3. /\ redirects' = redirects \cup {r}
        /\ r.key = k
        /\ r.code = IF GetsCode(proc[h].request) THEN k ELSE None
    BY <1>2 DEF FinalPageReply
  <1> HIDE DEF r, p
  <1>4. /\ proc'[h].pc = "idle"
        /\ \A g \in Handlers \ {h} : proc'[g] = proc[g]
    BY DEF FinalPageReply, Finish, Idle, IInv, TypeOK
  <1>5. r.code # None <=> GetsCode(proc[h].request)
    BY <1>3, NoneAssumption
  <1>6. FlowOf(k)
    BY DEF FlowInv
  <1>7. /\ h \in InFlight(PostPcs, k)
        /\ InFlight(PostPcs, k)' = InFlight(PostPcs, k) \ {h}
    BY <1>1, <1>2, <1>4 DEF InFlight, PostPcs
  <1>8. PostsCounted(k)'
    BY <1>1, <1>6, <1>7 DEF FlowOf, PostsCounted
  <1>9. LoginsCounted(k)'
    BY <1>1, <1>2, PostedAfterLogin DEF LoginsCounted
  <1>10. ASSUME Undisturbed(k)' PROVE WritesKept(k)'
    <2>1. Undisturbed(k) /\ WritesKept(k) /\ Full(k)' = Full(k)
      BY <1>1, <1>6, <1>10 DEF FlowOf, Undisturbed, Full
    <2>2. Answered(k, GetsCode(proc[h].request))
      BY <1>1, <1>2, <2>1 DEF WritesKept, HoldsWrites
    <2>3. \A c \in BOOLEAN : Answered(k, c) => Answered(k, c)'
      BY <1>1, <2>1 DEF Answered
    <2>4. \A q \in RedirectsOf(k)' : Answered(k, q.code # None)
      BY <1>3, <1>5, <2>1, <2>2 DEF WritesKept, RedirectsOf, Answered
    <2>5. \A q \in RedirectsOf(k)' : Answered(k, q.code # None)'
      BY <2>3, <2>4
    <2>6. ASSUME NEW g \in Handlers, proc'[g].key = k PROVE HoldsWrites(proc[g])'
      <3>1. CASE g = h
        BY <3>1, <1>4 DEF HoldsWrites, TokenPcs
      <3>2. CASE g # h
        BY <3>2, <2>6, <2>1, <1>1, <1>4 DEF WritesKept, HoldsWrites, Answered
      <3> QED
        BY <3>1, <3>2
    <2> QED
      BY <1>1, <2>1, <2>5, <2>6 DEF WritesKept, GrantsOf
  <1>11. FlowOf(k)'
    BY <1>8, <1>9, <1>10 DEF FlowOf
  <1>12. proc'[h].pc \notin PostPcs \cup TokenPcs
    BY <1>4 DEF PostPcs, TokenPcs
  <1> QED
    BY <1>1, <1>3, <1>4, <1>11, <1>12, OtherKeys

\* A client that presents a code was sent it, so that the login is complete.
LEMMA TokenBeginFlow ==
  ASSUME IInv, FlowInv, NEW h \in Handlers, NEW k \in Keys, NEW t \in TokenRequests,
         TokenBegin(h, k, t)
  PROVE  FlowInv'
  <1> DEFINE p == [ Idle EXCEPT !.pc = "token_delete_original", !.key = k,
                      !.response = downstream[k], !.params = t ]
  <1>1. /\ proc' = [proc EXCEPT ![h] = p] /\ proc[h].pc = "idle"
        /\ k \in Issued /\ downstream[k] # None
        /\ UNCHANGED << original, downstream, requested, redirects, granted, logins, posts >>
    BY DEF TokenBegin, Start, At, store
  <1>2. p.pc = "token_delete_original" /\ p.key = k /\ p.response = downstream[k]
    BY DEF Idle
  <1> HIDE DEF p
  <1>3. proc'[h] = p /\ \A g \in Handlers \ {h} : proc'[g] = proc[g]
    BY <1>1 DEF IInv, TypeOK
  <1>4. PICK r \in RedirectsOf(k) : r.code # None
    BY <1>1, NoneAssumption DEF Issued, RedirectsOf, IInv, RedirectedToOwner
  <1>5. FlowOf(k)
    BY DEF FlowInv
  <1>6. InFlight(PostPcs, k)' = InFlight(PostPcs, k)
    BY <1>1, <1>2, <1>3 DEF InFlight, PostPcs
  <1>7. PostsCounted(k)'
    BY <1>1, <1>5, <1>6 DEF FlowOf, PostsCounted, RedirectsOf
  <1>8. LoginsCounted(k)'
    BY <1>1, <1>4, <1>5 DEF FlowOf, LoginsCounted
  <1>9. ASSUME Undisturbed(k)' PROVE WritesKept(k)'
    <2>1. Undisturbed(k) /\ WritesKept(k) /\ Full(k)' = Full(k)
      BY <1>1, <1>5, <1>9 DEF FlowOf, Undisturbed, Full
    <2>2. downstream[k].custom = Full(k)
      BY <1>1, <1>4, <2>1 DEF WritesKept, Answered
    <2>3. HoldsWrites(proc[h])'
      BY <1>2, <1>3, <2>1, <2>2 DEF HoldsWrites
    <2>4. ASSUME NEW g \in Handlers, g # h, proc'[g].key = k PROVE HoldsWrites(proc[g])'
      BY <2>4, <2>1, <1>1, <1>3 DEF WritesKept, HoldsWrites, Answered
    <2> QED
      BY <1>1, <2>1, <2>3, <2>4 DEF WritesKept, RedirectsOf, GrantsOf, Answered
  <1>10. FlowOf(k)'
    BY <1>7, <1>8, <1>9 DEF FlowOf
  <1> QED
    BY <1>1, <1>2, <1>3, <1>10, OtherKeys

LEMMA TokenDeleteFlow ==
  ASSUME IInv, FlowInv, NEW h \in Handlers,
         TokenDeleteOriginal(h) \/ TokenDeleteDownstream(h)
  PROVE  FlowInv'
  <1>1. proc[h].pc \in TokenPcs
    BY DEF TokenDeleteOriginal, RemoveOriginal, TokenDeleteDownstream, At, TokenPcs
  <1>2. PICK j \in Keys : j = proc[h].key
    BY <1>1, FlowKey
  <1> SUFFICES ASSUME NEW k \in Keys PROVE FlowOf(k)'
    BY DEF FlowInv
  <1>3. FlowOf(k)
    BY DEF FlowInv
  <1>4. CASE TokenDeleteOriginal(h)
    <2>1. /\ proc' = [proc EXCEPT ![h].pc = "token_delete_downstream"]
          /\ original' = [original EXCEPT ![j] = None]
          /\ UNCHANGED << downstream, history >>
      BY <1>2, <1>4 DEF TokenDeleteOriginal, RemoveOriginal, GoTo
    <2>2. /\ proc'[h].pc \in TokenPcs /\ proc'[h].key = proc[h].key
          /\ proc'[h].response = proc[h].response
          /\ \A g \in Handlers \ {h} : proc'[g] = proc[g]
      BY <2>1 DEF IInv, TypeOK, Handler, TokenPcs
    <2>3. original'[k] \in { original[k], None }
      BY <2>1 DEF IInv, TypeOK
    <2> QED
      BY <1>1, <1>3, <2>1, <2>2, <2>3, FlowFrame DEF history
  <1>5. CASE TokenDeleteDownstream(h)
    <2>1. /\ proc'[h].pc = "idle"
          /\ \A g \in Handlers \ {h} : proc'[g] = proc[g]
          /\ downstream'[k] \in { downstream[k], None }
          /\ UNCHANGED << original, requested, redirects, logins, posts >>
      BY <1>5 DEF TokenDeleteDownstream, TokenReply, RemoveDownstream, Finish, Idle,
         IInv, TypeOK
    <2>2. PICK w : granted' \in { granted, granted \cup {w} }
                   /\ w.code = j /\ w.custom = proc[h].response.custom
      <3> DEFINE v == [ code   |-> proc[h].key, params |-> proc[h].params,
                        token  |-> proc[h].response.token,
                        custom |-> proc[h].response.custom,
                        again  |-> \E g \in granted : g.code = proc[h].key ]
      <3>1. granted' \in { granted, granted \cup {v} }
        BY <1>5 DEF TokenDeleteDownstream, TokenReply
      <3>2. v.code = j /\ v.custom = proc[h].response.custom
        BY <1>2
      <3> QED
        BY <3>1, <3>2
    <2>3. ASSUME j = k, Undisturbed(k) PROVE w.custom = Full(k)
      BY <1>1, <1>2, <2>2, <2>3, HandlerWrites DEF HoldsWrites
    <2>4. \A g \in granted' : g.code = k =>
            g \in granted \/ (Undisturbed(k) => g.custom = Full(k))
      BY <2>2, <2>3
    <2>5. \A g \in Handlers : proc'[g].pc \in PostPcs \cup TokenPcs => proc'[g] = proc[g]
      BY <2>1 DEF PostPcs, TokenPcs
    <2> QED
      BY <1>3, <2>1, <2>4, <2>5, FlowFrame
  <1> QED
    BY <1>4, <1>5

LEMMA FlowIsInductive == IInv /\ FlowInv /\ [Next]_vars => FlowInv'
  <1> SUFFICES ASSUME IInv, FlowInv, [Next]_vars PROVE FlowInv'
    OBVIOUS
  <1> DEFINE Elsewhere ==
        /\ UNCHANGED << requested, redirects, granted, logins, posts >>
        /\ \A k \in Keys : /\ original'[k] \in { original[k], None }
                           /\ downstream'[k] \in { downstream[k], None }
        /\ \A h \in Handlers : proc'[h].pc \in PostPcs \cup TokenPcs => proc'[h] = proc[h]
  <1>1. Elsewhere => FlowInv'
    BY FlowElsewhere
  <1>2. ASSUME NEW h \in Handlers, Begin(h) PROVE FlowInv'
    <2>1. CASE \E b \in Browsers, r \in Requests : AuthorizeBegin(h, b, r)
      BY <1>1, <2>1 DEF AuthorizeBegin, Start, IInv, TypeOK, Idle, PostPcs, TokenPcs,
         store, history
    <2>2. ASSUME NEW a \in atIdp, TokenValidatedGet(h, a) PROVE FlowInv'
      <3> DEFINE p == Validated(a, a.key)
      <3>1. p.pc \notin PostPcs \cup TokenPcs
        BY DEF Validated, Idle, PostPcs, TokenPcs
      <3>2. /\ UNCHANGED << store, history >>
            /\ proc' = proc \/ proc' = [proc EXCEPT ![h] = p]
        BY <2>2 DEF TokenValidatedGet, Start
      <3> HIDE DEF p
      <3> QED
        BY <1>1, <3>1, <3>2 DEF IInv, TypeOK, store, history
    <2> QED
      BY <1>2, <2>1, <2>2, FinalPagePostFlow, TokenBeginFlow DEF Begin
  <1>3. ASSUME NEW h \in Handlers, Proceed(h) PROVE FlowInv'
    <2>1. CASE AuthorizeDeleteOriginal(h)
      BY <1>1, <2>1 DEF AuthorizeDeleteOriginal, RemoveOriginal, GoTo, IInv, TypeOK,
         Handler, PostPcs, TokenPcs, history
    <2>2. CASE AuthorizeDeleteDownstream(h)
      BY <1>1, <2>2 DEF AuthorizeDeleteDownstream, RemoveDownstream, GoTo, IInv,
         TypeOK, Handler, PostPcs, TokenPcs, history
    <2>3. CASE AuthorizeReply(h)
      BY <1>1, <2>3 DEF AuthorizeReply, Finish, IInv, TypeOK, Idle, PostPcs, TokenPcs,
         store, history
    <2> QED
      BY <1>3, <2>1, <2>2, <2>3, AuthorizeStoreFlow, TokenValidatedStoreFlow,
         CustomGetFlow, CustomStoreFlow, GenerateGetOriginalFlow,
         GenerateGetDownstreamFlow, GenerateStoreFlow, GenerateDeleteOriginalFlow,
         GenerateDeleteDownstreamFlow, FinalPageReplyFlow, TokenDeleteFlow DEF Proceed
  <1>4. CASE \/ \E b \in Browsers : BrowserStep(b)
             \/ \E a \in atIdp : IdpFailure(a)
             \/ \E k \in Keys : ExpireOriginal(k) \/ ExpireDownstream(k)
             \/ UNCHANGED vars
    BY <1>1, <1>4 DEF BrowserStep, AuthorizeRejected, Challenge, SignIn,
       CookieExpires, SessionExpires, IdpFailure, ExpireOriginal, ExpireDownstream,
       IInv, TypeOK, vars, store, history
  <1>5. CASE Restart
    BY <1>1, <1>5 DEF Restart, Idle, PostPcs, TokenPcs, history
  <1>6. ASSUME NEW h \in Handlers, StoreFails(h) PROVE FlowInv'
    BY <1>6, HandlerGone DEF StoreFails
  <1> QED
    BY <1>2, <1>3, <1>4, <1>5, <1>6 DEF Next

\* While a login is stored and posted once, each of its writes is in the entry
\* or in the hands of the one handler that makes it.
THEOREM FlowInvariance == Spec => []FlowInv
  <1>1. Init => FlowInv
    BY InitFlowInv
  <1>2. IInv /\ FlowInv /\ [Next]_vars => FlowInv'
    BY FlowIsInductive
  <1> QED
    BY <1>1, <1>2, Invariance, PTL DEF Spec

\* The answers of the identity provider are counted for ever, and a redemption
\* that grants holds a response, which was not there before one.
LEMMA GrantsFollowAnswers ==
  ASSUME IInv, FlowInv, [Next]_vars, \A g \in granted : logins[g.code] # 0
  PROVE  \A g \in granted' : logins'[g.code] # 0
  <1> DEFINE Goal == \A g \in granted' : logins'[g.code] # 0
  <1>1. ASSUME UNCHANGED << granted, logins >> PROVE Goal
    BY <1>1
  <1>2. ASSUME NEW h \in Handlers, TokenValidatedStore(h) PROVE Goal
    <2>1. logins' = Count(logins, proc[h].key) /\ granted' = granted
      BY <1>2 DEF TokenValidatedStore
    <2>2. \A k \in Keys : logins[k] # 0 => logins'[k] # 0
      BY <2>1 DEF Count, IInv, TypeOK
    <2>3. \A g \in granted : g.code \in Keys
      BY DEF IInv, TypeOK
    <2> QED
      BY <2>1, <2>2, <2>3
  <1>3. ASSUME NEW h \in Handlers, TokenDeleteDownstream(h) PROVE Goal
    <2>1. logins[proc[h].key] # 0
      <3>1. Bound(proc[h].key, proc[h].response)
        BY <1>3 DEF TokenDeleteDownstream, At, IInv, HandlerBound, HoldsItsOwn,
           ResponsePcs, TokenPcs
      <3>2. proc[h].pc \in (PostPcs \cup TokenPcs) \ {"custom_get"}
        BY <1>3 DEF TokenDeleteDownstream, At, TokenPcs
      <3> QED
        BY <3>1, <3>2, PostedAfterLogin DEF Bound, Minted
    <2>2. /\ logins' = logins
          /\ \A g \in granted' : g \in granted \/ g.code = proc[h].key
      BY <1>3 DEF TokenDeleteDownstream, TokenReply
    <2> QED
      BY <2>1, <2>2
  <1>4. ASSUME NEW h \in Handlers, Begin(h) PROVE Goal
    BY <1>1, <1>4 DEF Begin, AuthorizeBegin, TokenValidatedGet, FinalPagePost,
       TokenBegin, history
  <1>5. ASSUME NEW h \in Handlers, Proceed(h) PROVE Goal
    BY <1>1, <1>2, <1>3, <1>5 DEF Proceed, AuthorizeDeleteOriginal,
       AuthorizeDeleteDownstream, AuthorizeStore, AuthorizeReply, CustomGet,
       CustomStore, GenerateGetOriginal, GenerateGetDownstream, GenerateStore,
       GenerateDeleteOriginal, GenerateDeleteDownstream, FinalPageReply,
       TokenDeleteOriginal, RemoveOriginal, history
  <1>6. CASE \/ \E h \in Handlers : StoreFails(h)
             \/ \E b \in Browsers : BrowserStep(b)
             \/ \E a \in atIdp : IdpFailure(a)
             \/ \E k \in Keys : ExpireOriginal(k) \/ ExpireDownstream(k)
             \/ Restart
             \/ UNCHANGED vars
    BY <1>1, <1>6 DEF StoreFails, BrowserStep, AuthorizeRejected, Challenge,
       SignIn, CookieExpires, SessionExpires, IdpFailure, ExpireOriginal,
       ExpireDownstream, Restart, history, vars
  <1> QED
    BY <1>4, <1>5, <1>6 DEF Next

\* Whoever is signed in and as whom, clients get codes and tokens only for logins
\* the identity provider has answered.
THEOREM AnswersComeFirst == Spec => []AnsweredLoginsOnly
  <1> DEFINE Granted == \A g \in granted : logins[g.code] # 0
  <1>1. Init => Granted
    BY DEF Init
  <1>2. IInv /\ FlowInv /\ Granted /\ [Next]_vars => Granted'
    BY GrantsFollowAnswers
  <1>3. IInv /\ FlowInv /\ Granted => AnsweredLoginsOnly
    <2> SUFFICES ASSUME IInv, FlowInv, NEW r \in redirects PROVE logins[r.key] # 0
      BY DEF AnsweredLoginsOnly
    <2>1. r.key \in Keys
      BY DEF IInv, TypeOK
    <2> QED
      BY <2>1 DEF FlowInv, FlowOf, LoginsCounted, RedirectsOf
  <1> HIDE DEF Granted
  <1> QED
    BY <1>1, <1>2, <1>3, Invariance, FlowInvariance, PTL DEF Spec

\* No write of an undisturbed login is lost: its code yields the page's entries
\* and the nonce.
THEOREM GrantsAreComplete == Spec => []UndisturbedGrantIsComplete
  <1>1. IInv /\ FlowInv => UndisturbedGrantIsComplete
    <2> SUFFICES ASSUME IInv, FlowInv, NEW g \in granted,
                        logins[g.code] = 1, posts[g.code] = 1
                 PROVE  g.custom = [ page |-> TRUE, nonce |-> requested[g.code].nonce ]
      BY DEF UndisturbedGrantIsComplete
    <2>1. g.code \in Keys
      BY DEF IInv, TypeOK
    <2> QED
      BY <2>1 DEF FlowInv, FlowOf, Undisturbed, WritesKept, GrantsOf, Full
  <1> QED
    BY <1>1, Invariance, FlowInvariance, PTL

\* Tokens on the redirect of an undisturbed login leave nothing in the store.
THEOREM DirectResponsesLeaveNothing == Spec => []DirectResponseLeavesNothing
  <1>1. IInv /\ FlowInv => DirectResponseLeavesNothing
    <2> SUFFICES ASSUME IInv, FlowInv, NEW r \in redirects, r.code = None,
                        logins[r.key] = 1, posts[r.key] = 1
                 PROVE  original[r.key] = None /\ downstream[r.key] = None
      BY DEF DirectResponseLeavesNothing
    <2>1. r.key \in Keys
      BY DEF IInv, TypeOK
    <2> QED
      BY <2>1 DEF FlowInv, FlowOf, Undisturbed, WritesKept, RedirectsOf, Answered
  <1> QED
    BY <1>1, Invariance, FlowInvariance, PTL

=============================================================================
