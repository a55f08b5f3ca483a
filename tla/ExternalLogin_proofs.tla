----------------------- MODULE ExternalLogin_proofs -----------------------
(* Proofs about ExternalLogin, for any browsers, names, requests and ids. *)
EXTENDS ExternalLogin, TLAPS

LEMMA NoneIsNone ==
  /\ None \notin Ids /\ None \notin Browsers /\ None \notin Schemes
  /\ None \notin User /\ None \notin External /\ None \notin Cookie
  BY NoneAssumption

LEMMA IdleIsRequest ==
  /\ Idle \in Request /\ Idle.pc = "idle" /\ Idle.browser = None
  /\ Idle.id = None /\ Idle.sets = None
  BY DEF Idle, Request, Pcs

\* A page that is done keeps its answer and, if it is to be written back, its
\* session.
LEMMA DoneIsRequest ==
  ASSUME NEW q \in Request, NEW pc \in {"commit", "reply"}
  PROVE  /\ Done(q, pc) \in Request
         /\ Done(q, pc).pc = pc /\ Done(q, pc).browser = q.browser
         /\ Done(q, pc).id = None /\ Done(q, pc).sets = q.sets
         /\ pc = "commit" => Done(q, pc).loaded = q.loaded
  BY DEF Done, Request, Pcs

\* A page begins with the session as it is, and with no cookie.
LEMMA PageIsRequest ==
  ASSUME IInv, NEW b \in Browsers, NEW pc \in {"find_name", "commit", "reply"}
  PROVE  /\ Page(b, pc) \in Request
         /\ Page(b, pc).pc = pc /\ Page(b, pc).browser = b
         /\ Page(b, pc).id = None /\ Page(b, pc).sets = None
         /\ pc # "reply" => Page(b, pc).loaded = session[b]
  BY DEF Page, Idle, Request, Pcs, IInv, TypeOK

LEMMA InitIInv == Init => IInv
  BY NoneIsNone, IdleIsRequest DEF Init, IInv, TypeOK, RequestBound, OwnIds,
     UsersAreScratch, ClaimsBound, ClaimsOrCrossed, Whole, SessionBound, SessionValid,
     At, Idle, ScratchPcs, Owns, IsScratch

-----------------------------------------------------------------------------
(* Requests that move on *)

\* A step of request r alone, in which it goes on for the same browser, keeps
\* the scratch user it owns, and has a cookie only with its claims and its key.
LEMMA MovesOn ==
  ASSUME IInv, NEW r \in Requests, NEW q \in Request,
         req' = [req EXCEPT ![r] = q],
         UNCHANGED << users, external, cookie, session, history >>,
         RequestBound(r)',
         q = Idle \/ (q.browser = req[r].browser /\ q.pc \notin {"idle", "evict"}),
         q.id \in {req[r].id, None},
         req[r].pc \in ScratchPcs =>
           q.pc \in ScratchPcs /\ q.id = req[r].id /\ q.name = req[r].name,
         q.pc = "sign_in" => users[q.id].claims \/ q.id \in crossed,
         Whole(q.sets),
         q.pc \in {"idle", "reply"} \/ req[r].loaded \subseteq q.loaded,
         q.pc = "reply" => q.sets = None,
         req[r].pc # "reply",
         q.sets # None => q.sets.id \in q.loaded
  PROVE  IInv'
  <1>0. /\ req \in [Requests -> Request] /\ req'[r] = q
        /\ \A p \in Requests \ {r} : req'[p] = req[p]
    BY DEF IInv, TypeOK
  <1>1. TypeOK'
    BY DEF IInv, TypeOK, history
  <1>2. ASSUME NEW p \in Requests PROVE RequestBound(p)'
    BY <1>0 DEF IInv, RequestBound, Owns, IsScratch, At
  <1>3. OwnIds'
    BY <1>0 DEF IInv, OwnIds
  <1>4. UsersAreScratch'
    BY <1>0 DEF IInv, UsersAreScratch, Owns, IsScratch
  <1>5. ClaimsBound'
    BY <1>0 DEF IInv, ClaimsBound, ClaimsOrCrossed, Whole, At, history
  <1>6. ASSUME NEW b \in Browsers \ disturbed' PROVE SessionBound(b)'
    <2>1. SessionBound(b) /\ UNCHANGED << cookie, session >>
      BY <1>6 DEF IInv, history
    <2>2. \A p \in Requests : req'[p].browser = b => req[p].browser = b
      BY <1>0, NoneIsNone DEF Idle
    <2>3. ASSUME NEW p \in Requests, req'[p].browser = b
          PROVE  /\ ~At(p, "evict")'
                 /\ ~At(p, "reply")' => session[b] \subseteq req'[p].loaded
                 /\ req'[p].sets # None =>
                      req'[p].sets.id \in IF At(p, "reply")' THEN session[b] ELSE req'[p].loaded
      <3>1. CASE p # r
        BY <1>0, <2>1, <2>2, <2>3, <3>1 DEF SessionBound, At
      <3>2. CASE p = r
        <4>1. q # Idle /\ req[r].browser = b
          BY <1>0, <2>2, <2>3, <3>2, NoneIsNone DEF Idle
        <4>2. session[b] \subseteq req[r].loaded
          BY <2>1, <4>1 DEF SessionBound, At
        <4> QED
          BY <1>0, <3>2, <4>1, <4>2 DEF At
      <3> QED
        BY <3>1, <3>2
    <2> QED
      BY <2>1, <2>2, <2>3 DEF SessionBound, SessionValid
  <1> QED
    BY <1>1, <1>2, <1>3, <1>4, <1>5, <1>6 DEF IInv

LEMMA EvictStep ==
  ASSUME IInv, NEW r \in Requests, Evict(r)
  PROVE  IInv'
  <1> DEFINE q == [req[r] EXCEPT !.pc = "commit", !.out = AuthSchemes]
  <1>1. /\ req[r] \in Request /\ RequestBound(r) /\ At(r, "evict")
        /\ req' = [req EXCEPT ![r] = q]
    BY DEF Evict, IInv, TypeOK
  <1>2. /\ q \in Request /\ q.pc = "commit" /\ q.browser = req[r].browser
        /\ q.id = req[r].id /\ q.sets = req[r].sets /\ q.loaded = req[r].loaded
    BY <1>1 DEF Request, Pcs, AuthSchemes
  <1>3. req[r].sets = None /\ req[r].pc \notin ScratchPcs
    BY <1>1 DEF RequestBound, At, ScratchPcs
  <1>4. RequestBound(r)'
    <2>1. req'[r] = q
      BY <1>1 DEF IInv, TypeOK
    <2> HIDE DEF q
    <2> QED
      BY <1>1, <1>2, <1>3, <2>1 DEF RequestBound, At, ScratchPcs
  <1> HIDE DEF q
  <1> QED
    BY <1>1, <1>2, <1>3, <1>4, MovesOn DEF Evict, At, Whole, ScratchPcs

LEMMA FindNameStep ==
  ASSUME IInv, NEW r \in Requests, FindName(r)
  PROVE  IInv'
  <1>0. PICK pc \in {"insert", "refused"} : req' = [req EXCEPT ![r].pc = pc]
    BY DEF FindName, GoTo
  <1> DEFINE q == [req[r] EXCEPT !.pc = pc]
  <1>1. /\ req[r] \in Request /\ RequestBound(r) /\ At(r, "find_name")
        /\ req' = [req EXCEPT ![r] = q]
    BY <1>0 DEF FindName, IInv, TypeOK
  <1>2. /\ q \in Request /\ q.pc = pc /\ q.browser = req[r].browser
        /\ q.id = req[r].id /\ q.sets = req[r].sets /\ q.loaded = req[r].loaded
        /\ q.name = req[r].name /\ q.scheme = req[r].scheme
    BY <1>1 DEF Request, Pcs
  <1>3. req[r].sets = None /\ req[r].pc \notin ScratchPcs
    BY <1>1 DEF RequestBound, At, ScratchPcs
  <1>4. RequestBound(r)'
    <2>1. req'[r] = q
      BY <1>1 DEF IInv, TypeOK
    <2> HIDE DEF q
    <2> QED
      BY <1>1, <1>2, <1>3, <2>1 DEF RequestBound, At, ScratchPcs
  <1> HIDE DEF q
  <1> QED
    BY <1>1, <1>2, <1>3, <1>4, MovesOn DEF FindName, At, Whole, ScratchPcs

LEMMA RefusedStep ==
  ASSUME IInv, NEW r \in Requests, Refused(r)
  PROVE  IInv'
  <1>1. /\ req[r] \in Request /\ RequestBound(r) /\ At(r, "refused")
        /\ UNCHANGED << users, external, cookie, session, history >>
    BY DEF Refused, IInv, TypeOK
  <1>2. req[r].sets = None /\ req[r].pc \notin ScratchPcs
    BY <1>1 DEF RequestBound, At, ScratchPcs
  <1>3. CASE req[r].scheme = None
    <2>1. PICK q \in Request : q = Idle /\ req' = [req EXCEPT ![r] = q]
      BY <1>3, IdleIsRequest DEF Refused
    <2>2. req'[r] = Idle
      BY <2>1 DEF IInv, TypeOK
    <2>3. RequestBound(r)'
      BY <2>2, IdleIsRequest DEF RequestBound, At, ScratchPcs
    <2> QED
      BY <1>1, <1>2, <2>1, <2>3, MovesOn, IdleIsRequest DEF At, Whole
  <1>4. CASE req[r].scheme # None
    <2>1. PICK pc \in {"commit", "reply"} :
            req' = [req EXCEPT ![r] = [Done(req[r], pc) EXCEPT !.out = AuthSchemes]]
      BY <1>4 DEF Refused
    <2> DEFINE q == [Done(req[r], pc) EXCEPT !.out = AuthSchemes]
    <2>2. /\ q \in Request /\ q.pc = pc /\ q.browser = req[r].browser
          /\ q.id = None /\ q.sets = req[r].sets
          /\ pc = "commit" => q.loaded = req[r].loaded
      BY <1>1, DoneIsRequest DEF Request, AuthSchemes
    <2>3. req'[r] = q
      BY <2>1 DEF IInv, TypeOK
    <2> HIDE DEF q
    <2>4. RequestBound(r)'
      BY <1>1, <1>2, <1>4, <2>2, <2>3 DEF RequestBound, At, ScratchPcs
    <2>5. req' = [req EXCEPT ![r] = q]
      BY <2>1 DEF q
    <2> QED
      BY <1>1, <1>2, <2>2, <2>4, <2>5, MovesOn DEF At, Whole
  <1> QED
    BY <1>3, <1>4

LEMMA AddClaimsStep ==
  ASSUME IInv, NEW r \in Requests, AddClaims(r)
  PROVE  IInv'
  <1>0. PICK first \in Named(req[r].name) :
          req' = [req EXCEPT ![r].pc = IF first = req[r].id THEN "save_claims" ELSE "sign_in"]
    BY DEF AddClaims, GoTo
  <1> DEFINE pc == IF first = req[r].id THEN "save_claims" ELSE "sign_in"
             q  == [req[r] EXCEPT !.pc = pc]
  <1>1. /\ req[r] \in Request /\ RequestBound(r) /\ At(r, "add_claims")
        /\ req' = [req EXCEPT ![r] = q] /\ req'[r] = q
    BY <1>0 DEF AddClaims, IInv, TypeOK
  <1>2. /\ q \in Request /\ q.pc = pc /\ q.browser = req[r].browser
        /\ q.id = req[r].id /\ q.sets = req[r].sets /\ q.loaded = req[r].loaded
        /\ q.name = req[r].name /\ q.scheme = req[r].scheme
    BY <1>1 DEF Request, Pcs, ScratchPcs
  <1>3. req[r].sets = None /\ Owns(r, req[r].id) /\ req[r].id \in Ids
    BY <1>1 DEF RequestBound, At, ScratchPcs
  <1>4. RequestBound(r)'
    <2> HIDE DEF q
    <2> QED
      BY <1>1, <1>2, <1>3 DEF AddClaims, RequestBound, At, ScratchPcs, Owns, IsScratch
  <1>5. first # req[r].id => req[r].id \in crossed
    BY <1>1, <1>3 DEF Named, Owns, IsScratch, IInv, ClaimsBound, Request
  <1> HIDE DEF q
  <1> QED
    BY <1>1, <1>2, <1>3, <1>4, <1>5, MovesOn DEF AddClaims, At, Whole, ScratchPcs

LEMMA SignInStep ==
  ASSUME IInv, NEW r \in Requests, SignIn(r)
  PROVE  IInv'
  <1> DEFINE id == req[r].id
             c  == [ id |-> id, claims |-> users[id].claims, local |-> FALSE ]
             q  == [SignedIn(req[r]) EXCEPT !.loaded = @ \cup {id}]
  <1>1. /\ req[r] \in Request /\ RequestBound(r) /\ At(r, "sign_in")
        /\ req' = [req EXCEPT ![r] = q] /\ req'[r] = q
    BY DEF SignIn, IInv, TypeOK
  <1>2. /\ id \in Ids /\ users[id] \in User /\ Owns(r, id) /\ req[r].browser # None
    BY <1>1, NoneIsNone DEF RequestBound, At, ScratchPcs, Owns, IsScratch, IInv, TypeOK, Request
  <1>3. c \in Cookie /\ c.id = id /\ ~c.local /\ c # None /\ Whole(c)
    <2>1. c \in Cookie /\ c.id = id /\ ~c.local
      BY <1>2 DEF Cookie, User
    <2>2. users[id].claims \/ id \in crossed
      BY <1>1 DEF IInv, ClaimsBound
    <2> QED
      BY <2>1, <2>2, NoneIsNone DEF Whole
  <1>4. /\ q \in Request /\ q.pc = "delete" /\ q.browser = req[r].browser
        /\ q.id = id /\ q.name = req[r].name /\ q.sets = c
        /\ q.loaded = req[r].loaded \cup {id}
    <2> HIDE DEF c
    <2>1. SignedIn(req[r]) = [req[r] EXCEPT !.pc = "delete", !.out = AuthSchemes, !.sets = c]
      BY DEF SignedIn, c
    <2> QED
      BY <1>1, <1>2, <1>3, <2>1 DEF Request, Pcs, ScratchPcs, AuthSchemes
  <1> HIDE DEF q, c
  <1>5. RequestBound(r)'
    BY <1>1, <1>2, <1>3, <1>4 DEF SignIn, RequestBound, At, ScratchPcs, Owns, IsScratch
  <1> QED
    BY <1>1, <1>2, <1>3, <1>4, <1>5, MovesOn DEF SignIn, At, ScratchPcs

LEMMA RegisterBeginStep ==
  ASSUME IInv, NEW r \in Requests, NEW n \in Names, RegisterBegin(r, n)
  PROVE  IInv'
  <1> DEFINE q == [Idle EXCEPT !.pc = "find_name", !.name = n]
  <1>1. /\ RequestBound(r) /\ At(r, "idle") /\ req' = [req EXCEPT ![r] = q] /\ req'[r] = q
    BY DEF RegisterBegin, IInv, TypeOK
  <1>2. /\ q \in Request /\ q.pc = "find_name" /\ q.browser = None /\ q.name = n
        /\ q.scheme = None /\ q.id = None /\ q.sets = None
    BY DEF Idle, Request, Pcs
  <1> HIDE DEF q
  <1>3. RequestBound(r)'
    BY <1>1, <1>2 DEF RequestBound, At, ScratchPcs
  <1>4. req \in [Requests -> Request] /\ \A p \in Requests \ {r} : req'[p] = req[p]
    BY <1>1 DEF IInv, TypeOK
  <1>5. UNCHANGED << users, external, cookie, session, history >>
    BY DEF RegisterBegin
  <1>6. TypeOK'
    BY <1>1, <1>2, <1>5 DEF IInv, TypeOK, history
  <1>7. ASSUME NEW p \in Requests PROVE RequestBound(p)'
    BY <1>3, <1>4, <1>5 DEF IInv, RequestBound, Owns, IsScratch, At
  <1>8. OwnIds'
    BY <1>1, <1>2, <1>4 DEF IInv, OwnIds
  <1>9. UsersAreScratch'
    BY <1>1, <1>4, <1>5 DEF IInv, UsersAreScratch, Owns, IsScratch, At, ScratchPcs
  <1>10. ClaimsBound'
    BY <1>1, <1>2, <1>4, <1>5 DEF IInv, ClaimsBound, ClaimsOrCrossed, Whole, At, history
  <1>11. ASSUME NEW b \in Browsers \ disturbed' PROVE SessionBound(b)'
    <2>1. SessionBound(b) /\ \A p \in Requests : req'[p].browser = b => p # r
      BY <1>1, <1>2, <1>5, <1>11, NoneIsNone DEF IInv, history
    <2> QED
      BY <1>4, <1>5, <2>1 DEF SessionBound, SessionValid, At
  <1> QED
    BY <1>6, <1>7, <1>8, <1>9, <1>10, <1>11 DEF IInv

-----------------------------------------------------------------------------
(* Pages that begin *)

\* What a page knows when it begins, and the answer that is already sure.
Beginning(page, b) ==
  /\ page \in Request /\ page.browser = b /\ page.id = None
  /\ page.pc \in {"find_name", "commit", "reply"}
  /\ page.pc = "find_name" => page.name \in Names /\ page.scheme # None /\ page.sets = None
  /\ page.pc # "reply" => session[b] \subseteq page.loaded
  /\ Whole(page.sets)
  /\ page.sets # None =>
       page.sets.id \in IF page.pc = "reply" THEN session[b] ELSE page.loaded

\* A page that begins in an undisturbed browser is the only one there, whether
\* or not it deletes a local account.
LEMMA PassesStep ==
  ASSUME IInv, NEW r \in Requests, NEW b \in Browsers, NEW page,
         Beginning(page, b), Passes(r, b, page),
         users' \in [Ids -> User \cup {None}],
         \A i \in Ids : \/ users'[i] = users[i]
                        \/ users[i] # None /\ users[i].local /\ users'[i] = None,
         UNCHANGED << external, cookie, session, crossed >>
  PROVE  IInv'
  <1>0. /\ req \in [Requests -> Request] /\ req' = [req EXCEPT ![r] = page] /\ req'[r] = page
        /\ \A p \in Requests \ {r} : req'[p] = req[p]
        /\ req[r].pc = "idle" /\ SessionValid(b)
        /\ disturbed' = IF \E q \in Requests : req[q].browser = b
                        THEN disturbed \cup {b} ELSE disturbed
    BY DEF IInv, TypeOK, Passes, At
  <1>1. TypeOK'
    BY <1>0 DEF IInv, TypeOK, Beginning
  <1>2. ASSUME NEW p \in Requests PROVE RequestBound(p)'
    <2>1. CASE p = r
      BY <1>0, <2>1, NoneIsNone DEF RequestBound, At, ScratchPcs, Beginning
    <2>2. CASE p # r
      <3>1. req'[p] = req[p] /\ RequestBound(p)
        BY <1>0, <2>2 DEF IInv
      <3>2. req[p].pc \in ScratchPcs => Owns(p, req[p].id)'
        BY <3>1 DEF RequestBound, Owns, IsScratch
      <3> QED
        BY <3>1, <3>2 DEF RequestBound, At
    <2> QED
      BY <2>1, <2>2
  <1>3. OwnIds'
    BY <1>0 DEF IInv, OwnIds, Beginning
  <1>4. UsersAreScratch'
    <2> SUFFICES ASSUME AllBringTokens, NEW i \in Ids, IsScratch(i)'
                 PROVE  \E p \in Requests : Owns(p, i)'
      BY DEF UsersAreScratch, AllBringTokens
    <2>1. users'[i] = users[i] /\ IsScratch(i)
      BY DEF IsScratch
    <2>2. PICK p \in Requests : Owns(p, i)
      BY <2>1 DEF IInv, UsersAreScratch
    <2>3. p # r
      BY <1>0, <2>2 DEF Owns, ScratchPcs
    <2> QED
      BY <1>0, <2>1, <2>2, <2>3 DEF Owns, IsScratch
  <1>5. ClaimsBound'
    <2>1. \A i \in Ids : users'[i] # None => users'[i] = users[i] /\ users[i] # None
      OBVIOUS
    <2>2. \A p \in Requests : At(p, "sign_in")' =>
            users'[req'[p].id].claims \/ req'[p].id \in crossed
      <3> SUFFICES ASSUME NEW p \in Requests, At(p, "sign_in")'
                   PROVE  users'[req'[p].id].claims \/ req'[p].id \in crossed
        OBVIOUS
      <3>1. req'[p] = req[p] /\ At(p, "sign_in")
        BY <1>0 DEF At, Beginning
      <3>2. req[p].id \in Ids /\ IsScratch(req[p].id)
        BY <3>1 DEF IInv, RequestBound, Owns, At, ScratchPcs
      <3>3. users'[req[p].id] = users[req[p].id]
        BY <3>2 DEF IsScratch
      <3> QED
        BY <3>1, <3>3 DEF IInv, ClaimsBound
    <2>3. \A p \in Requests : Whole(req[p].sets)'
      BY <1>0 DEF IInv, ClaimsBound, Whole, Beginning
    <2> QED
      BY <2>1, <2>2, <2>3 DEF IInv, TypeOK, ClaimsBound, ClaimsOrCrossed
  <1>6. ASSUME NEW c \in Browsers \ disturbed' PROVE SessionBound(c)'
    <2>1. SessionBound(c) /\ (c = b => \A q \in Requests : req[q].browser # b)
      BY <1>0, <1>6 DEF IInv
    <2>2. CASE c # b
      <3>1. \A p \in Requests : req'[p].browser = c => p # r
        BY <1>0, <2>2 DEF Beginning
      <3> QED
        BY <1>0, <2>1, <3>1 DEF SessionBound, SessionValid, At
    <2>3. CASE c = b
      <3>1. \A p \in Requests : req'[p].browser = b => p = r
        BY <1>0, <2>1, <2>3
      <3> QED
        BY <1>0, <2>1, <2>3, <3>1 DEF SessionBound, SessionValid, At, Beginning
    <2> QED
      BY <2>2, <2>3
  <1> QED
    BY <1>1, <1>2, <1>3, <1>4, <1>5, <1>6 DEF IInv

LEMMA CallbackBeginStep ==
  ASSUME IInv, NEW r \in Requests, NEW b \in Browsers, CallbackBegin(r, b)
  PROVE  IInv'
  <1> DEFINE page == [Page(b, "find_name") EXCEPT !.name = external[b].name,
                                                  !.scheme = external[b].scheme]
  <1>1. external[b].name \in Names /\ external[b].scheme \in Schemes
    BY DEF CallbackBegin, IInv, TypeOK, External
  <1>2. Passes(r, b, page) /\ UNCHANGED << users, external, cookie, session, crossed >>
    BY DEF CallbackBegin
  <1>3. /\ page \in Request /\ page.pc = "find_name" /\ page.browser = b /\ page.id = None
        /\ page.name \in Names /\ page.scheme \in Schemes /\ page.sets = None
        /\ page.loaded = session[b]
    <2>1. page = [Idle EXCEPT !.pc = "find_name", !.browser = b, !.loaded = session[b],
                              !.name = external[b].name, !.scheme = external[b].scheme]
      BY DEF Page, Idle
    <2> HIDE DEF page
    <2> QED
      BY <1>1, <2>1 DEF Idle, Request, Pcs, IInv, TypeOK
  <1> HIDE DEF page
  <1>4. Beginning(page, b)
    BY <1>3, NoneIsNone DEF Beginning, Whole
  <1> QED
    BY <1>2, <1>4, PassesStep DEF IInv, TypeOK

LEMMA MessageBeginStep ==
  ASSUME IInv, NEW r \in Requests, NEW b \in Browsers, MessageBegin(r, b)
  PROVE  IInv'
  <1> DEFINE page == Page(b, "commit")
  <1>1. Beginning(page, b)
    BY PageIsRequest DEF Beginning, Whole
  <1>2. Passes(r, b, page) /\ UNCHANGED << users, external, cookie, session, crossed >>
    BY DEF MessageBegin
  <1> HIDE DEF page
  <1> QED
    BY <1>1, <1>2, PassesStep DEF IInv, TypeOK

LEMMA LoginPageStep ==
  ASSUME IInv, NEW r \in Requests, NEW b \in Browsers, LoginPage(r, b)
  PROVE  IInv'
  <1>0. PICK pc \in {"commit", "reply"} :
          Passes(r, b, [Page(b, pc) EXCEPT !.out = { "external" }])
    BY DEF LoginPage
  <1> DEFINE page == [Page(b, pc) EXCEPT !.out = { "external" }]
  <1>1. Beginning(page, b)
    BY PageIsRequest DEF Beginning, Whole, Request, AuthSchemes
  <1>2. Passes(r, b, page) /\ UNCHANGED << users, external, cookie, session, crossed >>
    BY <1>0 DEF LoginPage
  <1> HIDE DEF page
  <1> QED
    BY <1>1, <1>2, PassesStep DEF IInv, TypeOK

LEMMA RenewCookieStep ==
  ASSUME IInv, NEW r \in Requests, NEW b \in Browsers, RenewCookie(r, b)
  PROVE  IInv'
  <1>0. PICK pc \in {"commit", "reply"} : Passes(r, b, [Page(b, pc) EXCEPT !.sets = cookie[b]])
    BY DEF RenewCookie
  <1> DEFINE page == [Page(b, pc) EXCEPT !.sets = cookie[b]]
  <1>1. cookie[b] \in Cookie /\ cookie[b].id \in session[b] /\ Whole(cookie[b])
    BY <1>0 DEF RenewCookie, Passes, SessionValid, IInv, TypeOK, ClaimsBound, ClaimsOrCrossed, Whole
  <1>2. /\ page \in Request /\ page.pc = pc /\ page.browser = b /\ page.id = None
        /\ page.sets = cookie[b]
        /\ pc # "reply" => page.loaded = session[b]
    BY <1>1, PageIsRequest DEF Request
  <1>3. Passes(r, b, page) /\ UNCHANGED << users, external, cookie, session, crossed >>
    BY <1>0 DEF RenewCookie
  <1> HIDE DEF page
  <1>4. Beginning(page, b)
    BY <1>1, <1>2 DEF Beginning
  <1> QED
    BY <1>3, <1>4, PassesStep DEF IInv, TypeOK

LEMMA LocalSignInStep ==
  ASSUME IInv, NEW r \in Requests, NEW b \in Browsers, LocalSignIn(r, b)
  PROVE  IInv'
  <1>0. PICK i \in Ids :
          Passes(r, b, [Page(b, "commit") EXCEPT
                          !.loaded = @ \cup {i},
                          !.sets = [ id |-> i, claims |-> FALSE, local |-> TRUE ]])
    BY DEF LocalSignIn
  <1> DEFINE c    == [ id |-> i, claims |-> FALSE, local |-> TRUE ]
             page == [Page(b, "commit") EXCEPT !.loaded = @ \cup {i}, !.sets = c]
  <1>1. c \in Cookie /\ c.id = i /\ c.local
    BY DEF Cookie
  <1>2. Passes(r, b, page) /\ UNCHANGED << users, external, cookie, session, crossed >>
    BY <1>0 DEF LocalSignIn
  <1> HIDE DEF c
  <1>3. /\ page \in Request /\ page.pc = "commit" /\ page.browser = b /\ page.id = None
        /\ page.sets = c /\ page.loaded = session[b] \cup {i}
    <2>1. session[b] \cup {i} \in SUBSET Ids
      BY DEF IInv, TypeOK
    <2>2. page = [Idle EXCEPT !.pc = "commit", !.browser = b,
                              !.loaded = session[b] \cup {i}, !.sets = c]
      BY DEF Page, Idle
    <2> HIDE DEF page
    <2> QED
      BY <1>1, <2>1, <2>2 DEF Idle, Request, Pcs
  <1> HIDE DEF page
  <1>4. Beginning(page, b)
    BY <1>1, <1>3 DEF Beginning, Whole
  <1> QED
    BY <1>2, <1>4, PassesStep DEF IInv, TypeOK

LEMMA DeleteAccountStep ==
  ASSUME IInv, NEW r \in Requests, NEW b \in Browsers, NEW i \in Ids, DeleteAccount(r, b, i)
  PROVE  IInv'
  <1> DEFINE page == [Page(b, "reply") EXCEPT !.out = AuthSchemes]
  <1>1. Beginning(page, b)
    BY PageIsRequest DEF Beginning, Whole, Request, AuthSchemes
  <1>2. Passes(r, b, page) /\ UNCHANGED << external, cookie, session, crossed >>
    BY DEF DeleteAccount
  <1>3. /\ users' \in [Ids -> User \cup {None}]
        /\ \A j \in Ids : \/ users'[j] = users[j]
                          \/ users[j] # None /\ users[j].local /\ users'[j] = None
    BY DEF DeleteAccount, IInv, TypeOK
  <1> HIDE DEF page
  <1> QED
    BY <1>1, <1>2, <1>3, PassesStep

\* A page that is refused the session was refused it after a disturbance.
LEMMA CheckFailsStep ==
  ASSUME IInv, NEW r \in Requests, NEW b \in Browsers, CheckFails(r, b)
  PROVE  IInv'
  <1> DEFINE q == [Idle EXCEPT !.pc = "evict", !.browser = b]
  <1>1. q \in Request /\ q.pc = "evict" /\ q.browser = b /\ q.id = None /\ q.sets = None
    BY DEF Idle, Request, Pcs
  <1>2. /\ req \in [Requests -> Request] /\ req[r].pc = "idle" /\ req'[r] = q
        /\ \A p \in Requests \ {r} : req'[p] = req[p]
        /\ req' = [req EXCEPT ![r] = q]
        /\ UNCHANGED << users, external, cookie, session, history >>
    BY DEF CheckFails, At, IInv, TypeOK
  <1>3. b \in disturbed
    BY DEF CheckFails, IInv, SessionBound
  <1> HIDE DEF q
  <1>4. TypeOK'
    BY <1>1, <1>2 DEF IInv, TypeOK, history
  <1>5. ASSUME NEW p \in Requests PROVE RequestBound(p)'
    <2>1. CASE p = r
      BY <1>1, <1>2, <2>1, NoneIsNone DEF RequestBound, At, ScratchPcs
    <2>2. CASE p # r
      BY <1>2, <2>2 DEF IInv, RequestBound, At, Owns, IsScratch
    <2> QED
      BY <2>1, <2>2
  <1>6. OwnIds'
    BY <1>1, <1>2 DEF IInv, OwnIds
  <1>7. UsersAreScratch'
    BY <1>2 DEF IInv, UsersAreScratch, Owns, IsScratch, ScratchPcs
  <1>8. ClaimsBound'
    BY <1>1, <1>2 DEF IInv, ClaimsBound, ClaimsOrCrossed, Whole, At, history
  <1>9. ASSUME NEW c \in Browsers \ disturbed' PROVE SessionBound(c)'
    <2>1. SessionBound(c) /\ \A p \in Requests : req'[p].browser = c => p # r
      BY <1>1, <1>2, <1>3, <1>9 DEF IInv, history
    <2> QED
      BY <1>2, <2>1 DEF SessionBound, SessionValid, At
  <1> QED
    BY <1>4, <1>5, <1>6, <1>7, <1>8, <1>9 DEF IInv

-----------------------------------------------------------------------------
(* The store, the session and the answer *)

LEMMA InsertStep ==
  ASSUME IInv, NEW r \in Requests, Insert(r)
  PROVE  IInv'
  <1> DEFINE name == req[r].name
             user == [ name |-> name, claims |-> FALSE, local |-> req[r].scheme = None ]
  <1>0. PICK i \in Ids :
          /\ Fresh(i)
          /\ users' = [users EXCEPT ![i] = user]
          /\ \E next \in Inserted(req[r], i) : req' = [req EXCEPT ![r] = next]
          /\ crossed' = IF Named(name) = {} THEN crossed \ {i}
                        ELSE crossed \cup Named(name) \cup {i}
    BY DEF Insert
  <1>1. /\ req[r] \in Request /\ RequestBound(r) /\ req[r].pc = "insert"
        /\ name \in Names /\ req[r].sets = None
        /\ req \in [Requests -> Request]
    BY DEF Insert, At, IInv, TypeOK, RequestBound, ScratchPcs
  <1>2. PICK next \in Inserted(req[r], i) : req' = [req EXCEPT ![r] = next]
    BY <1>0
  <1>3. /\ next \in Request /\ next.sets = None
        /\ next.pc \in {"idle", "add_claims", "commit", "reply"}
        /\ next.pc = "idle" => next = Idle /\ req[r].scheme = None
        /\ next.pc # "idle" => next.browser = req[r].browser /\ req[r].scheme # None
        /\ IF next.pc = "add_claims" THEN next.id = i /\ next.name = name ELSE next.id = None
        /\ next.pc \notin {"idle", "reply"} => next.loaded = req[r].loaded
        /\ next.pc \in {"commit", "reply"} => req[r].scheme \notin TokenSchemes
    <2>1. CASE req[r].scheme = None
      BY <2>1, <1>2, IdleIsRequest DEF Inserted
    <2>2. CASE req[r].scheme # None /\ req[r].scheme \in TokenSchemes
      <3> DEFINE q == [req[r] EXCEPT !.pc = "add_claims", !.id = i]
      <3>1. next = q
        BY <1>2, <2>2 DEF Inserted
      <3>2. /\ q \in Request /\ q.sets = None /\ q.pc = "add_claims" /\ q.id = i
            /\ q.browser = req[r].browser /\ q.name = name /\ q.loaded = req[r].loaded
        BY <1>1 DEF Request, Pcs, ScratchPcs
      <3> HIDE DEF q
      <3> QED
        BY <2>2, <3>1, <3>2
    <2>3. CASE req[r].scheme # None /\ req[r].scheme \notin TokenSchemes
      <3>1. PICK pc \in {"commit", "reply"} : next = Done(req[r], pc)
        BY <1>2, <2>3 DEF Inserted
      <3> QED
        BY <1>1, <2>3, <3>1, DoneIsRequest
    <2> QED
      BY <2>1, <2>2, <2>3
  <1>4. req'[r] = next /\ \A q \in Requests \ {r} : req'[q] = req[q]
    BY <1>1, <1>2
  <1>5. user \in User /\ user.name = name /\ user.local = (req[r].scheme = None)
    BY <1>1 DEF User
  <1> HIDE DEF user
  <1>6. /\ \A j \in Ids \ {i} : users'[j] = users[j]
        /\ users'[i] = user /\ user # None /\ users[i] = None
        /\ users' \in [Ids -> User \cup {None}]
    BY <1>0, <1>5, NoneIsNone DEF Fresh, IInv, TypeOK
  <1>7. \A q \in Requests : req[q].id # i /\ ~Keeps(req[q].sets, i)
    BY <1>0 DEF Fresh
  <1>8. UNCHANGED << external, cookie, session, disturbed >>
    BY DEF Insert
  <1>9. \A j \in Ids \ {i} : j \in crossed => j \in crossed'
    BY <1>0
  <1>10. TypeOK'
    BY <1>0, <1>2, <1>3, <1>6, <1>8 DEF Named, IInv, TypeOK
  <1>11. ASSUME NEW q \in Requests PROVE RequestBound(q)'
    <2>1. CASE q = r /\ next.pc = "add_claims"
      BY <1>1, <1>3, <1>4, <1>5, <1>6, <2>1
      DEF RequestBound, At, Owns, IsScratch, ScratchPcs
    <2>2. CASE q = r /\ next.pc # "add_claims"
      <3>1. next.pc # "idle" => next.browser # None
        BY <1>1, <1>3 DEF RequestBound, At
      <3> QED
        BY <1>3, <1>4, <2>2, <3>1, IdleIsRequest DEF RequestBound, At, ScratchPcs
    <2>3. CASE q # r
      <3>1. req'[q] = req[q] /\ RequestBound(q)
        BY <1>4, <2>3 DEF IInv
      <3>2. req[q].pc \in ScratchPcs => Owns(q, req[q].id)'
        BY <1>6, <1>7, <3>1 DEF RequestBound, Owns, IsScratch
      <3> QED
        BY <3>1, <3>2 DEF RequestBound, At
    <2> QED
      BY <2>1, <2>2, <2>3
  <1>12. OwnIds'
    <2>1. next.id \in {i, None}
      BY <1>3
    <2> QED
      BY <1>4, <1>7, <2>1 DEF IInv, OwnIds
  <1>13. UsersAreScratch'
    <2> SUFFICES ASSUME AllBringTokens, NEW j \in Ids, IsScratch(j)'
                 PROVE  \E q \in Requests : Owns(q, j)'
      BY DEF UsersAreScratch, AllBringTokens
    <2>1. CASE j = i
      <3>1. req[r].scheme # None /\ req[r].scheme \in TokenSchemes
        BY <1>1, <1>5, <1>6, <2>1 DEF IsScratch, AllBringTokens, Request
      <3>2. next.pc = "add_claims"
        BY <1>3, <3>1
      <3> QED
        BY <1>3, <1>4, <1>5, <1>6, <2>1, <3>2 DEF Owns, IsScratch, ScratchPcs
    <2>2. CASE j # i
      <3>1. PICK q \in Requests : Owns(q, j)
        BY <1>6, <2>2 DEF IInv, UsersAreScratch, IsScratch
      <3>2. q # r
        BY <1>1, <3>1 DEF Owns, ScratchPcs
      <3> QED
        BY <1>4, <1>6, <2>2, <3>1, <3>2 DEF Owns, IsScratch
    <2> QED
      BY <2>1, <2>2
  <1>14. ClaimsBound'
    <2>1. \A j, k \in Ids \ crossed' :
            users'[j] # None /\ users'[k] # None /\ users'[j].name = users'[k].name => j = k
      BY <1>0, <1>5, <1>6 DEF Named, IInv, ClaimsBound
    <2>2. \A j \in Ids \ crossed', k \in crossed' :
            users'[j] # None /\ users'[k] # None => users'[j].name # users'[k].name
      BY <1>0, <1>5, <1>6 DEF Named, IInv, TypeOK, ClaimsBound
    <2>3. \A q \in Requests : At(q, "sign_in")' =>
            users'[req'[q].id].claims \/ req'[q].id \in crossed'
      <3> SUFFICES ASSUME NEW q \in Requests, At(q, "sign_in")'
                   PROVE  users'[req'[q].id].claims \/ req'[q].id \in crossed'
        OBVIOUS
      <3>1. req'[q] = req[q] /\ req[q].pc = "sign_in"
        BY <1>3, <1>4 DEF At
      <3>2. req[q].id \in Ids \ {i}
        BY <1>7, <3>1 DEF IInv, RequestBound, ScratchPcs
      <3> QED
        BY <1>6, <1>9, <3>1, <3>2 DEF At, IInv, ClaimsBound
    <2>4. ASSUME NEW q \in Requests PROVE Whole(req[q].sets)'
      <3>1. CASE q = r
        BY <1>3, <1>4, <3>1 DEF Whole
      <3>2. CASE q # r
        <4>1. req'[q] = req[q] /\ Whole(req[q].sets) /\ req[q] \in Request
          BY <1>1, <1>4, <3>2 DEF IInv, ClaimsBound
        <4>2. req[q].sets # None => req[q].sets.id \in Ids \ {i}
          BY <1>7, <4>1 DEF Keeps, Request, Cookie
        <4> QED
          BY <1>9, <4>1, <4>2 DEF Whole
      <3> QED
        BY <3>1, <3>2
    <2>5. ClaimsOrCrossed'
      <3>1. \A b \in Browsers : cookie[b] # None => cookie[b].id \in Ids \ {i}
        BY <1>0 DEF Fresh, Keeps, IInv, TypeOK, Cookie
      <3> QED
        BY <1>8, <1>9, <3>1 DEF IInv, ClaimsBound, ClaimsOrCrossed
    <2> QED
      BY <2>1, <2>2, <2>3, <2>4, <2>5 DEF ClaimsBound
  <1>15. ASSUME NEW b \in Browsers \ disturbed' PROVE SessionBound(b)'
    <2>1. SessionBound(b)
      BY <1>8, <1>15 DEF IInv
    <2>2. next.browser = b => next.pc # "idle" /\ next.browser = req[r].browser
      BY <1>3, <1>15, NoneIsNone, IdleIsRequest
    <2>3. \A q \in Requests : req'[q].browser = b => req[q].browser = b
      BY <1>4, <2>2
    <2>4. next.browser = b => next.pc = "reply" \/ session[b] \subseteq next.loaded
      <3> SUFFICES ASSUME next.browser = b, next.pc # "reply"
                   PROVE  session[b] \subseteq next.loaded
        OBVIOUS
      <3>1. next.loaded = req[r].loaded /\ req[r].browser = b
        BY <1>3, <2>2
      <3> QED
        BY <1>1, <2>1, <3>1 DEF SessionBound, At
    <2>5. ASSUME NEW q \in Requests, req'[q].browser = b
          PROVE  /\ ~At(q, "evict")'
                 /\ ~At(q, "reply")' => session[b] \subseteq req'[q].loaded
                 /\ req'[q].sets # None =>
                      req'[q].sets.id \in IF At(q, "reply")' THEN session[b] ELSE req'[q].loaded
      <3>1. CASE q = r
        BY <1>3, <1>4, <2>4, <2>5, <3>1 DEF At
      <3>2. CASE q # r
        BY <1>4, <2>1, <2>5, <3>2 DEF SessionBound, At
      <3> QED
        BY <3>1, <3>2
    <2> QED
      BY <1>8, <2>1, <2>3, <2>5 DEF SessionBound, SessionValid
  <1> QED
    BY <1>10, <1>11, <1>12, <1>13, <1>14, <1>15 DEF IInv

LEMMA SaveClaimsStep ==
  ASSUME IInv, NEW r \in Requests, SaveClaims(r)
  PROVE  IInv'
  <1> DEFINE id == req[r].id
             u  == [users[id] EXCEPT !.claims = TRUE]
             q  == [req[r] EXCEPT !.pc = "sign_in"]
  <1>1. /\ req \in [Requests -> Request] /\ RequestBound(r) /\ req[r].pc = "save_claims"
        /\ users' = [users EXCEPT ![id] = u] /\ req' = [req EXCEPT ![r] = q]
        /\ UNCHANGED << external, cookie, session, history >>
    BY DEF SaveClaims, GoTo, At, IInv, TypeOK
  <1>2. id \in Ids /\ users[id] \in User /\ Owns(r, id) /\ req[r].sets = None
    BY <1>1 DEF RequestBound, Owns, IsScratch, ScratchPcs, At, IInv, TypeOK
  <1>3. /\ u \in User /\ u.name = users[id].name /\ u.local = users[id].local /\ u.claims
        /\ u # None
    BY <1>2, NoneIsNone DEF User
  <1>4. /\ q \in Request /\ q.pc = "sign_in" /\ q.browser = req[r].browser /\ q.id = id
        /\ q.name = req[r].name /\ q.scheme = req[r].scheme /\ q.sets = req[r].sets
        /\ q.loaded = req[r].loaded
    BY <1>1 DEF Request, Pcs, ScratchPcs
  <1> HIDE DEF u, q
  <1>5. /\ users' \in [Ids -> User \cup {None}] /\ users'[id] = u
        /\ \A j \in Ids : /\ users'[j] = None <=> users[j] = None
                          /\ users[j] # None => /\ users'[j].name = users[j].name
                                                /\ users'[j].local = users[j].local
                                                /\ users[j].claims => users'[j].claims
    BY <1>1, <1>2, <1>3, NoneIsNone DEF IInv, TypeOK, Owns, IsScratch
  <1>6. req'[r] = q /\ \A p \in Requests \ {r} : req'[p] = req[p]
    BY <1>1
  <1>7. TypeOK'
    BY <1>1, <1>4, <1>5 DEF IInv, TypeOK, history
  <1>8. ASSUME NEW p \in Requests PROVE RequestBound(p)'
    <2>1. req[p].pc \in ScratchPcs => Owns(p, req[p].id)'
      BY <1>1, <1>2, <1>4, <1>5, <1>6 DEF IInv, RequestBound, Owns, IsScratch, ScratchPcs
    <2> QED
      BY <1>1, <1>2, <1>4, <1>6, <2>1 DEF IInv, RequestBound, At, ScratchPcs
  <1>9. OwnIds'
    BY <1>4, <1>6 DEF IInv, OwnIds
  <1>10. UsersAreScratch'
    BY <1>1, <1>2, <1>4, <1>5, <1>6 DEF IInv, UsersAreScratch, Owns, IsScratch, ScratchPcs
  <1>11. ClaimsBound'
    <2>1. ASSUME NEW p \in Requests, At(p, "sign_in")'
          PROVE  users'[req'[p].id].claims \/ req'[p].id \in crossed
      <3>1. CASE p = r
        BY <1>3, <1>4, <1>5, <1>6, <3>1
      <3>2. CASE p # r
        <4>1. req'[p] = req[p] /\ req[p].pc = "sign_in"
          BY <1>6, <2>1, <3>2 DEF At
        <4>2. req[p].id \in Ids /\ users[req[p].id] # None
          BY <4>1 DEF IInv, RequestBound, Owns, IsScratch, ScratchPcs
        <4> QED
          BY <1>5, <4>1, <4>2 DEF IInv, ClaimsBound, At
      <3> QED
        BY <3>1, <3>2
    <2>2. \A p \in Requests : Whole(req[p].sets)'
      BY <1>1, <1>2, <1>4, <1>6 DEF IInv, ClaimsBound, Whole, history
    <2> QED
      BY <1>1, <1>5, <2>1, <2>2 DEF IInv, TypeOK, ClaimsBound, ClaimsOrCrossed, history
  <1>12. ASSUME NEW b \in Browsers \ disturbed' PROVE SessionBound(b)'
    BY <1>1, <1>4, <1>6, <1>12 DEF IInv, SessionBound, SessionValid, At, history
  <1> QED
    BY <1>7, <1>8, <1>9, <1>10, <1>11, <1>12 DEF IInv

LEMMA DeleteStep ==
  ASSUME IInv, NEW r \in Requests, Delete(r)
  PROVE  IInv'
  <1> DEFINE id == req[r].id
             q  == Done(req[r], "commit")
  <1>1. /\ req \in [Requests -> Request] /\ RequestBound(r) /\ req[r].pc = "delete"
        /\ users' = [users EXCEPT ![id] = None] /\ req' = [req EXCEPT ![r] = q]
        /\ UNCHANGED << external, cookie, session, history >>
    BY DEF Delete, At, IInv, TypeOK
  <1>2. id \in Ids /\ req[r].browser # None
    BY <1>1, NoneIsNone DEF RequestBound, At, ScratchPcs
  <1>3. /\ q \in Request /\ q.pc = "commit" /\ q.browser = req[r].browser /\ q.id = None
        /\ q.sets = req[r].sets /\ q.loaded = req[r].loaded
    BY <1>1, DoneIsRequest
  <1> HIDE DEF q
  <1>4. req'[r] = q /\ \A p \in Requests \ {r} : req'[p] = req[p] /\ req[p].id # id
    BY <1>1, <1>2, NoneIsNone DEF IInv, OwnIds
  <1>5. /\ users' \in [Ids -> User \cup {None}]
        /\ \A j \in Ids : users'[j] = IF j = id THEN None ELSE users[j]
    BY <1>1, <1>2 DEF IInv, TypeOK
  <1>6. TypeOK'
    BY <1>1, <1>3, <1>5 DEF IInv, TypeOK, history
  <1>7. ASSUME NEW p \in Requests PROVE RequestBound(p)'
    <2>1. CASE p = r
      BY <1>1, <1>2, <1>3, <1>4, <2>1 DEF RequestBound, At, ScratchPcs
    <2>2. CASE p # r
      BY <1>4, <1>5, <2>2 DEF IInv, RequestBound, Owns, IsScratch, At
    <2> QED
      BY <2>1, <2>2
  <1>8. OwnIds'
    BY <1>3, <1>4 DEF IInv, OwnIds
  <1>9. UsersAreScratch'
    BY <1>4, <1>5 DEF IInv, UsersAreScratch, Owns, IsScratch
  <1>10. ClaimsBound'
    <2>1. ASSUME NEW p \in Requests, At(p, "sign_in")'
          PROVE  users'[req'[p].id].claims \/ req'[p].id \in crossed
      <3>1. p # r /\ req'[p] = req[p] /\ req[p].pc = "sign_in" /\ req[p].id # id
        BY <1>3, <1>4, <2>1 DEF At
      <3>2. req[p].id \in Ids
        BY <3>1 DEF IInv, RequestBound, ScratchPcs
      <3> QED
        BY <1>5, <3>1, <3>2 DEF IInv, ClaimsBound, At
    <2>2. \A p \in Requests : Whole(req[p].sets)'
      BY <1>1, <1>3, <1>4 DEF IInv, ClaimsBound, Whole, history
    <2> QED
      BY <1>1, <1>5, <2>1, <2>2 DEF IInv, TypeOK, ClaimsBound, ClaimsOrCrossed, history
  <1>11. ASSUME NEW b \in Browsers \ disturbed' PROVE SessionBound(b)'
    BY <1>1, <1>3, <1>4, <1>11 DEF IInv, SessionBound, SessionValid, At, history
  <1> QED
    BY <1>6, <1>7, <1>8, <1>9, <1>10, <1>11 DEF IInv

LEMMA CommitStep ==
  ASSUME IInv, NEW r \in Requests, Commit(r)
  PROVE  IInv'
  <1> DEFINE q == Done(req[r], "reply")
  <1>1. /\ req \in [Requests -> Request] /\ RequestBound(r) /\ req[r].pc = "commit"
        /\ session' = [session EXCEPT ![req[r].browser] = req[r].loaded]
        /\ req' = [req EXCEPT ![r] = q]
        /\ UNCHANGED << users, external, cookie, history >>
    BY DEF Commit, At, IInv, TypeOK
  <1>2. /\ q \in Request /\ q.pc = "reply" /\ q.browser = req[r].browser /\ q.id = None
        /\ q.sets = req[r].sets
    BY <1>1, DoneIsRequest
  <1> HIDE DEF q
  <1>3. /\ req'[r] = q /\ \A p \in Requests \ {r} : req'[p] = req[p]
        /\ req[r].browser \in Browsers /\ req[r].loaded \subseteq Ids
    BY <1>1 DEF RequestBound, At, Request
  <1>4. TypeOK'
    BY <1>1, <1>2, <1>3 DEF IInv, TypeOK, history
  <1>5. ASSUME NEW p \in Requests PROVE RequestBound(p)'
    <2>1. CASE p = r
      BY <1>2, <1>3, <2>1, NoneIsNone DEF RequestBound, At, ScratchPcs
    <2>2. CASE p # r
      BY <1>1, <1>3, <2>2 DEF IInv, RequestBound, Owns, IsScratch, At
    <2> QED
      BY <2>1, <2>2
  <1>6. OwnIds'
    BY <1>2, <1>3 DEF IInv, OwnIds
  <1>7. UsersAreScratch'
    BY <1>1, <1>3 DEF IInv, UsersAreScratch, Owns, IsScratch, ScratchPcs
  <1>8. ClaimsBound'
    BY <1>1, <1>2, <1>3 DEF IInv, ClaimsBound, ClaimsOrCrossed, Whole, At, history
  <1>9. ASSUME NEW b \in Browsers \ disturbed' PROVE SessionBound(b)'
    <2>1. SessionBound(b) /\ session \in [Browsers -> SUBSET Ids]
      BY <1>1, <1>9 DEF IInv, TypeOK, history
    <2>2. CASE req[r].browser # b
      BY <1>1, <1>2, <1>3, <2>1, <2>2 DEF SessionBound, SessionValid, At
    <2>3. CASE req[r].browser = b
      <3>1. session'[b] = req[r].loaded /\ session[b] \subseteq req[r].loaded
        BY <1>1, <2>1, <2>3 DEF SessionBound, At
      <3>2. \A p \in Requests : req'[p].browser = b => p = r
        BY <1>2, <1>3, <2>1, <2>3 DEF SessionBound
      <3>3. req[r].sets # None => req[r].sets.id \in req[r].loaded
        BY <1>1, <2>1, <2>3 DEF SessionBound, At
      <3> QED
        BY <1>1, <1>2, <1>3, <2>1, <3>1, <3>2, <3>3 DEF SessionBound, SessionValid, At
    <2> QED
      BY <2>2, <2>3
  <1> QED
    BY <1>4, <1>5, <1>6, <1>7, <1>8, <1>9 DEF IInv

LEMMA ReplyStep ==
  ASSUME IInv, NEW r \in Requests, Reply(r)
  PROVE  IInv'
  <1> DEFINE b == req[r].browser
  <1>1. /\ req \in [Requests -> Request] /\ RequestBound(r) /\ req[r].pc = "reply"
        /\ req' = [req EXCEPT ![r] = Idle]
        /\ \E c \in {cookie[b], req[r].sets} : cookie' = [cookie EXCEPT ![b] = c]
        /\ \E e \in {external[b], None} : external' = [external EXCEPT ![b] = e]
        /\ UNCHANGED << users, session, history >>
    BY DEF Reply, At, IInv, TypeOK
  <1>2. /\ req'[r] = Idle /\ \A p \in Requests \ {r} : req'[p] = req[p]
        /\ b \in Browsers /\ req[r].sets \in Cookie \cup {None}
    BY <1>1 DEF RequestBound, At, Request
  <1>3. PICK c \in {cookie[b], req[r].sets} : cookie' = [cookie EXCEPT ![b] = c]
    BY <1>1
  <1>4. TypeOK'
    BY <1>1, <1>2, IdleIsRequest DEF IInv, TypeOK, history
  <1>5. ASSUME NEW p \in Requests PROVE RequestBound(p)'
    <2>1. CASE p = r
      BY <1>2, <2>1, IdleIsRequest DEF RequestBound, At, ScratchPcs
    <2>2. CASE p # r
      BY <1>1, <1>2, <2>2 DEF IInv, RequestBound, Owns, IsScratch, At
    <2> QED
      BY <2>1, <2>2
  <1>6. OwnIds'
    BY <1>2, IdleIsRequest DEF IInv, OwnIds
  <1>7. UsersAreScratch'
    BY <1>1, <1>2 DEF IInv, UsersAreScratch, Owns, IsScratch, ScratchPcs
  <1>8. ClaimsBound'
    <2>1. ClaimsOrCrossed'
      BY <1>1, <1>3 DEF IInv, TypeOK, ClaimsBound, ClaimsOrCrossed, Whole, history
    <2> QED
      BY <1>1, <1>2, <2>1, IdleIsRequest DEF IInv, ClaimsBound, Whole, At, history
  <1>9. ASSUME NEW d \in Browsers \ disturbed' PROVE SessionBound(d)'
    <2>1. SessionBound(d)
      BY <1>1, <1>9 DEF IInv, history
    <2>2. \A p \in Requests : req'[p].browser = d => p # r
      BY <1>2, <1>9, IdleIsRequest, NoneIsNone
    <2>3. SessionValid(d)'
      <3>1. CASE d = b
        BY <1>1, <1>3, <2>1, <3>1 DEF SessionBound, SessionValid, At, IInv, TypeOK
      <3>2. CASE d # b
        BY <1>1, <1>3, <2>1, <3>2 DEF SessionBound, SessionValid, IInv, TypeOK
      <3> QED
        BY <3>1, <3>2
    <2> QED
      BY <1>1, <1>2, <2>1, <2>2, <2>3 DEF SessionBound, At
  <1> QED
    BY <1>4, <1>5, <1>6, <1>7, <1>8, <1>9 DEF IInv

-----------------------------------------------------------------------------
(* The environment *)

LEMMA ProviderAnswerStep ==
  ASSUME IInv, NEW b \in Browsers, NEW n \in Names, NEW s \in Schemes, ProviderAnswer(b, n, s)
  PROVE  IInv'
  <1>1. TypeOK'
    BY DEF IInv, TypeOK, ProviderAnswer, history, External
  <1>2. ASSUME NEW q \in Requests PROVE RequestBound(q)'
    BY <1>2 DEF IInv, ProviderAnswer, At, RequestBound, Owns, IsScratch
  <1>3. OwnIds'
    BY DEF IInv, ProviderAnswer, OwnIds
  <1>4. UsersAreScratch'
    BY DEF IInv, ProviderAnswer, Owns, IsScratch, UsersAreScratch
  <1>5. ClaimsBound'
    BY DEF IInv, ProviderAnswer, At, history, ClaimsBound, ClaimsOrCrossed, Whole
  <1>6. ASSUME NEW b0 \in Browsers \ disturbed' PROVE SessionBound(b0)'
    BY <1>6 DEF IInv, ProviderAnswer, At, history, SessionBound, SessionValid
  <1> QED
    BY <1>1, <1>2, <1>3, <1>4, <1>5, <1>6 DEF IInv

LEMMA SignOutStep ==
  ASSUME IInv, NEW b \in Browsers, SignOut(b)
  PROVE  IInv'
  <1>1. TypeOK'
    BY DEF IInv, TypeOK, SignOut, history
  <1>2. ASSUME NEW q \in Requests PROVE RequestBound(q)'
    BY <1>2 DEF IInv, SignOut, At, RequestBound, Owns, IsScratch
  <1>3. OwnIds'
    BY DEF IInv, SignOut, OwnIds
  <1>4. UsersAreScratch'
    BY DEF IInv, SignOut, Owns, IsScratch, UsersAreScratch
  <1>5. ClaimsBound'
    BY DEF IInv, SignOut, At, history, ClaimsBound, ClaimsOrCrossed, Whole
  <1>6. ASSUME NEW b0 \in Browsers \ disturbed' PROVE SessionBound(b0)'
    BY <1>6 DEF IInv, SignOut, At, history, SessionBound, SessionValid
  <1> QED
    BY <1>1, <1>2, <1>3, <1>4, <1>5, <1>6 DEF IInv

LEMMA SessionExpiresStep ==
  ASSUME IInv, NEW b \in Browsers, SessionExpires(b)
  PROVE  IInv'
  <1>1. TypeOK'
    BY DEF IInv, TypeOK, SessionExpires
  <1>2. ASSUME NEW q \in Requests PROVE RequestBound(q)'
    BY <1>2 DEF IInv, SessionExpires, At, RequestBound, Owns, IsScratch
  <1>3. OwnIds'
    BY DEF IInv, SessionExpires, OwnIds
  <1>4. UsersAreScratch'
    BY DEF IInv, SessionExpires, Owns, IsScratch, UsersAreScratch
  <1>5. ClaimsBound'
    BY DEF IInv, SessionExpires, At, ClaimsBound, ClaimsOrCrossed, Whole
  <1>6. ASSUME NEW b0 \in Browsers \ disturbed' PROVE SessionBound(b0)'
    BY <1>6 DEF IInv, SessionExpires, At, SessionBound, SessionValid
  <1> QED
    BY <1>1, <1>2, <1>3, <1>4, <1>5, <1>6 DEF IInv

LEMMA RestartStep ==
  ASSUME IInv, Restart
  PROVE  IInv'
  <1>1. TypeOK'
    BY IdleIsRequest DEF IInv, TypeOK, Restart
  <1>2. ASSUME NEW q \in Requests PROVE RequestBound(q)'
    BY <1>2 DEF IInv, Restart, At, Idle, ScratchPcs, RequestBound
  <1>3. OwnIds'
    BY DEF IInv, Restart, Idle, OwnIds
  <1>4. UsersAreScratch'
    BY DEF IInv, Restart, IsScratch, UsersAreScratch
  <1>5. ClaimsBound'
    BY DEF IInv, Restart, At, Idle, ClaimsBound, ClaimsOrCrossed, Whole
  <1>6. ASSUME NEW b0 \in Browsers \ disturbed' PROVE SessionBound(b0)'
    BY <1>6 DEF IInv, Restart, SessionBound
  <1> QED
    BY <1>1, <1>2, <1>3, <1>4, <1>5, <1>6 DEF IInv

-----------------------------------------------------------------------------
(* The theorems *)

LEMMA NextIInv == IInv /\ [Next]_vars => IInv'
  <1> SUFFICES ASSUME IInv, [Next]_vars PROVE IInv'
    OBVIOUS
  <1>1. ASSUME NEW r \in Requests, Proceed(r) PROVE IInv'
    BY <1>1, EvictStep, FindNameStep, RefusedStep, InsertStep, AddClaimsStep,
       SaveClaimsStep, SignInStep, DeleteStep, CommitStep, ReplyStep DEF Proceed
  <1>2. ASSUME NEW r \in Requests, NEW b \in Browsers, Begin(r, b) PROVE IInv'
    BY <1>2, CheckFailsStep, CallbackBeginStep, MessageBeginStep, LoginPageStep,
       RenewCookieStep, LocalSignInStep, DeleteAccountStep DEF Begin
  <1>3. CASE UNCHANGED vars
    BY <1>3 DEF vars, IInv, TypeOK, RequestBound, OwnIds, UsersAreScratch, Owns, IsScratch,
       ClaimsBound, ClaimsOrCrossed, Whole, SessionBound, SessionValid, At
  <1> QED
    BY <1>1, <1>2, <1>3, RegisterBeginStep, ProviderAnswerStep, SignOutStep,
       SessionExpiresStep, RestartStep DEF Next

\* The store, the sessions and the requests in flight agree in every reachable
\* state, for any number of browsers, names and requests.
THEOREM Invariance == Spec => []IInv
  BY InitIInv, NextIInv, PTL DEF Spec

\* OnGetCallbackAsync leaves no scratch user behind, whatever accounts are
\* registered and deleted beside it.
THEOREM NothingIsLeftBehind == Spec => []UsersAreScratch
  <1>1. IInv => UsersAreScratch
    BY DEF IInv
  <1> QED
    BY <1>1, Invariance, PTL

\* Nobody is signed in by an external login without its claims whose user was
\* alone under its name.
THEOREM ClaimsAreKept == Spec => []ClaimsOrCrossed
  <1>1. IInv => ClaimsOrCrossed
    BY DEF IInv, ClaimsBound
  <1> QED
    BY <1>1, Invariance, PTL

\* The session check signs out only browsers whose session expired, was lost or
\* was read by two of their requests at once, the write-backs of the pages that
\* only leave a message included.
THEOREM EvictionsAreExplained == Spec => []EvictedWereDisturbed
  <1>1. IInv => EvictedWereDisturbed
    <2> SUFFICES ASSUME IInv, NEW r \in Requests, At(r, "evict"),
                        req[r].browser \notin disturbed
                 PROVE  FALSE
      BY DEF EvictedWereDisturbed
    <2>1. req[r].browser \in Browsers
      BY DEF IInv, TypeOK, Request, RequestBound, At
    <2> QED
      BY <2>1 DEF IInv, SessionBound
  <1> QED
    BY <1>1, Invariance, PTL

\* A login refused for a name that is allowed and not registered met another one
\* at work: the user it collides with has an owner, and the owner is not itself.
LEMMA RefusalStep ==
  ASSUME IInv, [Next]_vars, NEW r \in Requests, AllBringTokens,
         At(r, "find_name"), At(r, "refused")'
  PROVE  \/ req[r].name \notin ValidNames
         \/ \E i \in Named(req[r].name) : users[i].local
         \/ \E q \in Requests \ {r} : /\ req[q].pc \in ScratchPcs
                                      /\ req[q].name = req[r].name
  <1>0. req \in [Requests -> Request] /\ req[r].pc = "find_name" /\ req'[r].pc = "refused"
    BY DEF IInv, TypeOK, At
  <1>1. FindName(r)
    <2>1. ASSUME NEW q \in Requests, Proceed(q) PROVE FindName(r)
      <3>1. CASE q = r
        BY <1>0, <2>1, <3>1 DEF Proceed, Evict, Refused, Insert, AddClaims, SaveClaims,
           SignIn, Delete, Commit, Reply, At
      <3>2. CASE q # r
        <4>1. \E next : req' = [req EXCEPT ![q] = next]
          BY <1>0, <2>1 DEF Proceed, Evict, FindName, Refused, Insert, AddClaims,
             SaveClaims, SignIn, Delete, Commit, Reply, GoTo
        <4> QED
          BY <1>0, <3>2, <4>1
      <3> QED
        BY <3>1, <3>2
    <2>2. ASSUME NEW q \in Requests, NEW next, At(q, "idle"), req' = [req EXCEPT ![q] = next]
          PROVE  FALSE
      BY <1>0, <2>2 DEF At
    <2>3. ASSUME NEW q \in Requests, NEW b \in Browsers, Begin(q, b)
          PROVE  \E next : At(q, "idle") /\ req' = [req EXCEPT ![q] = next]
      BY <2>3 DEF Begin, CheckFails, CallbackBegin, MessageBegin, LoginPage, RenewCookie,
         LocalSignIn, DeleteAccount, Passes
    <2>4. ASSUME NEW q \in Requests, NEW n \in Names, RegisterBegin(q, n)
          PROVE  \E next : At(q, "idle") /\ req' = [req EXCEPT ![q] = next]
      BY <2>4 DEF RegisterBegin
    <2>5. CASE UNCHANGED req
      BY <1>0, <2>5
    <2>6. CASE Restart
      BY <1>0, <2>6, IdleIsRequest DEF Restart
    <2> QED
      BY <2>1, <2>2, <2>3, <2>4, <2>5, <2>6
      DEF Next, ProviderAnswer, SignOut, SessionExpires, vars
  <1>2. ~(req[r].name \in ValidNames /\ Named(req[r].name) = {})
    <2>1. ~GoTo(r, "insert")
      BY <1>0 DEF GoTo, Request
    <2> QED
      BY <1>1, <2>1 DEF FindName
  <1> SUFFICES ASSUME req[r].name \in ValidNames, \A i \in Named(req[r].name) : ~users[i].local
               PROVE  \E q \in Requests \ {r} : /\ req[q].pc \in ScratchPcs
                                               /\ req[q].name = req[r].name
    OBVIOUS
  <1>3. PICK i \in Ids : IsScratch(i) /\ users[i].name = req[r].name
    BY <1>2 DEF Named, IsScratch
  <1>4. PICK q \in Requests : Owns(q, i)
    BY <1>3 DEF IInv, UsersAreScratch
  <1> QED
    BY <1>0, <1>3, <1>4 DEF Owns, ScratchPcs

\* Logins are refused only for a name Identity does not allow, for that of a
\* registered account, or while another request works under the same name.
THEOREM RefusalsCollide == Spec => RefusedOnCollision
  <1>1. IInv /\ [Next]_vars =>
          [ \A r \in Requests :
              AllBringTokens /\ At(r, "find_name") /\ At(r, "refused")'
              => \/ req[r].name \notin ValidNames
                 \/ \E i \in Named(req[r].name) : users[i].local
                 \/ \E q \in Requests \ {r} : /\ req[q].pc \in ScratchPcs
                                              /\ req[q].name = req[r].name ]_vars
    BY RefusalStep
  <1> QED
    BY <1>1, Invariance, PTL DEF Spec, RefusedOnCollision
=============================================================================
