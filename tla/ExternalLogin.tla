--------------------------- MODULE ExternalLogin ---------------------------
(***************************************************************************)
(* The page a browser comes back to from the identity provider, among the  *)
(* account pages of the same host.  It makes a scratch user of the         *)
(* provider's name in the Identity store, only to sign it in, and deletes  *)
(* it.  The store is also that of the host's own accounts, which the login *)
(* page signs in by password.  Either sign-in seeds the server session     *)
(* with a key that AuthSessionValidationMiddleware asks for on every       *)
(* request.                                                                *)
(*                                                                         *)
(* The store is checked for the name before the user is inserted; nothing  *)
(* is locked, and no index of the in-memory database forbids a second user *)
(* of one name.  The messages pages leave for each other are kept in the   *)
(* session, so each account page reads the session when it begins; it is   *)
(* read whole, changed and written back whole when the page is done.       *)
(***************************************************************************)
EXTENDS FiniteSets

CONSTANTS
  Browsers,
  Names,        \* user names: the provider's name identifiers, local e-mails
  ValidNames,   \* those of characters the Identity options allow
  Schemes,      \* configured OpenIdConnect schemes
  TokenSchemes, \* those whose response type brings an access token
  Requests,     \* requests that can be in flight at once
  Ids,          \* Guids; one stands for a scratch user's id and its session key
  None          \* an absent value

ASSUME SchemesAssumption == TokenSchemes \subseteq Schemes

\* Users and cookies are local or of an external login; a local one never has
\* the external login's claims.
User     == [ name : Names, claims : BOOLEAN, local : BOOLEAN ]
External == [ name : Names, scheme : Schemes ]
Cookie   == [ id : Ids, claims : BOOLEAN, local : BOOLEAN ]

ASSUME NoneAssumption ==
  /\ None \notin Ids \cup Browsers \cup Schemes
  /\ None \notin User \cup External \cup Cookie

VARIABLES
  users,     \* the Identity store: each user's name and whether it has its claims
  external,  \* the external cookie of each browser
  cookie,    \* the application cookie of each browser
  session,   \* the session keys in the server session of each browser
  req,       \* the requests in flight
  crossed,   \* history: ids of users that shared their name with another
  disturbed  \* history: browsers that lost a session or had two requests at once

vars == << users, external, cookie, session, req, crossed, disturbed >>
history == << crossed, disturbed >>

\* Where a request stands while its scratch user exists, and otherwise.
ScratchPcs == { "add_claims", "save_claims", "sign_in", "delete" }
Pcs == ScratchPcs \cup { "idle", "evict", "find_name", "insert", "refused",
                         "commit", "reply" }

AuthSchemes == { "application", "external" }

\* scheme is that of the external login, None in a registration; sets is the
\* application cookie the answer brings, out the schemes it signs out.
Request == [ pc      : Pcs,
             browser : Browsers \cup {None},
             name    : Names \cup {None},
             scheme  : Schemes \cup {None},
             id      : Ids \cup {None},
             loaded  : SUBSET Ids,
             sets    : Cookie \cup {None},
             out     : SUBSET AuthSchemes ]

Idle == [ pc |-> "idle", browser |-> None, name |-> None, scheme |-> None,
          id |-> None, loaded |-> {}, sets |-> None, out |-> {} ]

At(r, pc)   == req[r].pc = pc
GoTo(r, pc) == req' = [req EXCEPT ![r].pc = pc]

Named(n) == { i \in Ids : users[i] # None /\ users[i].name = n }

\* The page is done: q's session is to be written back, or only its answer sent.
Done(q, pc) == [q EXCEPT !.pc = pc, !.name = None, !.scheme = None, !.id = None,
                         !.loaded = IF pc = "commit" THEN @ ELSE {}]

Keeps(c, i) == c # None /\ c.id = i

Fresh(i) == /\ users[i] = None
            /\ \A b \in Browsers : ~Keeps(cookie[b], i) /\ i \notin session[b]
            /\ \A r \in Requests : /\ req[r].id # i
                                    /\ i \notin req[r].loaded
                                    /\ ~Keeps(req[r].sets, i)

Init ==
  /\ users = [i \in Ids |-> None]
  /\ external = [b \in Browsers |-> None]
  /\ cookie = [b \in Browsers |-> None]
  /\ session = [b \in Browsers |-> {}]
  /\ req = [r \in Requests |-> Idle]
  /\ crossed = {}
  /\ disturbed = {}

-----------------------------------------------------------------------------
(* AuthSessionValidationMiddleware, before any page *)

SessionValid(b) == cookie[b] # None => cookie[b].id \in session[b]

\* A signed-in request whose session key is gone ...
CheckFails(r, b) ==
  /\ At(r, "idle")
  /\ ~SessionValid(b)
  /\ req' = [req EXCEPT ![r] = [Idle EXCEPT !.pc = "evict", !.browser = b]]
  /\ UNCHANGED << users, external, cookie, session, history >>

\* ... is signed out, and its session emptied.
Evict(r) ==
  /\ At(r, "evict")
  /\ req' = [req EXCEPT ![r].pc = "commit", ![r].out = AuthSchemes]
  /\ UNCHANGED << users, external, cookie, session, history >>

\* A request of an account page that passes the middleware and has read the
\* session.  Two of one browser at once disturb each other.
Passes(r, b, page) ==
  /\ At(r, "idle")
  /\ SessionValid(b)
  /\ req' = [req EXCEPT ![r] = page]
  /\ disturbed' = IF \E q \in Requests : req[q].browser = b
                  THEN disturbed \cup {b} ELSE disturbed

Page(b, pc) == [Idle EXCEPT !.pc = pc, !.browser = b,
                            !.loaded = IF pc = "reply" THEN {} ELSE session[b]]

-----------------------------------------------------------------------------
(* OnGetCallbackAsync *)

\* The external cookie is read.
CallbackBegin(r, b) ==
  /\ external[b] # None
  /\ Passes(r, b, [Page(b, "find_name") EXCEPT !.name = external[b].name,
                                               !.scheme = external[b].scheme])
  /\ UNCHANGED << users, external, cookie, session, crossed >>

\* CreateAsync refuses a name of other characters than it allows, and the name
\* of a user it finds, a local one or a scratch user.
FindName(r) ==
  /\ At(r, "find_name")
  /\ IF req[r].name \in ValidNames /\ Named(req[r].name) = {}
     THEN GoTo(r, "insert") ELSE GoTo(r, "refused")
  /\ UNCHANGED << users, external, cookie, session, history >>

\* Back to the login page; the sign-out before CreateAsync takes effect, and the
\* session is written back if the page has taken a message out of it.
Refused(r) ==
  /\ At(r, "refused")
  /\ \E pc \in { "commit", "reply" } :
       req' = [req EXCEPT ![r] = IF req[r].scheme = None THEN Idle
                                 ELSE [Done(req[r], pc) EXCEPT !.out = AuthSchemes]]
  /\ UNCHANGED << users, external, cookie, session, history >>

\* What follows the insertion of user i.  A claim cannot have a null value:
\* without an access token the page throws as soon as the user is there, which
\* leaves the session to be written back and no sign-out.  A registration ends.
Inserted(q, i) ==
  IF q.scheme = None THEN { Idle }
  ELSE IF q.scheme \in TokenSchemes
  THEN { [q EXCEPT !.pc = "add_claims", !.id = i] }
  ELSE { Done(q, pc) : pc \in { "commit", "reply" } }

Insert(r) ==
  LET q == req[r] IN
  /\ At(r, "insert")
  /\ \E i \in Ids :
       /\ Fresh(i)
       /\ users' = [users EXCEPT ![i] = [ name |-> q.name, claims |-> FALSE,
                                          local |-> q.scheme = None ]]
       /\ \E next \in Inserted(q, i) : req' = [req EXCEPT ![r] = next]
       /\ crossed' = IF Named(q.name) = {} THEN crossed \ {i}
                     ELSE crossed \cup Named(q.name) \cup {i}
  /\ UNCHANGED << external, cookie, session, disturbed >>

\* Mutant: the claims are added but the user is not updated.
AddClaimsUnsaved(r) ==
  /\ At(r, "add_claims")
  /\ GoTo(r, "sign_in")
  /\ UNCHANGED << users, external, cookie, session, history >>

\* AddClaimsAsync validates the user again: the first of its name must be it.
\* Its answer is ignored.
AddClaims(r) ==
  /\ At(r, "add_claims")
  /\ \E first \in Named(req[r].name) :
       GoTo(r, IF first = req[r].id THEN "save_claims" ELSE "sign_in")
  /\ UNCHANGED << users, external, cookie, session, history >>

SaveClaims(r) ==
  /\ At(r, "save_claims")
  /\ users' = [users EXCEPT ![req[r].id].claims = TRUE]
  /\ GoTo(r, "sign_in")
  /\ UNCHANGED << external, cookie, session, history >>

\* The principal of a scratch user, with the claims the store has.
SignedIn(q) ==
  [q EXCEPT !.pc = "delete", !.out = AuthSchemes,
            !.sets = [ id |-> q.id, claims |-> users[q.id].claims, local |-> FALSE ]]

\* Mutant: the principal has a key that the session was not seeded with.
SignInUnseeded(r) ==
  /\ At(r, "sign_in")
  /\ req' = [req EXCEPT ![r] = SignedIn(req[r])]
  /\ UNCHANGED << users, external, cookie, session, history >>

\* The principal's session key goes into the session as this request has it.
SignIn(r) ==
  /\ At(r, "sign_in")
  /\ req' = [req EXCEPT ![r] = [SignedIn(req[r]) EXCEPT !.loaded = @ \cup {req[r].id}]]
  /\ UNCHANGED << users, external, cookie, session, history >>

\* Mutant: whoever was refused its claims is not deleted.
DeleteIfClaimed(r) ==
  /\ At(r, "delete")
  /\ users' = IF req[r].sets.claims THEN [users EXCEPT ![req[r].id] = None] ELSE users
  /\ req' = [req EXCEPT ![r] = Done(req[r], "commit")]
  /\ UNCHANGED << external, cookie, session, history >>

Delete(r) ==
  /\ At(r, "delete")
  /\ users' = [users EXCEPT ![req[r].id] = None]
  /\ req' = [req EXCEPT ![r] = Done(req[r], "commit")]
  /\ UNCHANGED << external, cookie, session, history >>

\* The session middleware writes the session back ...
Commit(r) ==
  /\ At(r, "commit")
  /\ session' = [session EXCEPT ![req[r].browser] = req[r].loaded]
  /\ req' = [req EXCEPT ![r] = Done(req[r], "reply")]
  /\ UNCHANGED << users, external, cookie, history >>

\* ... and the answer brings the browser its cookies.
Reply(r) ==
  LET q == req[r] IN
  /\ At(r, "reply")
  /\ cookie' = [cookie EXCEPT ![q.browser] =
                  IF q.sets = None /\ "application" \notin q.out THEN @ ELSE q.sets]
  /\ external' = [external EXCEPT ![q.browser] = IF "external" \in q.out THEN None ELSE @]
  /\ req' = [req EXCEPT ![r] = Idle]
  /\ UNCHANGED << users, session, history >>

-----------------------------------------------------------------------------
(* The other account pages *)

\* OnGetCallbackAsync without an external login, and every page that leaves or
\* takes a message: it writes the session back.
MessageBegin(r, b) ==
  /\ Passes(r, b, Page(b, "commit"))
  /\ UNCHANGED << users, external, cookie, session, crossed >>

\* The login page clears the external cookie, whether or not there was a message.
LoginPage(r, b) ==
  /\ \E pc \in { "commit", "reply" } :
       Passes(r, b, [Page(b, pc) EXCEPT !.out = { "external" }])
  /\ UNCHANGED << users, external, cookie, session, crossed >>

\* The cookie is past half its time: whatever page is asked for renews it.
RenewCookie(r, b) ==
  /\ cookie[b] # None
  /\ \E pc \in { "commit", "reply" } :
       Passes(r, b, [Page(b, pc) EXCEPT !.sets = cookie[b]])
  /\ UNCHANGED << users, external, cookie, session, crossed >>

\* PasswordSignInAsync, and the pages that sign a local account in again.
LocalSignIn(r, b) ==
  /\ \E i \in Ids : users[i] # None /\ users[i].local
  /\ \E i \in Ids :
       /\ Fresh(i)
       /\ Passes(r, b, [Page(b, "commit") EXCEPT
                          !.loaded = @ \cup {i},
                          !.sets = [ id |-> i, claims |-> FALSE, local |-> TRUE ]])
  /\ UNCHANGED << users, external, cookie, session, crossed >>

\* A registration makes a user as the callback does, and leaves it in the store;
\* an account has to be confirmed before it is signed in.
RegisterBegin(r, n) ==
  /\ At(r, "idle")
  /\ req' = [req EXCEPT ![r] = [Idle EXCEPT !.pc = "find_name", !.name = n]]
  /\ UNCHANGED << users, external, cookie, session, history >>

\* A local account deletes itself and is signed out.
DeleteAccount(r, b, i) ==
  /\ cookie[b] # None /\ cookie[b].local
  /\ users[i] # None /\ users[i].local
  /\ users' = [users EXCEPT ![i] = None]
  /\ Passes(r, b, [Page(b, "reply") EXCEPT !.out = AuthSchemes])
  /\ UNCHANGED << external, cookie, session, crossed >>

-----------------------------------------------------------------------------
(* The environment *)

\* The provider answers; the framework signs the browser in to the external
\* scheme.
ProviderAnswer(b, n, s) ==
  /\ external' = [external EXCEPT ![b] = [ name |-> n, scheme |-> s ]]
  /\ UNCHANGED << users, cookie, session, req, history >>

\* FinalPage, the authorize endpoint or a logout signs the browser out.
SignOut(b) ==
  /\ cookie' = [cookie EXCEPT ![b] = None]
  /\ external' = [external EXCEPT ![b] = None]
  /\ UNCHANGED << users, session, req, history >>

SessionExpires(b) ==
  /\ session[b] # {}
  /\ session' = [session EXCEPT ![b] = {}]
  /\ disturbed' = disturbed \cup {b}
  /\ UNCHANGED << users, external, cookie, req, crossed >>

\* Users and sessions live in the process; cookies do not.
Restart ==
  /\ users' = [i \in Ids |-> None]
  /\ session' = [b \in Browsers |-> {}]
  /\ req' = [r \in Requests |-> Idle]
  /\ disturbed' = Browsers
  /\ UNCHANGED << external, cookie, crossed >>

-----------------------------------------------------------------------------
Proceed(r) ==
  \/ Evict(r)
  \/ FindName(r)
  \/ Refused(r)
  \/ Insert(r)
  \/ AddClaims(r)
  \/ SaveClaims(r)
  \/ SignIn(r)
  \/ Delete(r)
  \/ Commit(r)
  \/ Reply(r)

Begin(r, b) ==
  \/ CheckFails(r, b)
  \/ CallbackBegin(r, b)
  \/ MessageBegin(r, b)
  \/ LoginPage(r, b)
  \/ RenewCookie(r, b)
  \/ LocalSignIn(r, b)
  \/ \E i \in Ids : DeleteAccount(r, b, i)

Next ==
  \/ \E r \in Requests : \/ Proceed(r)
                         \/ \E b \in Browsers : Begin(r, b)
                         \/ \E n \in Names : RegisterBegin(r, n)
  \/ \E b \in Browsers : \/ \E n \in Names, s \in Schemes : ProviderAnswer(b, n, s)
                         \/ SignOut(b)
                         \/ SessionExpires(b)
  \/ Restart

Spec == Init /\ [][Next]_vars

-----------------------------------------------------------------------------
(* Properties *)

TypeOK ==
  /\ users \in [Ids -> User \cup {None}]
  /\ external \in [Browsers -> External \cup {None}]
  /\ cookie \in [Browsers -> Cookie \cup {None}]
  /\ session \in [Browsers -> SUBSET Ids]
  /\ req \in [Requests -> Request]
  /\ crossed \subseteq Ids
  /\ disturbed \subseteq Browsers

AllBringTokens == TokenSchemes = Schemes

IsScratch(i) == users[i] # None /\ ~users[i].local

\* A request owns the scratch user it made, under the name it was made for.
Owns(r, i) == /\ req[r].pc \in ScratchPcs
              /\ req[r].id = i
              /\ IsScratch(i)
              /\ users[i].name = req[r].name

\* OnGetCallbackAsync leaves nothing behind: when every scheme brings an access
\* token, each user in the store that is not a registered account belongs to a
\* request that will delete it.
UsersAreScratch ==
  AllBringTokens =>
    \A i \in Ids : IsScratch(i) => \E r \in Requests : Owns(r, i)

\* Whoever is signed in by an external login, but without its claims, was in the
\* store together with another user of the same name.
ClaimsOrCrossed ==
  \A b \in Browsers :
    cookie[b] # None => cookie[b].local \/ cookie[b].claims \/ cookie[b].id \in crossed

\* AuthSessionValidationMiddleware signs nobody out whose session neither
\* expired, nor was lost with the process, nor was read by two requests of the
\* browser at once, of which the later write undoes the earlier one.
EvictedWereDisturbed ==
  \A r \in Requests : At(r, "evict") => req[r].browser \in disturbed

\* A login of the identity provider is refused only for a name Identity does not
\* allow, for that of a registered account, or while another request works under
\* the same name.
RefusedOnCollision ==
  [][ \A r \in Requests :
        AllBringTokens /\ At(r, "find_name") /\ At(r, "refused")'
        => \/ req[r].name \notin ValidNames
           \/ \E i \in Named(req[r].name) : users[i].local
           \/ \E q \in Requests \ {r} : /\ req[q].pc \in ScratchPcs
                                        /\ req[q].name = req[r].name ]_vars

\* The comment at the deletion calls the store a scratch holding pad: with no
\* request at work no scratch user is in it.
ScratchPadEmpties ==
  (\A r \in Requests : At(r, "idle")) => \A i \in Ids : ~IsScratch(i)

-----------------------------------------------------------------------------
(* The inductive invariant *)

\* What a request in flight holds.
RequestBound(r) ==
  /\ req[r].pc \in {"find_name", "insert", "refused"} \cup ScratchPcs => req[r].name \in Names
  /\ ~At(r, "idle") /\ req[r].browser = None =>
       /\ req[r].pc \in {"find_name", "insert", "refused"}
       /\ req[r].scheme = None
  /\ req[r].pc \in {"find_name", "insert", "refused"} /\ req[r].scheme = None =>
       req[r].browser = None
  /\ req[r].pc \in ScratchPcs => req[r].id \in Ids /\ Owns(r, req[r].id)
  /\ req[r].pc \notin ScratchPcs => req[r].id = None
  /\ At(r, "delete") => req[r].sets # None
  /\ req[r].sets # None =>
       /\ req[r].pc \in {"delete", "commit", "reply"}
       /\ At(r, "delete") => req[r].sets.id = req[r].id /\ ~req[r].sets.local

\* Every login has a user of its own.
OwnIds ==
  \A r, q \in Requests : req[r].id = req[q].id /\ req[r].id # None => r = q

\* A cookie, in a browser or on its way there, with all it should have.
Whole(c) == c # None => c.local \/ c.claims \/ c.id \in crossed

\* A user that never shared its name is the only one of it, and is signed in
\* with its claims.
ClaimsBound ==
  /\ \A i, j \in Ids \ crossed :
       users[i] # None /\ users[j] # None /\ users[i].name = users[j].name => i = j
  /\ \A i \in Ids \ crossed, j \in crossed :
       users[i] # None /\ users[j] # None => users[i].name # users[j].name
  /\ \A r \in Requests : At(r, "sign_in") =>
       users[req[r].id].claims \/ req[r].id \in crossed
  /\ \A r \in Requests : Whole(req[r].sets)
  /\ ClaimsOrCrossed

\* An undisturbed browser has one request at a time, and what that request
\* knows of the session is the session, to which it adds the key of the cookie
\* it brings.
SessionBound(b) ==
  /\ SessionValid(b)
  /\ \A r, q \in Requests : req[r].browser = b /\ req[q].browser = b => r = q
  /\ \A r \in Requests : req[r].browser = b =>
       /\ ~At(r, "evict")
       /\ ~At(r, "reply") => session[b] \subseteq req[r].loaded
       /\ req[r].sets # None =>
            req[r].sets.id \in IF At(r, "reply") THEN session[b] ELSE req[r].loaded

IInv ==
  /\ TypeOK
  /\ \A r \in Requests : RequestBound(r)
  /\ OwnIds
  /\ UsersAreScratch
  /\ ClaimsBound
  /\ \A b \in Browsers \ disturbed : SessionBound(b)
=============================================================================
