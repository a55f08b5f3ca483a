# TLA+ verification of the OpenIdConnect orchestrator

The repository is an OpenID Connect "middle man": to its client applications it
is an identity provider with an authorize, a token and a discovery endpoint; to
the real (downstream) identity provider it is a client. In between it lets the
host application add consent, claims and custom data to a login.

## The system

| part | code | state | operations |
|---|---|---|---|
| authorize endpoint | `OIDCPipeline.Core/Endpoints/AuthorizeEndpoint.cs`, `OIDCPipeLineKey.cs` | the cookie with the key of the browser's login | validate, delete the old key's entries, mint a key, store the request, sign out, redirect |
| pipeline store | `DistributedCacheOIDCPipelineStore.cs` | two cache entries per key: the original request and the downstream response | store, get, delete (two removals), read-modify-write of the custom data |
| OpenIdConnect events | `OIDCConsentOrchestrator/Authentication/OIDCAuthenticationExtensions.cs` | the framework's scheme options (shared) | pick nonce, key and client for the redirect; store the provider's answer |
| external login page | `ExternalLogin.cshtml.cs` | the application session, a scratch user | trade the external login for a session |
| account pages | `Areas/Identity/Pages/Account/` | the user store, session and cookies of the external login page | register, sign in by password, delete an account, leave messages for each other |
| consent page | `AuthorizeConsent.cshtml.cs`, `ConsentExternalService.cs`, `ConsentDiscoveryCache*.cs` | consent discovery documents, cached per row | ask every external service a scope names, aggregate, request a token |
| final page | `FinalPage.cshtml.cs` | none | store the custom data, generate the response, sign out |
| response generator | `OIDCResponseGenerator.cs` | none | answer with the key as code, or with the tokens |
| token endpoint | `TokenEndpoint.cs`, `DefaultTokenRequestValidator.cs` | none | redeem a code |
| configuration database | `OIDCConsentOrchestrator.EntityFrameworkCore/` | external services, downstream providers and their clients | upsert by name; read all |
| native clients | `LoopbackHttpListener.cs`, `SystemBrowser.cs`, the package `IdentityModel.OidcClient` | one login per process, one port for all | listen, open a tab, wait for the redirect, check, redeem |
| session check | `Common/AuthSessionValidationMiddleware.cs` | a key in the server session | sign out whoever has a cookie and no such key |

One login runs through five HTTP requests of the browser and one of the client.
The authorize endpoint mints a Guid (the *key*), stores the request under it and
sends it to the browser in a cookie. The challenge sends the browser to the
identity provider with the key in the protected `state`. The callback stores the
provider's tokens under the key found in the *state*; every page afterwards goes
by the key in the *cookie*. The final page answers the client, either with the
tokens or with the key itself as authorization code; the client redeems it at
the token endpoint, which deletes both entries and then judges the request.

What makes this hard: nothing is locked. Every store call is an `await`, so
requests of one browser, of two tabs, of the client and of the identity provider
interleave between a read and the write or deletion that depends on it. The
cookie and the state can name different logins. Deletion is two calls. Entries
expire independently. The cache lives in the process and dies with it while the
browsers keep their cookies.

What makes it correct: tokens reach only the client, redirect_uri and verifier
of the request that began their login; a browser is answered only about its own
login; a code works once; nothing deleted comes back; nothing stays for ever.

## Modules

**`OIDCPipeline`** is the core: one module, because the components above do
nothing alone; what can go wrong lies in how they share the store.

* `original`, `downstream` are the two cache entries of each key; `cookie` the key
  each browser carries; `session` the browsers signed in to the application; `atIdp`
  the authorizations the identity provider has yet to answer; `proc` the HTTP
  requests in flight. A handler (`proc[h]`) is a program counter and the locals
  the C# method holds across its awaits.
* An action is what a request does between two awaits of the store. A request
  that makes one store access and nothing else that matters is one action
  (`Challenge`, `FinalPagePost`). Reads are actions of their own wherever the
  code awaits between them and the write that uses them (`CustomGet`,
  `CustomStore`; `GenerateGetOriginal`, `GenerateGetDownstream`,
  `GenerateStore`; `TokenBegin`, `TokenDeleteOriginal`, `TokenDeleteDownstream`).
* The host signs a browser in whenever it likes (`SignIn`): by the external login page
  or by the password of a local account (`Login.cshtml.cs:84`), with or without an
  answer of the identity provider. The core asks of a session only that it is there
  (`[Authorize]`, `FinalPage.cshtml.cs:18`) and relies on nothing about whose it is.
* A get of a missing entry throws in `Deserialize`; the handler ends
  (`GetOriginal`, `GetDownstream`). The token endpoint and `OnTokenValidated`
  handle a missing entry themselves, with the same effect.
* `requested`, `owner`, `redirects`, `granted`, `presented`, `raced`, `logins`
  and `posts` are history: what each key was minted for and what was handed out.
  No guard reads them, with two exceptions that are not about the code:
  a minted key is fresh (a Guid) and a client can only present a code it was
  sent (`Issued`).
* A call of the cache may throw (`StoreFails`). The authorize endpoint catches that
  and redirects as ever, with its key so far in the cookie; any other handler ends.
* The environment may do anything at any time: lose a cookie, expire either
  entry alone, end a session, fail at the identity provider, restart the process.

The data is abstracted to what the properties tell apart: a key is a Guid, a
code is the key, a code challenge is named by the verifier that answers it, an
id_token is the client it was issued for, the nonce in it and the login it came
from, and the custom data is whether the final page put its entries and which
nonce the generator put. `Requests` is any set of requests that pass
`DefaultAuthorizeRequestValidator`.

**`OneTimeCode`** is what the core promises, in six actions and without handlers,
entries or cookies: a code is opened for one request (`Open`), claimed while it is
live (`Claim`), and settled for whoever presents the parameters of that request
(`Settle`); live codes may lapse, a holder may drop its claim, and a crash ends
every code and claim. Claims that overlap are `contended`, and of those nothing is promised but whom the
tokens go to. The core implements it: `Code == INSTANCE OneTimeCode WITH ...` maps a
key to a code, a key that is not `Dead` to a live code, a redemption in flight to a
claim, `presented` to settled and `raced` to contended. `CodesAreOneTime` is the
abstract specification as a property of the core.

**`SharedOptions`** models what the core leaves out of the redirect event: the
client's id and secret, which `OnRedirectToIdentityProvider` writes into the
`OpenIdConnectOptions` of the scheme. `optionsId` and `optionsSecret` are that
shared object, `login` the logins at the provider; every write and every read of
the options is an action, because two requests run on two threads. Reading the
options back when the code comes in and redeeming it is the framework's part
(`external` in the map). `disturbed` is history: the logins from which another
client's redirect, or a restart, took the options away.

**`ConsentDiscovery`** models the discovery documents of the external services:
the accessor that keeps one cache per service (`TryAdd`, whose losers keep the
cache they made), the check, `Refresh` and re-read of `ConsentDiscoveryCache`,
and `AsyncLazy`, whose task is started by whoever asks first. A caller is a
request that wants the document; a fetch ends, fails or throws at any time within
the HTTP timeout. Services do not share anything, so there is one.

**`ExternalLogin`** models the page the provider sends the browser back to, among the
account pages of the same host. The core has what they do as one step; here it is the
scratch user of the Identity store (`users`: look for the name, insert, validate again
and add the claims, sign in, delete), the server session with its keys (`session`),
and the middleware that signs out whoever has a cookie without one (`CheckFails`,
`Evict`). The session is loaded, changed and written back whole; cookies change when
the response arrives (`Commit`, `Reply`). An exception writes the session
back, if it was changed, and leaves the cookies as they were.

The local accounts share that store, that session and that cookie. `RegisterBegin`
goes through the steps of the callback to its insertion and leaves its user there;
`LocalSignIn` seeds a session key like the callback, `DeleteAccount` ends account and
login. So a callback may be refused for three reasons: a name of characters that
Identity does not allow (all but `ValidNames`), a registered name, and a scratch user
of its name. What the pages tell each other is `[TempData]`, which this host keeps in
the session (`Startup.cs:164-166`): leaving or taking a message writes the session
back. `MessageBegin` is any page that does it, among them the refusal of a callback
without an external login (`ExternalLogin.cshtml.cs:81-91`); `LoginPage`, where such
a refusal leads, also clears the external cookie. `RenewCookie` is the sliding
expiration, by which an answer brings back the cookie its request came with.

**`AuthorizeRequestValidation`** models the validator in front of the core: its
tables, `ResponseTypeEqualityComparer`, the lookup of the client record (in the
records of *every* scheme, as `InMemoryClientSecretStore` does it) and the PKCE
checks, as predicates on the raw parameters. A refusal and an exception are one
outcome, since `AuthorizeEndpoint` answers both with the same redirect. It is
where the set `Requests` of the core comes from, and shows what the core assumes
of it.

**`ConsentPage`** models the page between the login and the final page, and the two
tables it reads: `rows`, the external services in the database that all instances
share, and `caches`, the accessor's map of each process, which keeps the authority a
row had when its cache was made. `Start` and `SeedSave` are the upsert with which an
instance in development seeds the table: look for the name, then insert or update.
A visit reads all rows (`Begin`), takes the services one by one (`Lookup`, `Create`,
`Ask`), and puts what was granted into a token (`Finish`). Errors of a service become
refusals that repeat the scopes they were sent (`Answers`), as in
`ConsentExternalService`. `held` and `overlapped` are history.

**`NativeLogin`** models the console clients: each login is a process that takes the
one port (`Start`), opens a tab (`Open`) and waits for whatever comes first, a request
or the timer (`Deliver`, `Stray`, `TimeOut`, all through the source of the listener);
then checks (`Return`), redeems (`Redeem`) and loads the profile. The port is given
back later (`Release`). Tabs outlive the process, may be reloaded, and answer to
whoever listens. `heard`, `presented` and `mishaps` are history. The listener and the
browser are the clients' own; the state check, the redemption and the profile are
those of the package `IdentityModel.OidcClient` 3.1.2, modelled from what the clients
ask of it and see of it (`external` in the map). The library's source under
`src/IdentityModel.OidcClient2` is a copy that no project refers to.

`M_proofs` proves the theorems about `M`; `MCM` gives the constants of `M` their
values for TLC.

How they fit together: `AuthorizeRequestValidation` establishes the core's
assumption on `Requests`; the core's `Challenge` and `TokenValidated*` steps are
detailed by `SharedOptions`, the host's sign-ins by `ExternalLogin`, each of which has
state of its own that the core does not need. `OneTimeCode` is what the core shows to
its clients; `ConsentPage` stands
between the login and the final page, and the document of a service, one choice in
its `Ask`, is the subject of `ConsentDiscovery`. `NativeLogin` is the other end: its
clients redeem the codes of the core, of which it uses that a code dies when it is
presented (`PresentedCodeIsDead`).

## Runs

| run | instance | what it shows |
|---|---|---|
| `one_key` | core: one browser, one key, two requests in flight, fairness | `PresentedCodeIsDead`, `GrantedOnce`, `CodesAreOneTime`: a code is dead once presented, and yields tokens once, outside the two windows named below. `UndisturbedGrantIsComplete`: no write of an undisturbed login is lost. `DeadKeysStayDead`: no late callback or post revives a deleted key. `RequestlessKeysRunDown`: once the request of a key is gone nobody becomes a writer of the key, and those that are come nearer to their last write. `DirectResponseLeavesNothing`: tokens on the redirect leave nothing stored. `EntriesVanish`: no sequence of logins and posts keeps an entry for ever. `RedemptionInv` and `FlowInv` are inductive invariants of the proofs |
| `two_browsers` | core: two browsers, two clients, two keys | `GrantedToRequester`, `RedirectedToOwner`; `AnsweredLoginsOnly`: whoever is signed in and how, tokens and redirects are only of logins the identity provider has answered; and `IInv`, the inductive invariant of the proofs |
| `shared_options` | three logins of up to two clients | `FailuresWereDisturbed`: a login the provider refuses was overlapped by another client's redirect or a restart. `IInv` |
| `discovery` | two requests, two caches, five lazies, documents of one time unit, fairness | `FailuresAreNotCached`: a failure is shown only to who was waiting when it happened. `DocumentsAreFresh`: a document is served for its time and the longest fetch, no longer. `CallersAreAnswered`: whoever asks gets a document or a failure. `AwaitedTasksRunOn`: nobody stops, skips or restarts a fetch that others wait for. `IInv` and `FreshInv`, the inductive invariants of the proofs |
| `external_login` | two browsers, two requests, two users at a time, of which one name is allowed and one is not | `UsersAreScratch`, `ClaimsOrCrossed`, `RefusedOnCollision`: a scratch user is deleted by its maker, has its claims unless a second one of its name was there, and stands in the way of others only while its maker is at work; but for it only disallowed and registered names are refused. `EvictedWereDisturbed`: the session check signs out nobody whose session did not expire, was not lost with the process and was not read by two requests of the browser at once. `IInv` |
| `authorize_request` | every combination of parameters; clients of one, two and no schemes | `StoredIsCoreRequest`: what is accepted is what the core assumes. `StoredCanBeAnswered`: it can be rendered, and no implicit request is answered in the query |
| `consent_page` | two processes, two rows, two visits; services whose names begin each other's scopes | `OneServicePerName`: unless two processes seed at once, a name has one row and a visit asks it once. `AsksAnAuthorityOfTheRow`: never that of another row. `TokenHoldsConsent`: exactly the scopes that were granted. `RefusalsDoNotFailThePage` |
| `native_login` | three logins on the port, fairness | `FirstAnswerDecides`: what comes first to a listener settles the login, whatever the timer, a reload or another tab does later. `CodesStayWithTheirLogin`: an answer that reaches the wrong login does not destroy the code. `LoginsEnd`: every login ends and gives the port back, once and without a step back (`LoginsRunDown`). `IInv` |
| `code_flow`, `two_clients`, `id_token_scheme`, `response_type_order` | | violations: see *Findings* |

Two **windows** of the core are real in the code and excluded by name rather than
hidden. A second redemption that read the entry before the first one removed it is
granted as well (`DefaultTokenRequestValidator.cs:114-121`). A final-page post or a
callback that read the entry before the redemption removed it writes it back
(`DistributedCacheOIDCPipelineStore.cs:55-79`). `raced` holds the codes to which
one of the two happened; the properties say that *nothing else* breaks them. An
assumption about deployments such as "clients do not repeat a redemption"
would make the exceptions unnecessary; the code does not enforce one. `disturbed`
and `crossed` in the other modules are of the same kind.

In `ConsentDiscovery` the run found that a slow fetch that was overtaken by a newer
one still sets the reload time when it ends (`ConsentDiscoveryCache.cs:83`): a
document can live longer than its day, by the time the slow fetch took.
`DocumentsAreFresh` has exactly that allowance.

In `ConsentPage` the exceptions are three. Two processes that seed at the same time
both find no row and both insert one (`OIDCConsentOrchestratorAdmin.cs:42-54`): the
service is asked twice from then on, and no later upsert mends it. An authority that
was updated is asked as it was until the process restarts
(`ConsentDiscoveryCacheAccessor.cs:21`), and by a visit that was under way. And a
service of any type but `subject_and_scopes` makes the page fail: the implicit one
when its missing response is read (`AuthorizeConsent.cshtml.cs:158`), the others
when the view lists scopes that were not sent (`AuthorizeConsent.cshtml:80`), after
the token was requested.

In `NativeLogin` a login that is ended or times out leaves its tab behind. If the
user answers that tab while the next login waits on the same port, the next login
fails with "Invalid state." `FirstAnswerDecides` states both halves: nothing else makes
a login fail that heard its own code, and nothing makes one succeed that did not.

In `ExternalLogin` two logins under one name can both pass the check for the name.
The claims of the one that is not found first are then not saved: the answer of
`AddClaimsAsync` is ignored (`ExternalLogin.cshtml.cs:120`), and the browser is
signed in without the claim the consent page dereferences. And the session is written
back whole by every page that leaves or takes a message: one that read it before a
login's callback put its key there, and ends after it, takes the key out again, and
the browser is signed out at its next request. `disturbed` holds the browsers with two
such requests at once, whatever they are.

**Bounds.** Core: one key and two handlers are the smallest instance with two
redemptions of one code, with a writer and a redemption, and with two posts; two
browsers, two clients and two keys, with one handler, the smallest in which anything
can reach the wrong party, or state and cookie name different logins. What more
handlers and keys could do is left to the proofs. `logins` and `posts` count to 2, "one" and "more". With two keys,
`NoRepeats` keeps to one answer of the provider and one post per key; repeats are the
subject of the run with one key, which has no such bound. `SharedOptions`: three logins, so that a
login can be overlapped twice, by another client and by its own.
`ConsentDiscovery`: two callers make at most two caches, and five lazies cover two
caches, a refresh by each caller and the replacement after a failure; a document
and a fetch last one unit of time each, the shortest that differ from none.
`ExternalLogin`: two requests for the race on a name and for the session that is
written back twice; two ids, so that two users of one name, or a registered one and a
scratch one, are there at once and a session can hold the key of an earlier login; the
proofs cover any number. `ConsentPage`: two
of everything, with one well-formed authority of two; the constraint `OneAnswered`
lets one visit at a time be past its first answer, since visits meet only in the map
and the table, which they read before. `NativeLogin`: three logins, so that two old
tabs can reach the third. Symmetry is used
in safety runs only.

**Fairness.** Core: an awaited cache call returns (`WF_vars(Proceed(h))`) and the
cache evicts expired entries. `ConsentDiscovery`: a thread that can run runs, and a
fetch ends, as `HttpClient` bounds it. `NativeLogin`: a process runs, its timer fires, and
its calls end (`WF_vars(Proceed(l))`, `WF_vars(TimeOut(l))`).
No user, client or provider is obliged to act anywhere.

**Time** exists in `ConsentDiscovery` only. Its clock moves when no thread is
between two of its statements: against a document's day and a fetch's seconds
the statements of `GetAsync` take no time.

**Deadlock** is checked in every run but those of `AuthorizeRequestValidation`, which
end with a verdict, and `NativeLogin`, where all processes may be over; elsewhere the process may always restart, the clock advance
or a browser sign out.

## Findings

* `code_flow`: a `response_type=code` request without PKCE passes the validator,
  and the response generator answers it with tokens on the redirect, since it
  looks at the code challenge and not at the response type
  (`OIDCResponseGenerator.cs:44`). `docs/gotchas.md:9` says the stored key
  becomes the code.
* `two_clients`: the redirect event writes the client's credentials into the
  options that all requests of the scheme share
  (`OIDCAuthenticationExtensions.cs:119`). While one client's login is at the
  provider another client's redirect makes the framework redeem the first
  one's code with the second one's credentials. `README.md:66` says the
  orchestrator uses the client's own and "can service many clients".
* `id_token_scheme`: with a scheme of response type `id_token` there is no access
  token, and the page throws on the missing value after it created the scratch
  user (`ExternalLogin.cshtml.cs:116`). The user stays, and its name is refused
  until the process restarts. The comment at line 123 calls the store a "scratch
  holding pad".
* `response_type_order`: `token id_token` is found supported by the
  order-insensitive comparer and then looked up in a dictionary without it, which
  throws (`DefaultAuthorizeRequestValidator.cs:88`). The comparer's summary calls
  the order insignificant; the discovery document in `README.md:21` advertises the
  order that is refused.

Noted without a run: the consent page sends each service *all* requested scopes and
not only those that name it, which it has just computed
(`AuthorizeConsent.cshtml.cs:105-123`); and it takes the subject from the session
but the scopes from the request under the cookie's key, which after a second login
begun in the browser are not of one login.

Noted without a run: the same discovery document, a copy of the downstream
provider's, advertises the challenge method `plain` (`README.md:27`), which the
validator refuses (`DefaultAuthorizeRequestValidator.cs:220`).

## Proofs

The theorems hold for any number of browsers, keys, handlers, clients, logins,
callers, names, rows, visits and processes. Each rests on an inductive invariant of
its module, mostly `IInv`, which a run checks with TLC as well. (That of
`AuthorizeRequestValidation` is little more than the two properties its run checks;
`PagesSound` of the consent page is stated with its proof.) The assumptions are those
of the modules (`NoneAssumption`: the absent value is none of the others; `ConstantsAssumption`
in the core: what is a request, and that the validator refuses a code challenge
with an implicit request).

**`OIDCPipeline_proofs`** proves all safety properties of the core.

* `Invariance`: `IInv` says that whatever is kept under a key
  stems from the request the key was minted for: in the store (`StoreBound`), in
  cookies and at the identity provider (`BrowserBound`) and in the hands of
  handlers (`HandlerBound`). The safety properties are not inductive alone: a
  grant is made from what a handler read, long after the store has changed.
  The one step that is not a frame argument is `AuthorizeStore`: a fresh key is
  named by nothing, so that giving it a request and an owner disturbs nothing.
  `TypeCorrect`, `GrantsAreTheRequesters` and `RedirectsAreTheOwners` are its
  conjuncts.
* `DeathIsFinal`: a step takes no key from dead to alive, because every writer
  begins by finding the original request and that is stored only once
  (`DeadStep`, from `IInv`).
* `RedemptionInvariance`: `RedemptionInv` is inductive relative to `IInv`; of two
  handlers that redeem one code at the same time one has put it in `raced`, and a
  handler about to remove the response has removed the request. With `DeadStep`
  this gives `PresentedCodesDie` and `CodesGrantOnce`.
* `FlowInvariance`: `FlowInv` follows the writes of a login that is stored once and
  posted once. There is no post before the first login (`PostsCounted`,
  `LoginsCounted`), so at most one handler of a post works on such a key, and each
  write that is due, the page's entries and the generator's nonce, is in the entry
  or in the copy which that handler will store (`HoldsWrites`, `WritesKept`).
  `GrantsAreComplete` and `DirectResponsesLeaveNothing` follow.
* `KeysAreCodes`: every step of the core is a step of `OneTimeCode` or leaves its
  variables alone. Opening is `AuthorizeStore`; a key dies by whichever removal,
  expiry, failure or restart takes the last of its two entries and writers, and
  never comes back (`DeadStep`); a claim is settled by `TokenDeleteDownstream`, and
  by `RedemptionInv` the code is dead then or contended.
* `RequestlessKeysAreSpent`: `RequestlessKeysRunDown` is the safety half of
  `EntriesVanish`. By `IInv` an original entry is stored only for a fresh key, so one
  that is gone stays gone (`RunDownStep`); whoever is to write a response entry found
  the request first, so that no handler starts to; and each of those that are left
  moves on to its last write (`WriterMoves`, `WritesLeftOrder`). Fairness adds that
  they do move and that the cache evicts what they wrote.
* `AnswersComeFirst`: tokens, codes and redirects are only of logins the identity
  provider has answered. The host's sign-ins give no such guarantee; it comes from the
  store, since a response entry begins with the provider's answer, and a handler that
  answers has one in its hands (`FlowInv`, `GrantsFollowAnswers`).

**`OneTimeCode_proofs`**: of a code that is not contended tokens are had at most once,
and none is live once settled. The hypothesis `Absence` (the absent value is none of
the requests and claims) is stated with the theorems, so that the instance in the
core owes nothing but what it proves.

**`SharedOptions_proofs`**: while a login is not disturbed the options hold its
client's id and secret at every point where it relies on them (`Relies`). A write
disturbs, by definition, everyone who relies on another client.
`RefusedLoginsWereDisturbed` follows.

**`ConsentPage_proofs`**: `IInv` says that a seeding process nobody overtook knows the
row of its name (`SeedingSound`), and that whatever a process keeps or a visit has
read of a row, the row has held since that process started (`HeldBound`,
`VisitBound`). `NamesAreUnique` and `AuthoritiesAreTheRows` follow. `PagesSound`,
inductive relative to it, adds that a visit has no token before it is decided, and
then the one its answers make (`TokensHoldConsent`, `RefusalsAreShown`).

**`NativeLogin_proofs`**: the source of a listener is what it heard first
(`SourceIsHeard`), a code is at the orchestrator for its login alone (`CodeSound`),
and each login stands where its source has put it (`LoginSound`). All that can
reach a listener goes through one lemma, `HearingKeepsIInv`. `BegunLoginsRunDown` is
the safety half of `LoginsEnd`: each step of a login brings it nearer to its end
(`StepsLeftOrder`), who listens has the port, whoever else wants it
(`ListenersHavePort`), and a port given back is never the same login's again
(`LoginsRunDown`).

**`ConsentDiscovery_proofs`**: `IInv` ties callers, lazies and caches together
(`CallersBound`, `TasksBound`, `CachesBound`). The crucial conjunct, `NoCachedFailure`,
is that a failed task is never what a cache shows to a caller that need not
reload: whoever fails sets the reload time to now before anything else can look.
`DocumentsStayFresh` rests on `FreshInv`, which has the arithmetic on the clock: the
age of the document a cache shows and the time to its reload never exceed a
document's time and the longest fetch together (`ReloadsTimed`), because a fetch
that is still under way is at least as old as the document that overtook it
(`OvertakenFetches`) and no older than the longest fetch (`FetchesTimed`); so
whatever a caller is about to take is fresh (`HoldsFresh`). `FreshInvariance` states
that invariant. `AwaitedTasksAreNotStopped` is the safety half of `CallersAreAnswered`:
a request waits for a task that somebody started, and each step either leaves that
task alone or takes it one of the ways to its end (`AwaitedTasksRunOn`). What a step
can make of a task, of a cache's field and of a request is stated once (`Moves`,
`StepMoves`); an object somebody refers to is not free, so nobody takes it for
another task, and by `WaitInv` nobody waits for a task that was not started.

**`ExternalLogin_proofs`**: in `IInv`, every request between its insertion and its
deletion owns a user of its name under an id nobody else has (`RequestBound`,
`OwnIds`, `UsersAreScratch`); a user outside `crossed` is the only one of its name,
so that the second validation finds it and its claims are saved (`ClaimsBound`); an
undisturbed browser has one request at a time, and what that request knows of the
session contains the key of the browser's cookie (`SessionBound`).
`SessionBound` is stated for every page that begins, so that `PassesStep` serves them
all: of two requests of one browser the second to begin disturbs it. Steps that move
one request on and leave the store alone go through `MovesOn`.
`RefusalsCollide` is an action property: the user of an allowed name that a login
collides with is a registered one or has, by `UsersAreScratch`, an owner at work.

**`AuthorizeRequestValidation_proofs`**: the two properties for every client store,
so that the core's assumption on `Requests` is discharged. The tables are compared
in two ways, and the argument is about where they meet: only `code` maps to the
code flow (`CodeFlowIsCode`), and only `code` is what the comparer takes for `code`
(`OnlyCodeIsCode`, by counting words). `AcceptedIsCoreRequest` and
`AcceptedCanBeAnswered` are facts about one request; the invariant only carries
them over the one step.

Only model-checked: `EntriesVanish`, `CallersAreAnswered` and `LoginsEnd`, which are
liveness under fairness and so out of the prover's reach. The safety halves of all
three are proved (`RequestlessKeysAreSpent`, `AwaitedTasksAreNotStopped`,
`BegunLoginsRunDown`).

## Not modelled

`PROJECT.json` lists every component with its reason. In short:

* *Code no host runs.* The store that reads clients from the database
  (`EFOIDCPipelineClientStore`), the twelve-hour cache in front of it, the memory
  store, the task queue and the timed lock: no host registers the first three and
  nothing calls the last two. What a run would show of them would be about a caller
  we had invented. Nor are the tables of downstream configurations modelled: an
  instance in development seeds them like the external services, but only that
  store would read them, and nothing calls their other upserts and deletions.
* *Earlier hosts* over the same pipeline, with the in-memory identity store they
  use. Their events are variants of those in `OIDCConsentOrchestrator`.
* *Stateless code*: the rendering of a decided response as query, fragment or form;
  the routing of a path to its endpoint; the discovery endpoint, a copy of the
  downstream document with three URLs replaced; logging.
* *Operations nobody here calls*: the e-mail form of the external login page, to which
  no page of the flow leads, and the copied client library.
* *The rest of the account pages*: confirmation, two factors and passwords, which alter
  registered users in what no property tells apart. The change of an e-mail address,
  and with it of the user name, is the deletion and the registration of a user.
* *Scaffolding*: web clients and test hosts, the sample external service (it is the
  environment of `ConsentPage`).
* *Browser scripts*. The program is C# throughout. The only JavaScript of the
  repository is jQuery, its plug-ins and Bootstrap, which the project template
  copies into every web application, and a `site.js` with a comment in it.

One hazard has no property: a cookie protected with data-protection keys that a
restarted process has lost makes `Unprotect` throw on every request
(`OIDCPipeLineKey.cs:36`). Where the framework keeps those keys is outside the code.

## Plan

Done: the core with its proofs, its abstract specification `OneTimeCode` and
the refinement; `SharedOptions`; `AuthorizeRequestValidation`;
`ConsentDiscovery`; `ExternalLogin`; `ConsentPage` with the accessor's map and the
seeding of the external services; `NativeLogin`; proofs of all safety properties the
runs check, and of the safety halves of the liveness properties.

Left to model is `ClientConfiguration`, for the upserts of clients and the
twelve-hour cache in front of them, on the day a host registers that store: each
upsert is a read and a write without a unique index, like the one in `ConsentPage`.
