---------------------------- MODULE ConsentPage ----------------------------
(***************************************************************************)
(* The AuthorizeConsent page: it asks every external service that a        *)
(* requested scope names for the user's consent, and requests a token with *)
(* the scopes the services grant.  The services are rows of a database     *)
(* that several instances of the host share; an instance in development    *)
(* seeds one of them when it starts.                                       *)
(*                                                                         *)
(* What a service answers is the environment's choice.  Each await of the  *)
(* page is a step, and so is each access of the accessor's map.            *)
(***************************************************************************)
EXTENDS FiniteSets

CONSTANTS
  Instances,    \* processes of the host
  Visits,       \* requests for the page in flight
  Ids,          \* Guids of rows (bounds the inserts)
  Names,        \* service names
  Seeded,       \* the name Startup seeds
  Authorities,  \* authorities of services
  WellFormed,   \* those ConsentDiscoveryEndpoint.ParseUrl accepts
  Scopes,       \* scopes under the base URL
  ScopesOf,     \* the scopes that begin with the base URL and a name
  Requests,     \* the sets of scopes that clients request
  Grants,       \* the sets of scopes that services grant
  None          \* null

ASSUME ConstantsAssumption ==
  /\ Seeded \in Names
  /\ WellFormed \subseteq Authorities
  /\ ScopesOf \in [Names -> SUBSET Scopes]
  /\ Requests \subseteq SUBSET Scopes
  /\ Grants \subseteq SUBSET Scopes

Row == [ name : Names, authority : Authorities ]

\* Services the page has read from the database.
Entity == [ id : Ids, name : Names, authority : Authorities ]

\* AuthorizationType of a document; "other" is any in which no scopes are sent:
\* "implicit", "subject", one unknown to the page, or none at all, as in the
\* document that reports an error.
Types == { "subject_and_scopes", "other" }

\* The response of a service.  None is one the page cannot read: there is none,
\* it is null, or it consents and does not list scopes.
Response == [ authorized : {TRUE}, scopes : SUBSET Scopes ] \cup
            [ authorized : {FALSE}, scopes : {None} \cup SUBSET Scopes ]

\* A service that was asked, and its response.
Container == [ id : Ids, name : Names, type : Types, response : {None} \cup Response ]

ASSUME NoneAssumption ==
  /\ None \notin Instances \cup Ids \cup Authorities
  /\ None \notin Row \cup Entity \cup Response
  /\ \A scopes \in SUBSET Scopes : scopes # None

VARIABLES
  rows,       \* the ExternalServices table
  instance,   \* each process: where its start is, and what it seeds
  caches,     \* each process: the authority of the cache it keeps for a row
  visit,      \* each request for the page
  (* history *)
  held,       \* the authorities each row had since a process started
  overlapped  \* two processes seeded at the same time

vars == << rows, instance, caches, visit, held, overlapped >>

Down == [ pc |-> "down", authority |-> None, found |-> None ]
Instance == [ pc : { "down", "seeding", "up" },
              authority : Authorities \cup {None}, found : Ids \cup {None} ]

Gone == [ pc |-> "gone", instance |-> None, scopes |-> {}, todo |-> {},
          entity |-> None, containers |-> {}, token |-> None ]
Visit == [ pc : { "gone", "next", "create", "ask", "shown", "failed" },
           instance : Instances \cup {None}, scopes : SUBSET Scopes,
           todo : SUBSET Entity, entity : Entity \cup {None},
           containers : SUBSET Container, token : {None} \cup SUBSET Scopes ]

BusyPcs == { "next", "create", "ask" }
Busy(v) == visit[v].pc \in BusyPcs

NamedRows(n) == { d \in Ids : rows[d] # None /\ rows[d].name = n }

\* The table begins with services that were entered one by one.
Init ==
  /\ rows \in [Ids -> {None} \cup Row]
  /\ \A d, e \in Ids : rows[d] # None /\ rows[e] # None /\ d # e
                       => rows[d].name # rows[e].name
  /\ instance = [i \in Instances |-> Down]
  /\ caches = [i \in Instances |-> [d \in Ids |-> None]]
  /\ visit = [v \in Visits |-> Gone]
  /\ held = [i \in Instances |-> [d \in Ids |-> {}]]
  /\ overlapped = FALSE

-----------------------------------------------------------------------------
(* Startup.Configure and OIDCConsentOrchestratorAdmin.UpsertEntityAsync *)

Held(d) == IF rows[d] = None THEN {} ELSE { rows[d].authority }

SeedingNow == { i \in Instances : instance[i].pc = "seeding" }

\* Only in development does a process seed, with the authority its version of
\* Startup names.  It begins with FirstOrDefault of the rows of that name ...
Start(i) ==
  /\ instance[i].pc = "down"
  /\ \/ /\ instance' = [instance EXCEPT ![i].pc = "up"]
        /\ UNCHANGED overlapped
     \/ /\ \E a \in Authorities,
              d \in IF NamedRows(Seeded) = {} THEN {None} ELSE NamedRows(Seeded) :
              instance' = [instance EXCEPT ![i] =
                             [ pc |-> "seeding", authority |-> a, found |-> d ]]
        /\ overlapped' = (overlapped \/ SeedingNow # {})
  /\ held' = [held EXCEPT ![i] = [d \in Ids |-> Held(d)]]
  /\ UNCHANGED << rows, caches, visit >>

SaveRow(d, r) ==
  /\ rows' = [rows EXCEPT ![d] = r]
  /\ held' = [i \in Instances |->
                IF instance[i].pc = "down" THEN held[i]
                ELSE [held[i] EXCEPT ![d] = @ \cup {r.authority}]]

\* Mutant: every save inserts.
SeedSaveInserting(i) ==
  /\ instance[i].pc = "seeding"
  /\ \E d \in Ids :
       /\ rows[d] = None
       /\ SaveRow(d, [ name |-> Seeded, authority |-> instance[i].authority ])
  /\ instance' = [instance EXCEPT ![i] = [Down EXCEPT !.pc = "up"]]
  /\ UNCHANGED << caches, visit, overlapped >>

\* ... and the update of the row found, or the insert of a new one.
SeedSave(i) ==
  /\ instance[i].pc = "seeding"
  /\ \E d \in Ids :
       /\ IF instance[i].found = None THEN rows[d] = None ELSE d = instance[i].found
       /\ SaveRow(d, [ name |-> Seeded, authority |-> instance[i].authority ])
  /\ instance' = [instance EXCEPT ![i] = [Down EXCEPT !.pc = "up"]]
  /\ UNCHANGED << caches, visit, overlapped >>

\* The process dies, or is replaced; its visits and its map go with it.
Crash(i) ==
  /\ instance[i].pc # "down"
  /\ instance' = [instance EXCEPT ![i] = Down]
  /\ visit' = [v \in Visits |-> IF visit[v].instance = i THEN Gone ELSE visit[v]]
  /\ caches' = [caches EXCEPT ![i] = [d \in Ids |-> None]]
  /\ held' = [held EXCEPT ![i] = [d \in Ids |-> {}]]
  /\ UNCHANGED << rows, overlapped >>

-----------------------------------------------------------------------------
(* AuthorizeConsentModel.OnGetAsync *)

\* The scopes come from the stored request, without which the page fails at
\* once.  The services to ask are the rows whose name begins one of them.
Begin(v, i, scopes) ==
  /\ ~Busy(v)
  /\ instance[i].pc = "up"
  /\ visit' = [visit EXCEPT ![v] =
       [ Gone EXCEPT !.pc = "next", !.instance = i, !.scopes = scopes,
           !.todo = { e \in Entity :
                        /\ rows[e.id] = [ name |-> e.name, authority |-> e.authority ]
                        /\ ScopesOf[e.name] \cap scopes # {} } ]]
  /\ UNCHANGED << rows, instance, caches, held, overlapped >>

\* What the accessor finds for e: the cache made for its id, whatever authority
\* the row has had since.
Keep(v, e, authority) ==
  visit' = [visit EXCEPT ![v].pc = "ask", ![v].entity = [e EXCEPT !.authority = authority]]

\* Mutant: the map is keyed by name, so that rows of one name share a cache.
LookupByName(v, e) ==
  LET known == { d \in Ids : /\ caches[visit[v].instance][d] # None
                             /\ rows[d].name = e.name }
  IN
  /\ visit[v].pc = "next"
  /\ e \in visit[v].todo
  /\ IF known = {}
     THEN visit' = [visit EXCEPT ![v].pc = "create", ![v].entity = e]
     ELSE \E d \in known : Keep(v, e, caches[visit[v].instance][d])
  /\ UNCHANGED << rows, instance, caches, held, overlapped >>

\* Mutant: a missing cache is not noticed.
LookupUnchecked(v, e) ==
  /\ visit[v].pc = "next"
  /\ e \in visit[v].todo
  /\ Keep(v, e, caches[visit[v].instance][e.id])
  /\ UNCHANGED << rows, instance, caches, held, overlapped >>

\* GetConsentDiscoveryCache: TryGetValue ...
Lookup(v, e) ==
  LET cached == caches[visit[v].instance][e.id] IN
  /\ visit[v].pc = "next"
  /\ e \in visit[v].todo
  /\ IF cached = None
     THEN visit' = [visit EXCEPT ![v].pc = "create", ![v].entity = e]
     ELSE Keep(v, e, cached)
  /\ UNCHANGED << rows, instance, caches, held, overlapped >>

\* ... and TryAdd, which leaves the map alone if another visit was first.
Create(v) ==
  LET e == visit[v].entity IN
  /\ visit[v].pc = "create"
  /\ caches' = [caches EXCEPT ![visit[v].instance][e.id] =
                                IF @ = None THEN e.authority ELSE @]
  /\ Keep(v, e, e.authority)
  /\ UNCHANGED << rows, instance, held, overlapped >>

\* What a service may answer.  Errors become a refusal that repeats the scopes
\* the service was sent.
Answers(sent) ==
  {None} \cup [ authorized : {FALSE}, scopes : {sent} ]
         \cup [ authorized : {TRUE}, scopes : Grants ]

Answered(v, type, response) ==
  LET e == visit[v].entity IN
  visit' = [visit EXCEPT
    ![v].pc = "next",
    ![v].entity = None,
    ![v].todo = { f \in @ : f.id # e.id },
    ![v].containers = @ \cup
       { [ id |-> e.id, name |-> e.name, type |-> type, response |-> response ] }]

\* The document of the service arrives, then its answer.  The scopes are sent,
\* all of them, only in one type; a service of the implicit type is not asked
\* and has no response.
Ask(v) ==
  /\ visit[v].pc = "ask"
  /\ IF visit[v].entity.authority \notin WellFormed
     THEN visit' = [visit EXCEPT ![v].pc = "failed"]
     ELSE \/ \E response \in Answers(visit[v].scopes) :
               Answered(v, "subject_and_scopes", response)
          \/ \E response \in Answers(None) : Answered(v, "other", response)
  /\ UNCHANGED << rows, instance, caches, held, overlapped >>

\* Mutant: the scopes of a refusal count as well.
GrantedWhateverAuthorized(containers) ==
  UNION { c.response.scopes : c \in { d \in containers : d.response.scopes # None } }

Granted(containers) ==
  UNION { c.response.scopes : c \in { d \in containers : d.response.authorized } }

\* Mutant: a refusal is taken for a failure.
FinishIfAllConsent(v) ==
  LET containers == visit[v].containers IN
  /\ visit[v].pc = "next"
  /\ visit[v].todo = {}
  /\ IF \E c \in containers : c.response = None \/ ~c.response.authorized
     THEN visit' = [visit EXCEPT ![v].pc = "failed"]
     ELSE visit' = [visit EXCEPT
            ![v].token = Granted(containers),
            ![v].pc = IF \A c \in containers : c.type = "subject_and_scopes"
                      THEN "shown" ELSE "failed"]
  /\ UNCHANGED << rows, instance, caches, held, overlapped >>

\* The token is requested once every service was asked; after that the view
\* lists the scopes sent to each of them, which only one type has.
Finish(v) ==
  LET containers == visit[v].containers IN
  /\ visit[v].pc = "next"
  /\ visit[v].todo = {}
  /\ IF \E c \in containers : c.response = None
     THEN visit' = [visit EXCEPT ![v].pc = "failed"]
     ELSE visit' = [visit EXCEPT
            ![v].token = Granted(containers),
            ![v].pc = IF \A c \in containers : c.type = "subject_and_scopes"
                      THEN "shown" ELSE "failed"]
  /\ UNCHANGED << rows, instance, caches, held, overlapped >>

-----------------------------------------------------------------------------

Proceed(v) ==
  \/ \E e \in Entity : Lookup(v, e)
  \/ Create(v)
  \/ Ask(v)
  \/ Finish(v)

Next ==
  \/ \E i \in Instances : Start(i) \/ SeedSave(i) \/ Crash(i)
  \/ \E v \in Visits, i \in Instances, scopes \in Requests : Begin(v, i, scopes)
  \/ \E v \in Visits : Proceed(v)

Spec == Init /\ [][Next]_vars

-----------------------------------------------------------------------------
(* Properties *)

\* Every variable holds a value of its kind.
TypeOK ==
  /\ rows \in [Ids -> Row \cup {None}]
  /\ instance \in [Instances -> Instance]
  /\ caches \in [Instances -> [Ids -> Authorities \cup {None}]]
  /\ visit \in [Visits -> Visit]
  /\ held \in [Instances -> [Ids -> SUBSET Authorities]]
  /\ overlapped \in BOOLEAN

\* The services of a visit q, asked or yet to ask.
Services(q) == { << e.id, e.name >> : e \in q.todo \cup q.containers }

NoNamesakes(pairs) == \A s, t \in pairs : s[2] = t[2] => s = t

\* The table has no unique index on the name, and seeding checks before it
\* inserts; yet a name has one row, and a visit asks one service of a name, as
\* long as no two processes seeded at once.
OneServicePerName ==
  overlapped \/
    /\ \A d, e \in Ids : rows[d] # None /\ rows[e] # None /\ d # e
                        => rows[d].name # rows[e].name
    /\ \A v \in Visits : NoNamesakes(Services(visit[v]))

\* The accessor keeps the authority a row had first.  Still, what a visit asks
\* is an authority its own row has had since the process started: the current
\* one, if nobody changed it since then.
AsksAnAuthorityOfTheRow ==
  \A v \in Visits :
    visit[v].pc = "ask" =>
      visit[v].entity.authority \in held[visit[v].instance][visit[v].entity.id]

\* A scope that every service refused, or whose services failed, is not in the
\* token, although the refusals carry the scopes too; and none of the scopes
\* that were granted is lost.
TokenHoldsConsent ==
  \A v \in Visits : visit[v].token # None =>
    /\ visit[v].todo = {}
    /\ \A s \in Scopes :
         s \in visit[v].token <=>
           \E c \in visit[v].containers : /\ c.response # None
                                          /\ c.response.authorized
                                          /\ s \in c.response.scopes

\* Services that refuse or cannot be reached do not fail the page, as long as
\* they state the type that has scopes, and their responses can be read.
RefusalsDoNotFailThePage ==
  \A v \in Visits : visit[v].pc = "failed" =>
    \/ visit[v].entity # None /\ visit[v].entity.authority \notin WellFormed
    \/ \E c \in visit[v].containers : \/ c.type # "subject_and_scopes"
                                       \/ c.response = None

-----------------------------------------------------------------------------
(* The inductive invariant behind OneServicePerName and                     *)
(* AsksAnAuthorityOfTheRow.                                                 *)

\* Unless it was overtaken, a seeding process knows the row of its name.
SeedingSound ==
  /\ \A i \in SeedingNow :
       instance[i].authority # None
       /\ (instance[i].found # None => instance[i].found \in NamedRows(Seeded))
  /\ ~overlapped =>
       /\ \A i, j \in SeedingNow : i = j
       /\ \A i \in SeedingNow : instance[i].found = None => NamedRows(Seeded) = {}

\* What a process keeps of a row, the row has held since the process started.
HeldBound ==
  \A i \in Instances, d \in Ids :
    /\ instance[i].pc = "down" => caches[i][d] = None
    /\ instance[i].pc # "down" /\ rows[d] # None => rows[d].authority \in held[i][d]
    /\ caches[i][d] # None => caches[i][d] \in held[i][d]

\* So has what a visit has read of it.
WasHeld(q, e) == e.authority \in held[q.instance][e.id]

VisitBound(q) ==
  q.pc \in BusyPcs =>
    /\ q.instance \in Instances
    /\ instance[q.instance].pc = "up"
    /\ \A e \in q.todo : WasHeld(q, e)
    /\ q.pc \in { "create", "ask" } =>
         /\ q.entity # None
         /\ WasHeld(q, q.entity)
         /\ << q.entity.id, q.entity.name >> \in Services(q)

IInv ==
  /\ TypeOK
  /\ OneServicePerName
  /\ SeedingSound
  /\ HeldBound
  /\ \A v \in Visits : VisitBound(visit[v])

=============================================================================
