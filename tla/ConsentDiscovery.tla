-------------------------- MODULE ConsentDiscovery --------------------------
(***************************************************************************)
(* The discovery document of one external service: found through the       *)
(* accessor's map of caches, fetched lazily, kept for a day, and shared by *)
(* all requests of the process without a lock.                             *)
(*                                                                         *)
(* A request is a thread: each access of a shared field is a step.  Time   *)
(* passes between them only in so far as the named bounds below allow.     *)
(***************************************************************************)
EXTENDS Naturals, FiniteSets

CONSTANTS
  Callers,       \* requests that ask for the document, again and again
  Caches,        \* ConsentDiscoveryCache objects
  Lazies,        \* AsyncLazy objects
  None,          \* null
  CacheDuration, \* ticks a document is cached for
  FetchTimeout   \* ticks after which the HTTP client gives a fetch up

ASSUME ConstantsAssumption ==
  /\ None \notin Caches \cup Lazies
  /\ CacheDuration \in Nat \ {0}
  /\ FetchTimeout \in Nat

VARIABLES
  map,          \* _map[service]: the cache every request should share
  lazyResponse, \* each cache: its lazy
  nextReload,   \* each cache: ticks from now to _nextReload, 0 when reached
  lazy,         \* each lazy: whose it is, its task, the task's or document's age
  caller,       \* each request: where it is and the objects it holds
  wellFormed    \* the service's authority is a URL that ParseUrl accepts

vars == << map, lazyResponse, nextReload, lazy, caller, wellFormed >>

\* Ages count up to what the properties can tell apart.
MaxAge == CacheDuration + FetchTimeout + 1

TaskStates == { "none", "unstarted", "fetching", "failing", "ok", "failed" }
Running    == { "fetching", "failing" }

\* late is history: the callers that called after the task had failed.
Lazy == [ cache : Caches \cup {None}, state : TaskStates,
          age : 0 .. MaxAge, late : SUBSET Callers ]

NewLazy(c) == [ cache |-> c, state |-> "unstarted", age |-> 0, late |-> {} ]

Pcs == { "idle", "create", "check", "refresh", "read", "value", "await" }

Caller == [ pc : Pcs, cache : Caches \cup {None}, lazy : Lazies \cup {None} ]

Idle == [ pc |-> "idle", cache |-> None, lazy |-> None ]

At(k, pc) == caller[k].pc = pc

\* Objects nobody refers to; the garbage collector frees them for reuse.
FreeLazies == { l \in Lazies : /\ lazy[l].state \notin Running
                               /\ \A c \in Caches : lazyResponse[c] # l
                               /\ \A k \in Callers : caller[k].lazy # l }
FreeCaches == { c \in Caches : /\ c # map
                               /\ \A k \in Callers : caller[k].cache # c }

\* Which of them a new object takes does not matter.
NewObject(free) == CHOOSE object \in free : TRUE

Init ==
  /\ map = None
  /\ lazyResponse = [c \in Caches |-> None]
  /\ nextReload = [c \in Caches |-> 0]
  /\ lazy = [l \in Lazies |-> [NewLazy(None) EXCEPT !.state = "none"]]
  /\ caller = [k \in Callers |-> Idle]
  /\ wellFormed \in BOOLEAN

-----------------------------------------------------------------------------
(* ConsentDiscoveryCacheAccessor.GetConsentDiscoveryCache *)

\* The call begins: TryGetValue.  Tasks that failed by now are history to it.
Call(k) ==
  /\ At(k, "idle")
  /\ caller' = [caller EXCEPT ![k].pc = IF map = None THEN "create" ELSE "check",
                              ![k].cache = map]
  /\ lazy' = [l \in Lazies |-> IF lazy[l].state = "failed"
                               THEN [lazy[l] EXCEPT !.late = @ \cup {k}]
                               ELSE lazy[l]]
  /\ UNCHANGED << map, lazyResponse, nextReload, wellFormed >>

\* TryAdd leaves the map alone when another request was first; the caller uses
\* the cache it made all the same.
Create(k) ==
  /\ At(k, "create")
  /\ FreeCaches # {}
  /\ LET c == NewObject(FreeCaches) IN
       /\ map' = IF map = None THEN c ELSE map
       /\ lazyResponse' = [lazyResponse EXCEPT ![c] = None]
       /\ nextReload' = [nextReload EXCEPT ![c] = 0]
       /\ caller' = [caller EXCEPT ![k].pc = "check", ![k].cache = c]
  /\ UNCHANGED << lazy, wellFormed >>

-----------------------------------------------------------------------------
(* ConsentDiscoveryCache.GetAsync *)

\* Mutant: once fetched, a document is kept for ever.
CheckOnlyOnce(k) ==
  /\ At(k, "check")
  /\ caller' = [caller EXCEPT ![k].pc = IF lazyResponse[caller[k].cache] = None
                                        THEN "refresh" ELSE "read"]
  /\ UNCHANGED << map, lazyResponse, nextReload, lazy, wellFormed >>

Check(k) ==
  /\ At(k, "check")
  /\ caller' = [caller EXCEPT ![k].pc = IF nextReload[caller[k].cache] = 0
                                        THEN "refresh" ELSE "read"]
  /\ UNCHANGED << map, lazyResponse, nextReload, lazy, wellFormed >>

\* Mutant: the lazy a cache has is set back instead of replaced.
RefreshInPlace(c) ==
  LET l == IF lazyResponse[c] = None THEN NewObject(FreeLazies) ELSE lazyResponse[c] IN
    /\ FreeLazies # {}
    /\ lazyResponse' = [lazyResponse EXCEPT ![c] = l]
    /\ lazy' = [lazy EXCEPT ![l] = NewLazy(c)]

\* Replaces a cache's lazy by a new one, whatever was there.
Refresh(c) ==
  LET l == NewObject(FreeLazies) IN
    /\ FreeLazies # {}
    /\ lazyResponse' = [lazyResponse EXCEPT ![c] = l]
    /\ lazy' = [lazy EXCEPT ![l] = NewLazy(c)]

CallRefresh(k) ==
  /\ At(k, "refresh")
  /\ Refresh(caller[k].cache)
  /\ caller' = [caller EXCEPT ![k].pc = "read"]
  /\ UNCHANGED << map, nextReload, wellFormed >>

ReadField(k) ==
  /\ At(k, "read")
  /\ caller' = [caller EXCEPT ![k].pc = "value",
                              ![k].lazy = lazyResponse[caller[k].cache]]
  /\ UNCHANGED << map, lazyResponse, nextReload, lazy, wellFormed >>

\* Mutant: a task is started only when the document is due.
ValueWhenDue(k) ==
  /\ At(k, "value")
  /\ lazy' = IF /\ lazy[caller[k].lazy].state = "unstarted"
                /\ nextReload[caller[k].cache] = 0
             THEN [lazy EXCEPT ![caller[k].lazy].state = "fetching"]
             ELSE lazy
  /\ caller' = [caller EXCEPT ![k].pc = "await"]
  /\ UNCHANGED << map, lazyResponse, nextReload, wellFormed >>

\* Lazy.Value starts the task for the first caller; all get the same task.
Value(k) ==
  /\ At(k, "value")
  /\ lazy' = IF lazy[caller[k].lazy].state = "unstarted"
             THEN [lazy EXCEPT ![caller[k].lazy].state = "fetching"]
             ELSE lazy
  /\ caller' = [caller EXCEPT ![k].pc = "await"]
  /\ UNCHANGED << map, lazyResponse, nextReload, wellFormed >>

Answer(k) ==
  /\ At(k, "await")
  /\ lazy[caller[k].lazy].state \in { "ok", "failed" }
  /\ caller' = [caller EXCEPT ![k] = Idle]
  /\ lazy' = [l \in Lazies |-> [lazy[l] EXCEPT !.late = @ \ {k}]]
  /\ UNCHANGED << map, lazyResponse, nextReload, wellFormed >>

-----------------------------------------------------------------------------
(* ConsentDiscoveryCache.GetResponseAsync, on a thread of its own *)

\* A malformed authority throws before anything is sent: the task faults and
\* nothing else changes.
FetchThrows(l) ==
  /\ lazy[l].state = "fetching"
  /\ ~wellFormed
  /\ lazy' = [lazy EXCEPT ![l].state = "failed"]
  /\ UNCHANGED << map, lazyResponse, nextReload, caller, wellFormed >>

FetchOk(l) ==
  /\ lazy[l].state = "fetching"
  /\ wellFormed
  /\ nextReload' = [nextReload EXCEPT ![lazy[l].cache] = CacheDuration]
  /\ lazy' = [lazy EXCEPT ![l].state = "ok", ![l].age = 0]
  /\ UNCHANGED << map, lazyResponse, caller, wellFormed >>

\* Mutant: the failed task stays; only the reload is brought forward.
FetchErrorKeepsTask(l) ==
  /\ lazy[l].state = "fetching"
  /\ wellFormed
  /\ lazy' = [lazy EXCEPT ![l].state = "failing"]
  /\ UNCHANGED << map, lazyResponse, nextReload, caller, wellFormed >>

\* IsError, a time-out included: first Refresh, then _nextReload.
FetchError(l) ==
  /\ lazy[l].state = "fetching"
  /\ wellFormed
  /\ FreeLazies # {}
  /\ LET n == NewObject(FreeLazies) IN
       /\ lazyResponse' = [lazyResponse EXCEPT ![lazy[l].cache] = n]
       /\ lazy' = [lazy EXCEPT ![l].state = "failing", ![n] = NewLazy(lazy[l].cache)]
  /\ UNCHANGED << map, nextReload, caller, wellFormed >>

FetchFailed(l) ==
  /\ lazy[l].state = "failing"
  /\ nextReload' = [nextReload EXCEPT ![lazy[l].cache] = 0]
  /\ lazy' = [lazy EXCEPT ![l].state = "failed"]
  /\ UNCHANGED << map, lazyResponse, caller, wellFormed >>

-----------------------------------------------------------------------------

\* Threads take no time that a clock of this grain would show, and a fetch
\* takes at most FetchTimeout.
Prompt ==
  /\ \A k \in Callers : \/ At(k, "idle")
                        \/ At(k, "await") /\ lazy[caller[k].lazy].state = "fetching"
  /\ \A l \in Lazies : /\ lazy[l].state # "failing"
                       /\ lazy[l].state = "fetching" => lazy[l].age < FetchTimeout

Tick ==
  /\ Prompt
  /\ nextReload' = [c \in Caches |-> IF nextReload[c] = 0 THEN 0 ELSE nextReload[c] - 1]
  /\ lazy' = [l \in Lazies |->
                IF lazy[l].state \in { "fetching", "ok" } /\ lazy[l].age < MaxAge
                THEN [lazy[l] EXCEPT !.age = @ + 1] ELSE lazy[l]]
  /\ UNCHANGED << map, lazyResponse, caller, wellFormed >>

CallerStep(k) ==
  Call(k) \/ Create(k) \/ Check(k) \/ CallRefresh(k) \/ ReadField(k) \/ Value(k) \/ Answer(k)

FetchStep(l) == FetchThrows(l) \/ FetchOk(l) \/ FetchError(l) \/ FetchFailed(l)

Next ==
  \/ \E k \in Callers : CallerStep(k)
  \/ \E l \in Lazies : FetchStep(l)
  \/ Tick

\* Threads run and a fetch ends, with whatever result.  Nobody has to call.
Fairness ==
  /\ \A k \in Callers : WF_vars(CallerStep(k) /\ ~At(k, "idle"))
  /\ \A l \in Lazies : WF_vars(FetchStep(l))

Spec == Init /\ [][Next]_vars

LiveSpec == Spec /\ Fairness

-----------------------------------------------------------------------------
(* Properties *)

TypeOK ==
  /\ map \in Caches \cup {None}
  /\ lazyResponse \in [Caches -> Lazies \cup {None}]
  /\ nextReload \in [Caches -> 0 .. CacheDuration]
  /\ lazy \in [Lazies -> Lazy]
  /\ caller \in [Callers -> Caller]
  /\ wellFormed \in BOOLEAN

\* A failed fetch is never cached: no request is handed a task that had failed
\* before the request came, however the fetches of several requests overtake
\* each other.
FailuresAreNotCached ==
  \A k \in Callers : caller[k].lazy # None => k \notin lazy[caller[k].lazy].late

Fresh(l) == lazy[l].age < CacheDuration + FetchTimeout

\* A request that reads the field now gets a document.
Shows(c) == lazyResponse[c] # None /\ lazy[lazyResponse[c]].state = "ok"

\* "CacheDuration: frequency to refresh discovery document".  A document is
\* served at most CacheDuration after it came, and when the fetch of another
\* request overtook its own, at most FetchTimeout longer.
DocumentsAreFresh ==
  \A k \in Callers :
    At(k, "await") /\ lazy[caller[k].lazy].state = "ok" => Fresh(caller[k].lazy)

\* Every request is answered, with a document or an error.
CallersAreAnswered == \A k \in Callers : ~At(k, "idle") ~> At(k, "idle")

\* A request holds the cache and the task its place in the code implies.
CallersBound ==
  \A k \in Callers :
    LET p == caller[k] IN
    /\ p.pc \notin { "idle", "create" } => p.cache \in Caches
    /\ p.pc \in { "read", "value", "await" } => lazyResponse[p.cache] \in Lazies
    /\ p.pc \in { "value", "await" } <=> p.lazy \in Lazies
    /\ p.lazy \in Lazies => lazy[p.lazy].cache = p.cache
    /\ p.pc = "read" => k \notin lazy[lazyResponse[p.cache]].late

\* Somebody waits for every fetch, a cache keeps a lazy of its own, and only
\* failed tasks have had late callers.
TasksBound ==
  /\ \A l \in Lazies :
       /\ lazy[l].state \in Running =>
            \E k \in Callers : At(k, "await") /\ caller[k].lazy = l
       /\ lazy[l].late # {} => lazy[l].state = "failed"
  /\ \A c \in Caches : lazyResponse[c] \in Lazies => lazy[lazyResponse[c]].cache = c

\* What a cache shows to a request that need not reload.
CachesBound ==
  \A c \in Caches :
    /\ nextReload[c] # 0 => wellFormed /\ lazyResponse[c] \in Lazies
    /\ wellFormed /\ lazyResponse[c] \in Lazies =>
         lazy[lazyResponse[c]].state \notin { "failing", "failed" }

\* The inductive invariant behind FailuresAreNotCached.
IInv ==
  /\ TypeOK
  /\ CallersBound
  /\ TasksBound
  /\ CachesBound
  /\ FailuresAreNotCached

\* The inductive invariant behind DocumentsAreFresh, beside IInv.  The document
\* a cache shows is as old as the cache believes, or as the longest fetch it has
\* overtaken; what a request holds or would read now was due later than now.
FetchesTimed ==
  \A l \in Lazies : /\ lazy[l].state = "unstarted" => lazy[l].age = 0
                    /\ lazy[l].state = "fetching" => lazy[l].age <= FetchTimeout

ReloadsTimed ==
  \A c \in Caches : Shows(c) /\ nextReload[c] # 0 =>
    lazy[lazyResponse[c]].age + nextReload[c] <= CacheDuration + FetchTimeout

OvertakenFetches ==
  \A l \in Lazies : lazy[l].state = "fetching" /\ Shows(lazy[l].cache) =>
    lazy[lazyResponse[lazy[l].cache]].age <= lazy[l].age

HoldsFresh(p) ==
  /\ p.pc = "read" /\ Shows(p.cache) => Fresh(lazyResponse[p.cache])
  /\ p.pc = "value" /\ Shows(p.cache) /\ lazy[p.lazy].state = "unstarted" =>
       lazy[lazyResponse[p.cache]].age = 0
  /\ p.pc \in { "value", "await" } /\ lazy[p.lazy].state = "ok" => Fresh(p.lazy)

FreshInv ==
  /\ FetchesTimed
  /\ ReloadsTimed
  /\ OvertakenFetches
  /\ \A k \in Callers : HoldsFresh(caller[k])

-----------------------------------------------------------------------------
(* What CallersAreAnswered comes down to *)

\* The ways of a task that runs.
Onward == { << "fetching", "ok" >>, << "fetching", "failing" >>,
            << "fetching", "failed" >>, << "failing", "failed" >> }

\* A request waits for a task that somebody has started, and nobody stops it or
\* takes its object for another before the request has its answer: once every
\* fetch ends, nobody waits for ever.
AwaitedTasksRunOn ==
  [][ \A k \in Callers :
        At(k, "await") =>
          LET task == lazy[caller[k].lazy].state IN
          /\ task \in Running \cup { "ok", "failed" }
          /\ \/ At(k, "idle")'
             \/ /\ caller'[k] = caller[k]
                /\ LET next == lazy'[caller[k].lazy].state IN
                   next = task \/ << task, next >> \in Onward ]_vars

\* The inductive invariant behind AwaitedTasksRunOn: what a request or a cache
\* refers to was made, and what a request waits for was started.
WaitInv ==
  /\ \A c \in Caches : lazyResponse[c] # None => lazy[lazyResponse[c]].state # "none"
  /\ \A k \in Callers :
       /\ caller[k].pc = "value" => lazy[caller[k].lazy].state # "none"
       /\ At(k, "await") => lazy[caller[k].lazy].state \notin { "none", "unstarted" }

=============================================================================
