----------------------- MODULE ConsentDiscovery_proofs -----------------------
(***************************************************************************)
(* Proofs about ConsentDiscovery: no request is handed a failure older     *)
(* than itself, whatever the number of requests, caches and tasks.         *)
(***************************************************************************)
EXTENDS ConsentDiscovery, TLAPS

\* An object taken for reuse is one that was free.
LEMMA NewObjectIsFree ==
  ASSUME NEW free, free # {}
  PROVE  NewObject(free) \in free
  BY DEF NewObject

\* A new lazy is well formed, has not failed and nobody has come too late for it.
LEMMA NewLazyType ==
  ASSUME NEW c \in Caches
  PROVE  /\ NewLazy(c) \in Lazy
         /\ NewLazy(c).state = "unstarted"
         /\ NewLazy(c).late = {}
         /\ NewLazy(c).cache = c
  BY ConstantsAssumption DEF NewLazy, Lazy, TaskStates, MaxAge

LEMMA InitIInv == Init => IInv
  <1> SUFFICES ASSUME Init PROVE IInv
    OBVIOUS
  <1> USE ConstantsAssumption
  <1>1. TypeOK
    <2>1. [NewLazy(None) EXCEPT !.state = "none"] \in Lazy
      BY DEF NewLazy, Lazy, TaskStates, MaxAge
    <2>2. Idle \in Caller
      BY DEF Idle, Caller, Pcs
    <2> QED
      BY <2>1, <2>2 DEF Init, TypeOK
  <1>2. \A k \in Callers : caller[k].pc = "idle" /\ caller[k].lazy = None
    BY DEF Init, Idle
  <1>3. \A l \in Lazies : lazy[l].state = "none" /\ lazy[l].late = {}
    BY DEF Init, NewLazy
  <1> QED
    BY <1>1, <1>2, <1>3 DEF IInv, CallersBound, TasksBound, CachesBound,
       FailuresAreNotCached, Init, Running

-----------------------------------------------------------------------------
(* GetConsentDiscoveryCache *)

LEMMA CallStep ==
  ASSUME IInv, NEW k \in Callers, Call(k)
  PROVE  IInv'
  <1> USE ConstantsAssumption
  <1>1. /\ caller' = [caller EXCEPT ![k].pc = IF map = None THEN "create" ELSE "check",
                                   ![k].cache = map]
        /\ UNCHANGED << map, lazyResponse, nextReload, wellFormed >>
        /\ caller[k].pc = "idle"
    BY DEF Call, At
  <1>2. \A l \in Lazies : /\ lazy'[l].state = lazy[l].state
                          /\ lazy'[l].cache = lazy[l].cache
                          /\ lazy[l].state # "failed" => lazy'[l].late = lazy[l].late
                          /\ lazy'[l].late \subseteq lazy[l].late \cup {k}
    BY DEF Call, IInv, TypeOK, Lazy
  <1>3. \A q \in Callers \ {k} : caller'[q] = caller[q]
    BY <1>1 DEF IInv, TypeOK
  <1>4. caller'[k].lazy = caller[k].lazy /\ caller'[k].pc \in { "create", "check" }
    BY <1>1 DEF IInv, TypeOK, Caller
  <1>5. caller'[k].pc = "check" => caller'[k].cache \in Caches
    BY <1>1 DEF IInv, TypeOK, Caller
  <1>6. TypeOK'
    <2>1. lazy' \in [Lazies -> Lazy]
      BY DEF Call, IInv, TypeOK, Lazy
    <2>2. caller' \in [Callers -> Caller]
      BY <1>1 DEF IInv, TypeOK, Caller, Pcs
    <2> QED
      BY <2>1, <2>2, <1>1 DEF IInv, TypeOK
  <1>7. caller[k].lazy \notin Lazies
    BY <1>1 DEF IInv, CallersBound
  <1>8. CallersBound'
    <2> SUFFICES ASSUME NEW q \in Callers PROVE CallersBound!(q)'
      BY DEF CallersBound
    <2> QED
      BY <1>1, <1>2, <1>3, <1>4, <1>5, <1>7 DEF IInv, CallersBound, TypeOK
  <1>9. TasksBound'
    BY <1>1, <1>2, <1>3, <1>4 DEF IInv, TasksBound, At, TypeOK
  <1>10. CachesBound'
    BY <1>1, <1>2 DEF IInv, CachesBound, TypeOK
  <1>11. FailuresAreNotCached'
    BY <1>1, <1>2, <1>3, <1>4, <1>7 DEF IInv, FailuresAreNotCached, TypeOK, Caller
  <1> QED
    BY <1>6, <1>8, <1>9, <1>10, <1>11 DEF IInv

LEMMA CreateStep ==
  ASSUME IInv, NEW k \in Callers, Create(k)
  PROVE  IInv'
  <1> USE ConstantsAssumption
  <1> DEFINE c == NewObject(FreeCaches)
  <1>0. c \in FreeCaches
    BY NewObjectIsFree DEF Create
  <1>1. /\ map' = IF map = None THEN c ELSE map
        /\ lazyResponse' = [lazyResponse EXCEPT ![c] = None]
        /\ nextReload' = [nextReload EXCEPT ![c] = 0]
        /\ caller' = [caller EXCEPT ![k].pc = "check", ![k].cache = c]
        /\ UNCHANGED << lazy, wellFormed >>
        /\ caller[k].pc = "create"
    BY DEF Create, At
  <1>2. c \in Caches /\ \A q \in Callers : caller[q].cache # c
    BY <1>0 DEF FreeCaches
  <1> HIDE DEF c
  <1>3. \A q \in Callers \ {k} : caller'[q] = caller[q]
    BY <1>1 DEF IInv, TypeOK
  <1>4. /\ caller'[k].lazy = caller[k].lazy
        /\ caller'[k].pc = "check"
        /\ caller'[k].cache = c
    BY <1>1 DEF IInv, TypeOK, Caller
  <1>5. /\ lazyResponse'[c] = None
        /\ nextReload'[c] = 0
        /\ \A d \in Caches \ {c} : /\ lazyResponse'[d] = lazyResponse[d]
                                   /\ nextReload'[d] = nextReload[d]
    BY <1>1, <1>2 DEF IInv, TypeOK
  <1>6. TypeOK'
    <2>1. caller' \in [Callers -> Caller]
      BY <1>1, <1>2 DEF IInv, TypeOK, Caller, Pcs
    <2> QED
      BY <2>1, <1>1, <1>2 DEF IInv, TypeOK
  <1>7. caller[k].lazy \notin Lazies
    BY <1>1 DEF IInv, CallersBound
  <1>8. CallersBound'
    <2> SUFFICES ASSUME NEW q \in Callers PROVE CallersBound!(q)'
      BY DEF CallersBound
    <2>1. CASE q = k
      BY <2>1, <1>4, <1>2, <1>7, <1>1 DEF IInv, CallersBound
    <2>2. CASE q # k
      BY <2>2, <1>3, <1>2, <1>5, <1>1 DEF IInv, CallersBound, TypeOK
    <2> QED
      BY <2>1, <2>2
  <1>9. TasksBound'
    BY <1>1, <1>2, <1>3, <1>4, <1>5 DEF IInv, TasksBound, At, TypeOK
  <1>10. CachesBound'
    BY <1>1, <1>2, <1>5 DEF IInv, CachesBound, TypeOK
  <1>11. FailuresAreNotCached'
    BY <1>1, <1>3, <1>4, <1>7 DEF IInv, FailuresAreNotCached, TypeOK, Caller
  <1> QED
    BY <1>6, <1>8, <1>9, <1>10, <1>11 DEF IInv
-----------------------------------------------------------------------------
(* GetAsync *)

LEMMA CheckStep ==
  ASSUME IInv, NEW k \in Callers, Check(k)
  PROVE  IInv'
  <1> USE ConstantsAssumption
  <1>1. /\ caller' = [caller EXCEPT ![k].pc = IF nextReload[caller[k].cache] = 0
                                             THEN "refresh" ELSE "read"]
        /\ UNCHANGED << map, lazyResponse, nextReload, lazy, wellFormed >>
        /\ caller[k].pc = "check"
    BY DEF Check, At
  <1>2. \A q \in Callers \ {k} : caller'[q] = caller[q]
    BY <1>1 DEF IInv, TypeOK
  <1>3. /\ caller'[k].lazy = caller[k].lazy
        /\ caller'[k].cache = caller[k].cache
        /\ caller'[k].pc = IF nextReload[caller[k].cache] = 0 THEN "refresh" ELSE "read"
    BY <1>1 DEF IInv, TypeOK, Caller
  <1>4. TypeOK'
    <2>1. caller' \in [Callers -> Caller]
      BY <1>1 DEF IInv, TypeOK, Caller, Pcs
    <2> QED
      BY <2>1, <1>1 DEF IInv, TypeOK
  <1>5. caller[k].lazy \notin Lazies /\ caller[k].cache \in Caches
    BY <1>1 DEF IInv, CallersBound
  \* Where no reload is due the cached task has not failed: nobody is late for it.
  <1>6. ASSUME caller'[k].pc = "read"
        PROVE  /\ lazyResponse[caller[k].cache] \in Lazies
               /\ k \notin lazy[lazyResponse[caller[k].cache]].late
    <2>1. nextReload[caller[k].cache] # 0
      BY <1>6, <1>3
    <2>2. wellFormed /\ lazyResponse[caller[k].cache] \in Lazies
      BY <2>1, <1>5 DEF IInv, CachesBound
    <2>3. lazy[lazyResponse[caller[k].cache]].state # "failed"
      BY <2>2, <1>5 DEF IInv, CachesBound
    <2> QED
      BY <2>2, <2>3 DEF IInv, TasksBound
  <1>7. CallersBound'
    <2> SUFFICES ASSUME NEW q \in Callers PROVE CallersBound!(q)'
      BY DEF CallersBound
    <2>1. CASE q = k
      BY <2>1, <1>1, <1>3, <1>5, <1>6
    <2>2. CASE q # k
      BY <2>2, <1>1, <1>2 DEF IInv, CallersBound
    <2> QED
      BY <2>1, <2>2
  <1>8. TasksBound'
    BY <1>1, <1>2 DEF IInv, TasksBound, At
  <1>9. CachesBound'
    BY <1>1 DEF IInv, CachesBound
  <1>10. FailuresAreNotCached'
    BY <1>1, <1>2, <1>3 DEF IInv, FailuresAreNotCached
  <1> QED
    BY <1>4, <1>7, <1>8, <1>9, <1>10 DEF IInv

LEMMA ReadFieldStep ==
  ASSUME IInv, NEW k \in Callers, ReadField(k)
  PROVE  IInv'
  <1> USE ConstantsAssumption
  <1>1. /\ caller' = [caller EXCEPT ![k].pc = "value",
                                   ![k].lazy = lazyResponse[caller[k].cache]]
        /\ UNCHANGED << map, lazyResponse, nextReload, lazy, wellFormed >>
        /\ caller[k].pc = "read"
    BY DEF ReadField, At
  <1>2. \A q \in Callers \ {k} : caller'[q] = caller[q]
    BY <1>1 DEF IInv, TypeOK
  <1>3. /\ caller'[k].lazy = lazyResponse[caller[k].cache]
        /\ caller'[k].cache = caller[k].cache
        /\ caller'[k].pc = "value"
    BY <1>1 DEF IInv, TypeOK, Caller
  <1>4. /\ caller[k].cache \in Caches
        /\ lazyResponse[caller[k].cache] \in Lazies
        /\ k \notin lazy[lazyResponse[caller[k].cache]].late
        /\ lazy[lazyResponse[caller[k].cache]].cache = caller[k].cache
    BY <1>1 DEF IInv, CallersBound, TasksBound
  <1>5. TypeOK'
    <2>1. caller' \in [Callers -> Caller]
      BY <1>1, <1>4 DEF IInv, TypeOK, Caller, Pcs
    <2> QED
      BY <2>1, <1>1 DEF IInv, TypeOK
  <1>6. CallersBound'
    <2> SUFFICES ASSUME NEW q \in Callers PROVE CallersBound!(q)'
      BY DEF CallersBound
    <2>1. CASE q = k
      BY <2>1, <1>1, <1>3, <1>4
    <2>2. CASE q # k
      BY <2>2, <1>1, <1>2 DEF IInv, CallersBound
    <2> QED
      BY <2>1, <2>2
  <1>7. TasksBound'
    <2>1. \A q \in Callers : At(q, "await") => q # k
      BY <1>1 DEF At
    <2>2. \A q \in Callers : At(q, "await") => At(q, "await")' /\ caller'[q] = caller[q]
      BY <2>1, <1>2 DEF At
    <2> QED
      BY <1>1, <2>2 DEF IInv, TasksBound
  <1>8. CachesBound'
    BY <1>1 DEF IInv, CachesBound
  <1>9. FailuresAreNotCached'
    BY <1>1, <1>2, <1>3, <1>4 DEF IInv, FailuresAreNotCached
  <1> QED
    BY <1>5, <1>6, <1>7, <1>8, <1>9 DEF IInv

LEMMA ValueStep ==
  ASSUME IInv, NEW k \in Callers, Value(k)
  PROVE  IInv'
  <1> USE ConstantsAssumption
  <1> DEFINE z == caller[k].lazy
  <1>1. /\ caller' = [caller EXCEPT ![k].pc = "await"]
        /\ lazy' = IF lazy[z].state = "unstarted"
                   THEN [lazy EXCEPT ![z].state = "fetching"] ELSE lazy
        /\ UNCHANGED << map, lazyResponse, nextReload, wellFormed >>
        /\ caller[k].pc = "value"
    BY DEF Value, At
  <1>2. z \in Lazies
    BY <1>1 DEF IInv, CallersBound
  <1>3. \A q \in Callers \ {k} : caller'[q] = caller[q]
    BY <1>1 DEF IInv, TypeOK
  <1>4. /\ caller'[k].lazy = z
        /\ caller'[k].cache = caller[k].cache
        /\ caller'[k].pc = "await"
    BY <1>1 DEF IInv, TypeOK, Caller
  <1>5. \A l \in Lazies : /\ lazy'[l].late = lazy[l].late
                          /\ lazy'[l].cache = lazy[l].cache
                          /\ l # z => lazy'[l].state = lazy[l].state
                          /\ \/ lazy'[l].state = lazy[l].state
                             \/ lazy[l].state = "unstarted" /\ lazy'[l].state = "fetching"
    BY <1>1, <1>2 DEF IInv, TypeOK, Lazy
  <1>6. TypeOK'
    <2>1. caller' \in [Callers -> Caller]
      BY <1>1 DEF IInv, TypeOK, Caller, Pcs
    <2>2. lazy' \in [Lazies -> Lazy]
      BY <1>1, <1>2 DEF IInv, TypeOK, Lazy, TaskStates
    <2> QED
      BY <2>1, <2>2, <1>1 DEF IInv, TypeOK
  <1> HIDE DEF z
  <1>7. CallersBound'
    <2> SUFFICES ASSUME NEW q \in Callers PROVE CallersBound!(q)'
      BY DEF CallersBound
    <2>1. CASE q = k
      <3>1. lazyResponse[caller[k].cache] \in Lazies /\ lazy[z].cache = caller[k].cache
            /\ caller[k].cache \in Caches
        BY <1>1, <1>2 DEF IInv, CallersBound, z
      <3> QED
        BY <2>1, <3>1, <1>1, <1>2, <1>4, <1>5
    <2>2. CASE q # k
      BY <2>2, <1>1, <1>3, <1>5 DEF IInv, CallersBound
    <2> QED
      BY <2>1, <2>2
  <1>8. TasksBound'
    <2>1. \A l \in Lazies : lazy'[l].state \in Running =>
             \E q \in Callers : caller'[q].pc = "await" /\ caller'[q].lazy = l
      <3> SUFFICES ASSUME NEW l \in Lazies, lazy'[l].state \in Running
                   PROVE  \E q \in Callers : caller'[q].pc = "await" /\ caller'[q].lazy = l
        OBVIOUS
      <3>1. CASE l = z
        BY <3>1, <1>4
      <3>2. CASE l # z
        <4>1. PICK q \in Callers : At(q, "await") /\ caller[q].lazy = l
          BY <3>2, <1>5 DEF IInv, TasksBound
        <4> QED
          BY <4>1, <1>1, <1>3 DEF At
      <3> QED
        BY <3>1, <3>2
    <2>2. \A l \in Lazies : lazy'[l].late # {} => lazy'[l].state = "failed"
      BY <1>5 DEF IInv, TasksBound
    <2> QED
      BY <2>1, <2>2, <1>1, <1>5 DEF IInv, TasksBound, At
  <1>9. CachesBound'
    BY <1>1, <1>5 DEF IInv, CachesBound
  <1>10. FailuresAreNotCached'
    BY <1>3, <1>4, <1>5 DEF IInv, FailuresAreNotCached, TypeOK, Caller, z
  <1> QED
    BY <1>6, <1>7, <1>8, <1>9, <1>10 DEF IInv

LEMMA CallRefreshStep ==
  ASSUME IInv, NEW k \in Callers, CallRefresh(k)
  PROVE  IInv'
  <1> USE ConstantsAssumption
  <1> DEFINE l == NewObject(FreeLazies)
             c == caller[k].cache
  <1>1. /\ FreeLazies # {}
        /\ lazyResponse' = [lazyResponse EXCEPT ![c] = l]
        /\ lazy' = [lazy EXCEPT ![l] = NewLazy(c)]
        /\ caller' = [caller EXCEPT ![k].pc = "read"]
        /\ UNCHANGED << map, nextReload, wellFormed >>
        /\ caller[k].pc = "refresh"
    BY DEF CallRefresh, Refresh, At
  <1>2. l \in FreeLazies
    BY <1>1, NewObjectIsFree
  <1>3. c \in Caches
    BY <1>1 DEF IInv, CallersBound
  <1>4. /\ NewLazy(c) \in Lazy
        /\ NewLazy(c).state = "unstarted"
        /\ NewLazy(c).late = {}
        /\ NewLazy(c).cache = c
    BY <1>3, NewLazyType
  <1>5. caller[k].lazy \notin Lazies
    BY <1>1 DEF IInv, CallersBound
  <1> HIDE DEF l, c
  <1>6. /\ l \in Lazies
        /\ \A d \in Caches : lazyResponse[d] # l
        /\ \A q \in Callers : caller[q].lazy # l
    BY <1>2 DEF FreeLazies
  <1>7. /\ \A q \in Callers \ {k} : caller'[q] = caller[q]
        /\ caller'[k].lazy = caller[k].lazy
        /\ caller'[k].cache = c
        /\ caller'[k].pc = "read"
    BY <1>1 DEF IInv, TypeOK, Caller, c
  <1>8. /\ lazyResponse'[c] = l
        /\ \A d \in Caches \ {c} : lazyResponse'[d] = lazyResponse[d]
        /\ lazy'[l] = NewLazy(c)
        /\ \A y \in Lazies \ {l} : lazy'[y] = lazy[y]
    BY <1>1, <1>3, <1>6 DEF IInv, TypeOK
  <1>9. TypeOK'
    <2>1. caller' \in [Callers -> Caller]
      BY <1>1 DEF IInv, TypeOK, Caller, Pcs
    <2>2. lazy' \in [Lazies -> Lazy]
      BY <1>1, <1>4, <1>6 DEF IInv, TypeOK
    <2> QED
      BY <2>1, <2>2, <1>1, <1>3, <1>6 DEF IInv, TypeOK
  <1>10. CallersBound'
    <2> SUFFICES ASSUME NEW q \in Callers PROVE CallersBound!(q)'
      BY DEF CallersBound
    <2>1. CASE q = k
      BY <2>1, <1>3, <1>4, <1>5, <1>6, <1>7, <1>8
    <2>2. CASE q # k
      <3>1. caller'[q] = caller[q] /\ CallersBound!(q) /\ caller[q].lazy # l
        BY <2>2, <1>6, <1>7 DEF IInv, CallersBound
      <3>2. caller[q].pc = "read" /\ caller[q].cache \in Caches =>
              q \notin lazy'[lazyResponse'[caller[q].cache]].late
        BY <3>1, <1>4, <1>6, <1>8
      <3>3. caller[q].pc \in { "read", "value", "await" } =>
              lazyResponse'[caller[q].cache] \in Lazies
        BY <3>1, <1>6, <1>8
      <3>4. caller[q].lazy \in Lazies => lazy'[caller[q].lazy].cache = caller[q].cache
        BY <3>1, <1>8
      <3> QED
        BY <3>1, <3>2, <3>3, <3>4
    <2> QED
      BY <2>1, <2>2
  <1>11. TasksBound'
    <2>1. \A y \in Lazies : lazy'[y].state \in Running =>
             \E q \in Callers : caller'[q].pc = "await" /\ caller'[q].lazy = y
      <3> SUFFICES ASSUME NEW y \in Lazies, lazy'[y].state \in Running
                   PROVE  \E q \in Callers : caller'[q].pc = "await" /\ caller'[q].lazy = y
        OBVIOUS
      <3>1. y # l /\ lazy[y].state \in Running
        BY <1>4, <1>8 DEF Running
      <3>2. PICK q \in Callers : At(q, "await") /\ caller[q].lazy = y
        BY <3>1 DEF IInv, TasksBound
      <3> QED
        BY <3>2, <1>1, <1>7 DEF At
    <2>2. \A y \in Lazies : lazy'[y].late # {} => lazy'[y].state = "failed"
      BY <1>4, <1>8 DEF IInv, TasksBound
    <2>3. \A d \in Caches : lazyResponse'[d] \in Lazies => lazy'[lazyResponse'[d]].cache = d
      BY <1>4, <1>6, <1>8 DEF IInv, TasksBound
    <2> QED
      BY <2>1, <2>2, <2>3 DEF TasksBound, At
  <1>12. CachesBound'
    BY <1>1, <1>4, <1>6, <1>8 DEF IInv, CachesBound
  <1>13. FailuresAreNotCached'
    BY <1>6, <1>7, <1>8, <1>5 DEF IInv, FailuresAreNotCached, TypeOK, Caller
  <1> QED
    BY <1>9, <1>10, <1>11, <1>12, <1>13 DEF IInv

LEMMA AnswerStep ==
  ASSUME IInv, NEW k \in Callers, Answer(k)
  PROVE  IInv'
  <1> USE ConstantsAssumption
  <1>1. /\ caller' = [caller EXCEPT ![k] = Idle]
        /\ lazy' = [l \in Lazies |-> [lazy[l] EXCEPT !.late = @ \ {k}]]
        /\ UNCHANGED << map, lazyResponse, nextReload, wellFormed >>
        /\ lazy[caller[k].lazy].state \in { "ok", "failed" }
    BY DEF Answer
  <1>2. /\ \A q \in Callers \ {k} : caller'[q] = caller[q]
        /\ caller'[k].pc = "idle"
        /\ caller'[k].lazy = None
    BY <1>1 DEF IInv, TypeOK, Idle
  <1>3. \A l \in Lazies : /\ lazy'[l].state = lazy[l].state
                          /\ lazy'[l].cache = lazy[l].cache
                          /\ lazy'[l].late \subseteq lazy[l].late
    BY <1>1 DEF IInv, TypeOK, Lazy
  <1>4. TypeOK'
    <2>1. lazy' \in [Lazies -> Lazy]
      BY <1>1 DEF IInv, TypeOK, Lazy
    <2>2. caller' \in [Callers -> Caller]
      BY <1>1 DEF IInv, TypeOK, Idle, Caller, Pcs
    <2> QED
      BY <2>1, <2>2, <1>1 DEF IInv, TypeOK
  <1>5. CallersBound'
    <2> SUFFICES ASSUME NEW q \in Callers PROVE CallersBound!(q)'
      BY DEF CallersBound
    <2>1. CASE q = k
      BY <2>1, <1>2
    <2>2. CASE q # k
      BY <2>2, <1>1, <1>2, <1>3 DEF IInv, CallersBound
    <2> QED
      BY <2>1, <2>2
  <1>6. TasksBound'
    <2>1. \A l \in Lazies : lazy'[l].state \in Running =>
             \E q \in Callers : caller'[q].pc = "await" /\ caller'[q].lazy = l
      <3> SUFFICES ASSUME NEW l \in Lazies, lazy'[l].state \in Running
                   PROVE  \E q \in Callers : caller'[q].pc = "await" /\ caller'[q].lazy = l
        OBVIOUS
      <3>1. PICK q \in Callers : At(q, "await") /\ caller[q].lazy = l
        BY <1>3 DEF IInv, TasksBound
      <3>2. q # k
        BY <3>1, <1>1, <1>3 DEF Running
      <3> QED
        BY <3>1, <3>2, <1>2 DEF At
    <2>2. \A l \in Lazies : lazy'[l].late # {} => lazy'[l].state = "failed"
      BY <1>3 DEF IInv, TasksBound
    <2>3. \A c \in Caches : lazyResponse'[c] \in Lazies => lazy'[lazyResponse'[c]].cache = c
      BY <1>1, <1>3 DEF IInv, TasksBound
    <2> QED
      BY <2>1, <2>2, <2>3 DEF TasksBound, At
  <1>7. CachesBound'
    BY <1>1, <1>3 DEF IInv, CachesBound
  <1>8. FailuresAreNotCached'
    BY <1>2, <1>3 DEF IInv, FailuresAreNotCached, TypeOK, Caller
  <1> QED
    BY <1>4, <1>5, <1>6, <1>7, <1>8 DEF IInv

-----------------------------------------------------------------------------
(* GetResponseAsync *)

\* A running task moves on; neither its cache nor its late callers change.
LEMMA TaskStep ==
  ASSUME IInv, NEW l \in Lazies, lazy[l].state \in Running,
         UNCHANGED << map, lazyResponse, caller, wellFormed >>,
         lazy' \in [Lazies -> Lazy],
         \A y \in Lazies : /\ y # l => lazy'[y].state = lazy[y].state
                           /\ lazy'[y].cache = lazy[y].cache
                           /\ lazy'[y].late = lazy[y].late,
         lazy'[l].state \notin { "failing" }
  PROVE  CallersBound' /\ TasksBound' /\ FailuresAreNotCached'
  <1>1. CallersBound'
    <2> SUFFICES ASSUME NEW q \in Callers PROVE CallersBound!(q)'
      BY DEF CallersBound
    <2> QED
      BY DEF IInv, CallersBound
  <1>2. TasksBound'
    <2>1. lazy[l].late = {}
      BY DEF IInv, TasksBound, Running
    <2>2. \A y \in Lazies : lazy'[y].state \in Running => lazy[y].state \in Running
      OBVIOUS
    <2> QED
      BY <2>1, <2>2 DEF IInv, TasksBound, At
  <1>3. FailuresAreNotCached'
    BY DEF IInv, FailuresAreNotCached, TypeOK, Caller
  <1> QED
    BY <1>1, <1>2, <1>3

LEMMA FetchThrowsStep ==
  ASSUME IInv, NEW l \in Lazies, FetchThrows(l)
  PROVE  IInv'
  <1>1. /\ lazy[l].state = "fetching"
        /\ ~wellFormed
        /\ lazy' = [lazy EXCEPT ![l].state = "failed"]
        /\ UNCHANGED << map, lazyResponse, nextReload, caller, wellFormed >>
    BY DEF FetchThrows
  <1>2. lazy' \in [Lazies -> Lazy]
    BY <1>1 DEF IInv, TypeOK, Lazy, TaskStates
  <1>3. \A y \in Lazies : /\ y # l => lazy'[y].state = lazy[y].state
                          /\ lazy'[y].cache = lazy[y].cache
                          /\ lazy'[y].late = lazy[y].late
    BY <1>1 DEF IInv, TypeOK, Lazy
  <1>4. lazy'[l].state = "failed"
    BY <1>1 DEF IInv, TypeOK, Lazy
  <1>5. CallersBound' /\ TasksBound' /\ FailuresAreNotCached'
    BY <1>1, <1>2, <1>3, <1>4, TaskStep DEF Running
  <1>6. CachesBound'
    BY <1>1 DEF IInv, CachesBound
  <1>7. TypeOK'
    BY <1>1, <1>2 DEF IInv, TypeOK
  <1> QED
    BY <1>5, <1>6, <1>7 DEF IInv

\* A running task's cache is in use: the waiting request holds it.
LEMMA RunningCache ==
  ASSUME IInv, NEW l \in Lazies, lazy[l].state \in Running
  PROVE  /\ lazy[l].cache \in Caches
         /\ lazyResponse[lazy[l].cache] \in Lazies
  <1>1. PICK q \in Callers : At(q, "await") /\ caller[q].lazy = l
    BY DEF IInv, TasksBound
  <1>2. CallersBound!(q)
    BY DEF IInv, CallersBound
  <1> QED
    BY <1>1, <1>2 DEF At

LEMMA FetchOkStep ==
  ASSUME IInv, NEW l \in Lazies, FetchOk(l)
  PROVE  IInv'
  <1> USE ConstantsAssumption
  <1>1. /\ lazy[l].state = "fetching"
        /\ wellFormed
        /\ nextReload' = [nextReload EXCEPT ![lazy[l].cache] = CacheDuration]
        /\ lazy' = [lazy EXCEPT ![l].state = "ok", ![l].age = 0]
        /\ UNCHANGED << map, lazyResponse, caller, wellFormed >>
    BY DEF FetchOk
  <1>2. lazy' \in [Lazies -> Lazy]
    <2>1. 0 \in 0 .. MaxAge /\ "ok" \in TaskStates
      BY DEF MaxAge, TaskStates
    <2> QED
      BY <2>1, <1>1 DEF IInv, TypeOK, Lazy
  <1>3. \A y \in Lazies : /\ y # l => lazy'[y].state = lazy[y].state
                          /\ lazy'[y].cache = lazy[y].cache
                          /\ lazy'[y].late = lazy[y].late
    BY <1>1 DEF IInv, TypeOK, Lazy
  <1>4. lazy'[l].state = "ok"
    BY <1>1 DEF IInv, TypeOK, Lazy
  <1>5. CallersBound' /\ TasksBound' /\ FailuresAreNotCached'
    BY <1>1, <1>2, <1>3, <1>4, TaskStep DEF Running
  <1>6. lazy[l].cache \in Caches /\ lazyResponse[lazy[l].cache] \in Lazies
    BY <1>1, RunningCache DEF Running
  <1>7. CachesBound'
    BY <1>1, <1>3, <1>4, <1>6 DEF IInv, CachesBound, TypeOK
  <1>8. TypeOK'
    BY <1>1, <1>2, <1>6 DEF IInv, TypeOK
  <1> QED
    BY <1>5, <1>7, <1>8 DEF IInv

LEMMA FetchErrorStep ==
  ASSUME IInv, NEW l \in Lazies, FetchError(l)
  PROVE  IInv'
  <1> USE ConstantsAssumption
  <1> DEFINE n == NewObject(FreeLazies)
             c == lazy[l].cache
  <1>1. /\ lazy[l].state = "fetching"
        /\ wellFormed
        /\ FreeLazies # {}
        /\ lazyResponse' = [lazyResponse EXCEPT ![c] = n]
        /\ lazy' = [lazy EXCEPT ![l].state = "failing", ![n] = NewLazy(c)]
        /\ UNCHANGED << map, nextReload, caller, wellFormed >>
    BY DEF FetchError
  <1>2. n \in FreeLazies
    BY <1>1, NewObjectIsFree
  <1>3. c \in Caches /\ lazyResponse[c] \in Lazies
    BY <1>1, RunningCache DEF Running
  <1>4. /\ NewLazy(c) \in Lazy
        /\ NewLazy(c).state = "unstarted"
        /\ NewLazy(c).late = {}
        /\ NewLazy(c).cache = c
    BY <1>3, NewLazyType
  <1> HIDE DEF n, c
  <1>5. /\ n \in Lazies
        /\ n # l
        /\ \A d \in Caches : lazyResponse[d] # n
        /\ \A q \in Callers : caller[q].lazy # n
    BY <1>1, <1>2 DEF FreeLazies, Running
  <1>6. /\ lazyResponse'[c] = n
        /\ \A d \in Caches \ {c} : lazyResponse'[d] = lazyResponse[d]
        /\ lazy'[n] = NewLazy(c)
        /\ \A y \in Lazies \ {l, n} : lazy'[y] = lazy[y]
    BY <1>1, <1>3, <1>5 DEF IInv, TypeOK
  <1>7. /\ lazy'[l].state = "failing"
        /\ lazy'[l].cache = c
        /\ lazy'[l].late = lazy[l].late
    BY <1>1, <1>5 DEF IInv, TypeOK, Lazy, c
  <1>8. lazy[l].late = {}
    BY <1>1 DEF IInv, TasksBound
  <1>9. TypeOK'
    <2>1. lazy' \in [Lazies -> Lazy]
      BY <1>1, <1>4, <1>5 DEF IInv, TypeOK, Lazy, TaskStates
    <2> QED
      BY <2>1, <1>1, <1>3, <1>5 DEF IInv, TypeOK
  <1>10. CallersBound'
    <2> SUFFICES ASSUME NEW q \in Callers PROVE CallersBound!(q)'
      BY DEF CallersBound
    <2>1. caller'[q] = caller[q] /\ CallersBound!(q) /\ caller[q].lazy # n
      BY <1>1, <1>5 DEF IInv, CallersBound
    <2>2. caller[q].pc = "read" /\ caller[q].cache \in Caches =>
            q \notin lazy'[lazyResponse'[caller[q].cache]].late
      BY <2>1, <1>4, <1>5, <1>6, <1>7
    <2>3. caller[q].pc \in { "read", "value", "await" } =>
            lazyResponse'[caller[q].cache] \in Lazies
      BY <2>1, <1>5, <1>6
    <2>4. caller[q].lazy \in Lazies => lazy'[caller[q].lazy].cache = caller[q].cache
      BY <2>1, <1>6, <1>7 DEF c
    <2> QED
      BY <2>1, <2>2, <2>3, <2>4
  <1>11. TasksBound'
    <2>1. \A y \in Lazies : lazy'[y].state \in Running => lazy[y].state \in Running
      BY <1>1, <1>4, <1>6 DEF Running
    <2>2. \A y \in Lazies : lazy'[y].late # {} => lazy'[y].state = "failed"
      BY <1>4, <1>6, <1>7, <1>8 DEF IInv, TasksBound
    <2>3. \A d \in Caches : lazyResponse'[d] \in Lazies => lazy'[lazyResponse'[d]].cache = d
      BY <1>4, <1>5, <1>6, <1>7 DEF IInv, TasksBound, c
    <2> QED
      BY <2>1, <2>2, <2>3, <1>1 DEF IInv, TasksBound, At
  \* The failing task is in no field any more: its cache was given the new one.
  <1>12. CachesBound'
    <2>1. \A d \in Caches \ {c} : lazyResponse[d] # l
      BY DEF IInv, TasksBound, c
    <2>2. \A d \in Caches : lazyResponse'[d] # l
      BY <2>1, <1>5, <1>6
    <2> SUFFICES ASSUME NEW d \in Caches PROVE CachesBound!(d)'
      BY DEF CachesBound
    <2>3. CASE d = c
      <3>1. wellFormed' /\ lazyResponse'[d] \in Lazies /\ lazy'[lazyResponse'[d]].state = "unstarted"
        BY <2>3, <1>1, <1>4, <1>5, <1>6
      <3> QED
        BY <3>1
    <2>4. CASE d # c
      <3>1. nextReload'[d] = nextReload[d] /\ lazyResponse'[d] = lazyResponse[d]
        BY <2>4, <1>1, <1>6
      <3>2. lazyResponse[d] \in Lazies => lazy'[lazyResponse[d]] = lazy[lazyResponse[d]]
        BY <2>2, <3>1, <1>5, <1>6
      <3>3. CachesBound!(d)
        BY DEF IInv, CachesBound
      <3> QED
        BY <3>1, <3>2, <3>3, <1>1
    <2> QED
      BY <2>3, <2>4
  <1>13. FailuresAreNotCached'
    <2> SUFFICES ASSUME NEW q \in Callers, caller[q].lazy # None
                 PROVE  q \notin lazy'[caller[q].lazy].late
      BY <1>1 DEF FailuresAreNotCached
    <2>1. caller[q].lazy \in Lazies /\ caller[q].lazy # n
      BY <1>5 DEF IInv, TypeOK, Caller
    <2> QED
      BY <2>1, <1>6, <1>7, <1>8 DEF IInv, FailuresAreNotCached
  <1> QED
    BY <1>9, <1>10, <1>11, <1>12, <1>13 DEF IInv

LEMMA FetchFailedStep ==
  ASSUME IInv, NEW l \in Lazies, FetchFailed(l)
  PROVE  IInv'
  <1> USE ConstantsAssumption
  <1>1. /\ lazy[l].state = "failing"
        /\ nextReload' = [nextReload EXCEPT ![lazy[l].cache] = 0]
        /\ lazy' = [lazy EXCEPT ![l].state = "failed"]
        /\ UNCHANGED << map, lazyResponse, caller, wellFormed >>
    BY DEF FetchFailed
  <1>2. lazy' \in [Lazies -> Lazy]
    BY <1>1 DEF IInv, TypeOK, Lazy, TaskStates
  <1>3. \A y \in Lazies : /\ y # l => lazy'[y].state = lazy[y].state
                          /\ lazy'[y].cache = lazy[y].cache
                          /\ lazy'[y].late = lazy[y].late
    BY <1>1 DEF IInv, TypeOK, Lazy
  <1>4. lazy'[l].state = "failed"
    BY <1>1 DEF IInv, TypeOK, Lazy
  <1>5. CallersBound' /\ TasksBound' /\ FailuresAreNotCached'
    BY <1>1, <1>2, <1>3, <1>4, TaskStep DEF Running
  <1>6. lazy[l].cache \in Caches
    BY <1>1, RunningCache DEF Running
  <1>7. wellFormed => \A d \in Caches : lazyResponse[d] # l
    BY <1>1 DEF IInv, CachesBound
  <1>8. CachesBound'
    BY <1>1, <1>3, <1>6, <1>7 DEF IInv, CachesBound, TypeOK
  <1>9. TypeOK'
    BY <1>1, <1>2, <1>6 DEF IInv, TypeOK
  <1> QED
    BY <1>5, <1>8, <1>9 DEF IInv

LEMMA TickStep ==
  ASSUME IInv, Tick
  PROVE  IInv'
  <1> USE ConstantsAssumption
  <1>1. /\ nextReload' = [c \in Caches |-> IF nextReload[c] = 0 THEN 0 ELSE nextReload[c] - 1]
        /\ UNCHANGED << map, lazyResponse, caller, wellFormed >>
    BY DEF Tick
  <1>2. \A l \in Lazies : /\ lazy'[l].state = lazy[l].state
                          /\ lazy'[l].cache = lazy[l].cache
                          /\ lazy'[l].late = lazy[l].late
    BY DEF Tick, IInv, TypeOK, Lazy
  <1>3. TypeOK'
    <2>1. lazy' \in [Lazies -> Lazy]
      BY DEF Tick, IInv, TypeOK, Lazy, MaxAge
    <2>2. nextReload' \in [Caches -> 0 .. CacheDuration]
      BY <1>1 DEF IInv, TypeOK
    <2> QED
      BY <2>1, <2>2, <1>1 DEF IInv, TypeOK
  <1>4. CallersBound'
    <2> SUFFICES ASSUME NEW q \in Callers PROVE CallersBound!(q)'
      BY DEF CallersBound
    <2> QED
      BY <1>1, <1>2 DEF IInv, CallersBound
  <1>5. TasksBound'
    BY <1>1, <1>2 DEF IInv, TasksBound, At
  <1>6. CachesBound'
    <2>1. \A c \in Caches : nextReload'[c] # 0 => nextReload[c] # 0
      BY <1>1
    <2> QED
      BY <2>1, <1>1, <1>2 DEF IInv, CachesBound
  <1>7. FailuresAreNotCached'
    BY <1>1, <1>2 DEF IInv, FailuresAreNotCached, TypeOK, Caller
  <1> QED
    BY <1>3, <1>4, <1>5, <1>6, <1>7 DEF IInv

-----------------------------------------------------------------------------

\* A cache never shows a failed task to a request that need not reload, so that
\* only requests that were there already can be handed a failure.
THEOREM Invariance == Spec => []IInv
  <1>1. IInv /\ [Next]_vars => IInv'
    <2> SUFFICES ASSUME IInv, [Next]_vars PROVE IInv'
      OBVIOUS
    <2>1. ASSUME NEW k \in Callers, CallerStep(k) PROVE IInv'
      BY <2>1, CallStep, CreateStep, CheckStep, CallRefreshStep, ReadFieldStep,
         ValueStep, AnswerStep DEF CallerStep
    <2>2. ASSUME NEW l \in Lazies, FetchStep(l) PROVE IInv'
      BY <2>2, FetchThrowsStep, FetchOkStep, FetchErrorStep, FetchFailedStep
         DEF FetchStep
    <2>3. CASE UNCHANGED vars
      BY <2>3 DEF vars, IInv, TypeOK, CallersBound, TasksBound, CachesBound,
         FailuresAreNotCached, At
    <2> QED
      BY <2>1, <2>2, <2>3, TickStep DEF Next
  <1> QED
    BY <1>1, InitIInv, PTL DEF Spec

\* However the fetches of concurrent requests overtake each other, none is
\* handed a failure that was there before it asked.
THEOREM NoCachedFailure == Spec => []FailuresAreNotCached
  BY Invariance, PTL DEF IInv

-----------------------------------------------------------------------------
(* FreshInv *)

\* Ages and reload times are numbers.
LEMMA Numbers ==
  ASSUME TypeOK
  PROVE  /\ CacheDuration \in Nat \ {0} /\ FetchTimeout \in Nat /\ MaxAge \in Nat
         /\ \A l \in Lazies : lazy[l].age \in 0 .. MaxAge
         /\ \A c \in Caches : nextReload[c] \in 0 .. CacheDuration
         /\ \A c \in Caches : lazyResponse[c] # None => lazyResponse[c] \in Lazies
  BY ConstantsAssumption DEF TypeOK, Lazy, MaxAge

\* A request whose own place is unchanged stays fresh while the lazies keep
\* their ages and states and the caches their lazies.
LEMMA SameHoldings ==
  ASSUME IInv, NEW q \in Callers, HoldsFresh(caller[q]), caller'[q] = caller[q],
         UNCHANGED lazyResponse,
         \A l \in Lazies : lazy'[l].state = lazy[l].state /\ lazy'[l].age = lazy[l].age
  PROVE  HoldsFresh(caller[q])'
  <1>1. CallersBound!(q)
    BY DEF IInv, CallersBound
  <1> QED
    BY <1>1 DEF HoldsFresh, Shows, Fresh

\* A request moves on and leaves what it shares with others as it is.
LEMMA CallerMoves ==
  ASSUME IInv, FreshInv, NEW k \in Callers,
         UNCHANGED << lazyResponse, nextReload >>,
         \A l \in Lazies : /\ lazy'[l].state = lazy[l].state
                           /\ lazy'[l].age = lazy[l].age
                           /\ lazy'[l].cache = lazy[l].cache,
         \A q \in Callers \ {k} : caller'[q] = caller[q],
         HoldsFresh(caller[k])'
  PROVE  FreshInv'
  <1>1. \A c \in Caches : Shows(c)' => Shows(c) /\ lazyResponse[c] \in Lazies
    BY Numbers DEF Shows, IInv
  <1>2. FetchesTimed'
    BY DEF FreshInv, FetchesTimed
  <1>3. ReloadsTimed'
    BY <1>1 DEF FreshInv, ReloadsTimed
  <1>4. OvertakenFetches'
    <2> SUFFICES ASSUME NEW l \in Lazies, lazy'[l].state = "fetching",
                        Shows(lazy[l].cache)'
                 PROVE  lazy'[lazyResponse[lazy[l].cache]].age <= lazy'[l].age
      BY DEF OvertakenFetches
    <2>1. lazy[l].cache \in Caches
      BY RunningCache DEF Running
    <2> QED
      BY <2>1, <1>1 DEF FreshInv, OvertakenFetches
  <1>5. \A q \in Callers : HoldsFresh(caller[q])'
    BY SameHoldings DEF FreshInv
  <1> QED
    BY <1>2, <1>3, <1>4, <1>5 DEF FreshInv

\* Calls, checks, reads of the field and answers.
LEMMA QuietSteps ==
  ASSUME IInv, FreshInv, NEW k \in Callers,
         Call(k) \/ Check(k) \/ ReadField(k) \/ Answer(k)
  PROVE  FreshInv'
  <1>1. CASE Call(k)
    <2>1. /\ caller' = [caller EXCEPT ![k].pc = IF map = None THEN "create" ELSE "check",
                                     ![k].cache = map]
          /\ UNCHANGED << lazyResponse, nextReload >>
      BY <1>1 DEF Call
    <2>2. \A l \in Lazies : /\ lazy'[l].state = lazy[l].state
                            /\ lazy'[l].age = lazy[l].age
                            /\ lazy'[l].cache = lazy[l].cache
      BY <1>1 DEF Call, IInv, TypeOK, Lazy
    <2>3. caller'[k].pc \in { "create", "check" }
      BY <2>1 DEF IInv, TypeOK, Caller
    <2>4. HoldsFresh(caller[k])'
      BY <2>3 DEF HoldsFresh
    <2> QED
      BY <2>1, <2>2, <2>4, CallerMoves DEF IInv, TypeOK
  <1>2. CASE Check(k)
    <2>1. /\ caller' = [caller EXCEPT ![k].pc = IF nextReload[caller[k].cache] = 0
                                               THEN "refresh" ELSE "read"]
          /\ UNCHANGED << lazyResponse, nextReload, lazy >>
          /\ caller[k].pc = "check"
      BY <1>2 DEF Check, At
    <2>2. /\ caller'[k].cache = caller[k].cache
          /\ caller'[k].pc = IF nextReload[caller[k].cache] = 0 THEN "refresh" ELSE "read"
          /\ caller[k].cache \in Caches
      BY <2>1 DEF IInv, TypeOK, Caller, CallersBound
    <2>3. nextReload[caller[k].cache] # 0 /\ Shows(caller[k].cache) =>
            Fresh(lazyResponse[caller[k].cache])
      BY <2>2, Numbers DEF IInv, FreshInv, ReloadsTimed, Fresh, Shows
    <2>4. HoldsFresh(caller[k])'
      BY <2>1, <2>2, <2>3 DEF HoldsFresh, Shows, Fresh
    <2> QED
      BY <2>1, <2>4, CallerMoves DEF IInv, TypeOK
  <1>3. CASE ReadField(k)
    <2>1. /\ caller' = [caller EXCEPT ![k].pc = "value",
                                     ![k].lazy = lazyResponse[caller[k].cache]]
          /\ UNCHANGED << lazyResponse, nextReload, lazy >>
          /\ caller[k].pc = "read"
      BY <1>3 DEF ReadField, At
    <2>2. /\ caller'[k].cache = caller[k].cache
          /\ caller'[k].lazy = lazyResponse[caller[k].cache]
          /\ caller'[k].pc = "value"
          /\ lazyResponse[caller[k].cache] \in Lazies
      BY <2>1 DEF IInv, TypeOK, Caller, CallersBound
    <2>3. HoldsFresh(caller[k])
      BY DEF FreshInv
    <2>4. HoldsFresh(caller[k])'
      BY <2>1, <2>2, <2>3, ConstantsAssumption DEF HoldsFresh, Shows, Fresh
    <2> QED
      BY <2>1, <2>4, CallerMoves DEF IInv, TypeOK
  <1>4. CASE Answer(k)
    <2>1. /\ caller' = [caller EXCEPT ![k] = Idle]
          /\ UNCHANGED << lazyResponse, nextReload >>
      BY <1>4 DEF Answer
    <2>2. \A l \in Lazies : /\ lazy'[l].state = lazy[l].state
                            /\ lazy'[l].age = lazy[l].age
                            /\ lazy'[l].cache = lazy[l].cache
      BY <1>4 DEF Answer, IInv, TypeOK, Lazy
    <2>3. HoldsFresh(caller[k])'
      BY <2>1 DEF HoldsFresh, IInv, TypeOK, Idle
    <2> QED
      BY <2>1, <2>2, <2>3, CallerMoves DEF IInv, TypeOK
  <1> QED
    BY <1>1, <1>2, <1>3, <1>4

\* A cache nobody refers to is made empty.
LEMMA CreateKeepsFresh ==
  ASSUME IInv, FreshInv, NEW k \in Callers, Create(k)
  PROVE  FreshInv'
  <1> DEFINE c == NewObject(FreeCaches)
  <1>1. /\ lazyResponse' = [lazyResponse EXCEPT ![c] = None]
        /\ nextReload' = [nextReload EXCEPT ![c] = 0]
        /\ caller' = [caller EXCEPT ![k].pc = "check", ![k].cache = c]
        /\ UNCHANGED lazy
        /\ c \in FreeCaches
    BY NewObjectIsFree DEF Create
  <1> HIDE DEF c
  <1>2. c \in Caches /\ \A q \in Callers : caller[q].cache # c
    BY <1>1 DEF FreeCaches
  <1>3. \A d \in Caches : Shows(d)' => /\ Shows(d)
                                       /\ lazyResponse'[d] = lazyResponse[d]
                                       /\ nextReload'[d] = nextReload[d]
    BY <1>1, <1>2 DEF Shows, IInv, TypeOK
  <1>4. FetchesTimed'
    BY <1>1 DEF FreshInv, FetchesTimed
  <1>5. ReloadsTimed'
    BY <1>1, <1>3 DEF FreshInv, ReloadsTimed
  <1>6. OvertakenFetches'
    <2> SUFFICES ASSUME NEW l \in Lazies, lazy[l].state = "fetching",
                        Shows(lazy[l].cache)'
                 PROVE  lazy[lazyResponse'[lazy[l].cache]].age <= lazy[l].age
      BY <1>1 DEF OvertakenFetches
    <2>1. lazy[l].cache \in Caches
      BY RunningCache DEF Running
    <2> QED
      BY <2>1, <1>1, <1>2, <1>3 DEF FreshInv, OvertakenFetches, Shows
  <1>7. ASSUME NEW q \in Callers PROVE HoldsFresh(caller[q])'
    <2>1. CASE q = k
      <3>1. caller'[k].pc = "check"
        BY <1>1 DEF IInv, TypeOK, Caller
      <3> QED
        BY <2>1, <3>1 DEF HoldsFresh
    <2>2. CASE q # k
      <3>1. caller'[q] = caller[q]
        BY <2>2, <1>1 DEF IInv, TypeOK
      <3>2. CallersBound!(q) /\ HoldsFresh(caller[q])
        BY DEF IInv, CallersBound, FreshInv
      <3> QED
        BY <3>1, <3>2, <1>1, <1>2 DEF HoldsFresh, Fresh, Shows, IInv, TypeOK
    <2> QED
      BY <2>1, <2>2
  <1> QED
    BY <1>4, <1>5, <1>6, <1>7 DEF FreshInv

\* A task that starts now is as old as the document it would overtake.
LEMMA ValueKeepsFresh ==
  ASSUME IInv, FreshInv, NEW k \in Callers, Value(k)
  PROVE  FreshInv'
  <1> DEFINE z == caller[k].lazy
  <1>1. /\ caller' = [caller EXCEPT ![k].pc = "await"]
        /\ lazy' = IF lazy[z].state = "unstarted"
                   THEN [lazy EXCEPT ![z].state = "fetching"] ELSE lazy
        /\ UNCHANGED << lazyResponse, nextReload >>
        /\ caller[k].pc = "value"
    BY DEF Value, At
  <1>2. z \in Lazies /\ lazy[z].cache = caller[k].cache /\ caller[k].cache \in Caches
    BY <1>1 DEF IInv, CallersBound
  <1>3. \A l \in Lazies : /\ lazy'[l].age = lazy[l].age
                          /\ lazy'[l].cache = lazy[l].cache
                          /\ lazy'[l].state = IF l = z /\ lazy[l].state = "unstarted"
                                              THEN "fetching" ELSE lazy[l].state
    BY <1>1, <1>2 DEF IInv, TypeOK, Lazy
  <1>4. \A c \in Caches : Shows(c)' => Shows(c) /\ lazyResponse[c] \in Lazies
    BY <1>1, <1>3, Numbers DEF Shows, IInv
  <1>5. HoldsFresh(caller[k])
    BY DEF FreshInv
  <1>6. FetchesTimed'
    BY <1>3, ConstantsAssumption DEF FreshInv, FetchesTimed
  <1>7. ReloadsTimed'
    BY <1>1, <1>3, <1>4 DEF FreshInv, ReloadsTimed
  <1>8. OvertakenFetches'
    <2> SUFFICES ASSUME NEW l \in Lazies, lazy'[l].state = "fetching",
                        Shows(lazy[l].cache)'
                 PROVE  lazy'[lazyResponse[lazy'[l].cache]].age <= lazy'[l].age
      BY <1>1 DEF OvertakenFetches
    <2>1. lazy[l].cache \in Caches
      BY <1>2, <1>3, RunningCache DEF Running
    <2>2. /\ Shows(lazy[l].cache)
          /\ lazyResponse[lazy[l].cache] \in Lazies
          /\ lazy'[lazyResponse[lazy[l].cache]].age = lazy[lazyResponse[lazy[l].cache]].age
      BY <2>1, <1>3, <1>4 DEF Shows
    <2>3. CASE l = z /\ lazy[z].state = "unstarted"
      BY <2>3, <2>2, <1>1, <1>2, <1>3, <1>5, ConstantsAssumption
         DEF HoldsFresh, FreshInv, FetchesTimed
    <2>4. CASE ~(l = z /\ lazy[z].state = "unstarted")
      <3>1. lazy[l].state = "fetching"
        BY <2>4, <1>3
      <3> QED
        BY <3>1, <2>2, <1>3 DEF FreshInv, OvertakenFetches
    <2> QED
      BY <2>3, <2>4
  <1>9. ASSUME NEW q \in Callers PROVE HoldsFresh(caller[q])'
    <2>1. /\ caller'[q].cache = caller[q].cache
          /\ caller'[q].lazy = caller[q].lazy
          /\ caller'[q].pc = IF q = k THEN "await" ELSE caller[q].pc
      BY <1>1 DEF IInv, TypeOK, Caller
    <2>2. CallersBound!(q) /\ HoldsFresh(caller[q])
      BY DEF IInv, CallersBound, FreshInv
    <2> QED
      BY <2>1, <2>2, <1>1, <1>3 DEF HoldsFresh, Fresh, Shows
  <1> QED
    BY <1>6, <1>7, <1>8, <1>9 DEF FreshInv

\* A cache is given a new lazy n while the tasks of the others fail or stay.
LEMMA Replaced ==
  ASSUME IInv, FreshInv, NEW c \in Caches, NEW n \in FreeLazies,
         lazyResponse' = [lazyResponse EXCEPT ![c] = n],
         UNCHANGED nextReload,
         lazy'[n] = NewLazy(c),
         \A y \in Lazies \ {n} : /\ lazy'[y].age = lazy[y].age
                                 /\ lazy'[y].cache = lazy[y].cache
                                 /\ \/ lazy'[y].state = lazy[y].state
                                    \/ lazy'[y].state = "failing",
         \A q \in Callers : /\ caller'[q].lazy = caller[q].lazy
                            /\ caller'[q].cache = caller[q].cache
                            /\ \/ caller'[q].pc = caller[q].pc
                               \/ caller'[q].pc = "read" /\ caller[q].cache = c
  PROVE  FreshInv'
  <1>1. /\ n \in Lazies
        /\ \A d \in Caches : lazyResponse[d] # n
        /\ \A q \in Callers : caller[q].lazy # n
    BY DEF FreeLazies
  <1>2. lazy'[n].state = "unstarted" /\ lazy'[n].age = 0
    BY DEF NewLazy
  <1>3. ~Shows(c)'
    BY <1>2 DEF Shows, IInv, TypeOK
  <1>4. \A d \in Caches : Shows(d)' => /\ Shows(d)
                                       /\ lazyResponse'[d] = lazyResponse[d]
                                       /\ lazyResponse[d] \in Lazies \ {n}
    BY <1>1, <1>3, Numbers DEF Shows, IInv, TypeOK
  <1>5. FetchesTimed'
    BY <1>2 DEF FreshInv, FetchesTimed
  <1>6. ReloadsTimed'
    BY <1>4 DEF FreshInv, ReloadsTimed
  <1>7. OvertakenFetches'
    <2> SUFFICES ASSUME NEW l \in Lazies, lazy'[l].state = "fetching", Shows(lazy[l].cache)'
                 PROVE  lazy'[lazyResponse'[lazy'[l].cache]].age <= lazy'[l].age
      BY DEF OvertakenFetches
    <2>1. l # n /\ lazy[l].state = "fetching" /\ lazy'[l].cache = lazy[l].cache
      BY <1>2
    <2>2. lazy[l].cache \in Caches
      BY <2>1, RunningCache DEF Running
    <2> QED
      BY <2>1, <2>2, <1>4 DEF FreshInv, OvertakenFetches
  <1>8. ASSUME NEW q \in Callers PROVE HoldsFresh(caller[q])'
    <2>1. CallersBound!(q) /\ HoldsFresh(caller[q])
      BY DEF IInv, CallersBound, FreshInv
    <2>2. caller'[q].cache \in Caches /\ Shows(caller[q].cache)' =>
            /\ caller'[q].pc = caller[q].pc
            /\ Shows(caller[q].cache)
            /\ lazyResponse'[caller[q].cache] = lazyResponse[caller[q].cache]
            /\ lazyResponse[caller[q].cache] \in Lazies \ {n}
      BY <1>3, <1>4
    <2>3. caller'[q].pc = "read" /\ Shows(caller[q].cache)' =>
            Fresh(lazyResponse[caller[q].cache])'
      BY <2>1, <2>2 DEF HoldsFresh, Fresh
    <2>4. caller'[q].pc = "value" => caller[q].pc = "value" /\ caller[q].lazy \in Lazies \ {n}
      BY <2>1, <1>1
    <2>5. caller'[q].pc = "value" /\ Shows(caller[q].cache)' /\ lazy'[caller'[q].lazy].state = "unstarted"
            => lazy'[lazyResponse'[caller'[q].cache]].age = 0
      BY <2>1, <2>2, <2>4 DEF HoldsFresh
    <2>6. caller'[q].pc \in { "value", "await" } /\ lazy'[caller'[q].lazy].state = "ok"
            => Fresh(caller[q].lazy)'
      BY <2>1, <1>1 DEF HoldsFresh, Fresh
    <2> QED
      BY <2>3, <2>5, <2>6 DEF HoldsFresh
  <1> QED
    BY <1>5, <1>6, <1>7, <1>8 DEF FreshInv

LEMMA CallRefreshKeepsFresh ==
  ASSUME IInv, FreshInv, NEW k \in Callers, CallRefresh(k)
  PROVE  FreshInv'
  <1> DEFINE n == NewObject(FreeLazies)
             c == caller[k].cache
  <1>1. /\ lazyResponse' = [lazyResponse EXCEPT ![c] = n]
        /\ lazy' = [lazy EXCEPT ![n] = NewLazy(c)]
        /\ caller' = [caller EXCEPT ![k].pc = "read"]
        /\ UNCHANGED nextReload
        /\ caller[k].pc = "refresh"
        /\ n \in FreeLazies
    BY NewObjectIsFree DEF CallRefresh, Refresh, At
  <1>2. c \in Caches
    BY <1>1 DEF IInv, CallersBound
  <1>3. \A q \in Callers : /\ caller'[q].lazy = caller[q].lazy
                           /\ caller'[q].cache = caller[q].cache
                           /\ \/ caller'[q].pc = caller[q].pc
                              \/ caller'[q].pc = "read" /\ caller[q].cache = c
    BY <1>1 DEF IInv, TypeOK, Caller
  <1> HIDE DEF n, c
  <1>4. lazy'[n] = NewLazy(c) /\ \A y \in Lazies \ {n} : lazy'[y] = lazy[y]
    BY <1>1 DEF IInv, TypeOK, FreeLazies
  <1>5. \A y \in Lazies \ {n} : /\ lazy'[y].age = lazy[y].age
                                /\ lazy'[y].cache = lazy[y].cache
                                /\ \/ lazy'[y].state = lazy[y].state
                                   \/ lazy'[y].state = "failing"
    BY <1>4
  <1>6. /\ n \in FreeLazies
        /\ lazyResponse' = [lazyResponse EXCEPT ![c] = n]
        /\ UNCHANGED nextReload
        /\ lazy'[n] = NewLazy(c)
    BY <1>1, <1>4
  <1> QED
    BY <1>2, <1>3, <1>5, <1>6, Replaced

LEMMA FetchErrorKeepsFresh ==
  ASSUME IInv, FreshInv, NEW l \in Lazies, FetchError(l)
  PROVE  FreshInv'
  <1> DEFINE n == NewObject(FreeLazies)
             c == lazy[l].cache
  <1>1. /\ lazyResponse' = [lazyResponse EXCEPT ![c] = n]
        /\ lazy' = [lazy EXCEPT ![l].state = "failing", ![n] = NewLazy(c)]
        /\ UNCHANGED << nextReload, caller >>
        /\ lazy[l].state = "fetching"
        /\ n \in FreeLazies
    BY NewObjectIsFree DEF FetchError
  <1>2. c \in Caches
    BY <1>1, RunningCache DEF Running
  <1> HIDE DEF n, c
  <1>3. lazy'[n] = NewLazy(c)
    BY <1>1 DEF IInv, TypeOK, FreeLazies
  <1>4. \A y \in Lazies \ {n} : /\ lazy'[y].age = lazy[y].age
                                /\ lazy'[y].cache = lazy[y].cache
                                /\ \/ lazy'[y].state = lazy[y].state
                                   \/ lazy'[y].state = "failing"
    <2>1. n # l /\ n \in Lazies
      BY <1>1 DEF FreeLazies, Running
    <2> QED
      BY <2>1, <1>1 DEF IInv, TypeOK, Lazy
  <1> QED
    BY <1>1, <1>2, <1>3, <1>4, Replaced

\* A task fails; a reload may become due.
LEMMA FailureKeepsFresh ==
  ASSUME IInv, FreshInv, NEW l \in Lazies, FetchThrows(l) \/ FetchFailed(l)
  PROVE  FreshInv'
  <1>1. /\ lazy' = [lazy EXCEPT ![l].state = "failed"]
        /\ UNCHANGED << lazyResponse, caller >>
        /\ \A c \in Caches : nextReload'[c] # 0 => nextReload'[c] = nextReload[c]
    <2>1. CASE FetchThrows(l)
      BY <2>1 DEF FetchThrows
    <2>2. CASE FetchFailed(l)
      BY <2>2 DEF FetchFailed, IInv, TypeOK
    <2> QED
      BY <2>1, <2>2
  <1>2. \A y \in Lazies : /\ lazy'[y].age = lazy[y].age
                          /\ lazy'[y].cache = lazy[y].cache
                          /\ lazy'[y].state = IF y = l THEN "failed" ELSE lazy[y].state
    BY <1>1 DEF IInv, TypeOK, Lazy
  <1>3. \A c \in Caches : Shows(c)' => Shows(c) /\ lazyResponse[c] \in Lazies
    BY <1>1, <1>2, Numbers DEF Shows, IInv
  <1>4. FetchesTimed'
    BY <1>2 DEF FreshInv, FetchesTimed
  <1>5. ReloadsTimed'
    BY <1>1, <1>2, <1>3 DEF FreshInv, ReloadsTimed
  <1>6. OvertakenFetches'
    <2> SUFFICES ASSUME NEW y \in Lazies, lazy'[y].state = "fetching", Shows(lazy[y].cache)'
                 PROVE  lazy'[lazyResponse[lazy'[y].cache]].age <= lazy'[y].age
      BY <1>1 DEF OvertakenFetches
    <2>1. lazy[y].state = "fetching" /\ lazy[y].cache \in Caches
      BY <1>2, RunningCache DEF Running
    <2>2. Shows(lazy[y].cache) /\ lazyResponse[lazy[y].cache] \in Lazies
      BY <2>1, <1>2, <1>3 DEF Shows
    <2> QED
      BY <2>1, <2>2, <1>2 DEF FreshInv, OvertakenFetches
  <1>7. ASSUME NEW q \in Callers PROVE HoldsFresh(caller[q])'
    <2>1. CallersBound!(q) /\ HoldsFresh(caller[q])
      BY DEF IInv, CallersBound, FreshInv
    <2> QED
      BY <2>1, <1>1, <1>2 DEF HoldsFresh, Fresh, Shows
  <1> QED
    BY <1>4, <1>5, <1>6, <1>7 DEF FreshInv

\* A document arrives, and its cache's reload is put off by a day.  What the
\* cache shows is this document, or one that overtook it and is no older than
\* the fetch that ends.
LEMMA FetchOkKeepsFresh ==
  ASSUME IInv, FreshInv, NEW l \in Lazies, FetchOk(l)
  PROVE  FreshInv'
  <1> USE ConstantsAssumption
  <1> DEFINE c == lazy[l].cache
  <1>1. /\ lazy[l].state = "fetching"
        /\ nextReload' = [nextReload EXCEPT ![c] = CacheDuration]
        /\ lazy' = [lazy EXCEPT ![l].state = "ok", ![l].age = 0]
        /\ UNCHANGED << lazyResponse, caller >>
    BY DEF FetchOk
  <1>2. c \in Caches
    BY <1>1, RunningCache DEF Running
  <1>3. \A y \in Lazies : /\ lazy'[y].age = IF y = l THEN 0 ELSE lazy[y].age
                          /\ lazy'[y].cache = lazy[y].cache
                          /\ lazy'[y].state = IF y = l THEN "ok" ELSE lazy[y].state
    BY <1>1 DEF IInv, TypeOK, Lazy
  <1>4. \A d \in Caches : nextReload'[d] = IF d = c THEN CacheDuration ELSE nextReload[d]
    BY <1>1, <1>2 DEF IInv, TypeOK
  <1> HIDE DEF c
  <1>5. \A d \in Caches : Shows(d)' => /\ lazyResponse[d] \in Lazies
                                       /\ lazyResponse[d] = l \/ Shows(d)
    BY <1>1, <1>3, Numbers DEF Shows, IInv
  <1>6. lazy[l].age <= FetchTimeout
    BY <1>1 DEF FreshInv, FetchesTimed
  <1>7. FetchesTimed'
    BY <1>3 DEF FreshInv, FetchesTimed
  <1>8. ReloadsTimed'
    <2> SUFFICES ASSUME NEW d \in Caches, Shows(d)', nextReload'[d] # 0
                 PROVE  lazy'[lazyResponse[d]].age + nextReload'[d] <= CacheDuration + FetchTimeout
      BY <1>1 DEF ReloadsTimed
    <2>1. CASE lazyResponse[d] = l
      BY <2>1, <1>3, <1>4, Numbers DEF IInv
    <2>2. CASE lazyResponse[d] # l /\ d = c
      <3>1. Shows(c) /\ lazyResponse[c] \in Lazies
        BY <2>2, <1>5
      <3>2. lazy[lazyResponse[c]].age <= lazy[l].age
        BY <3>1, <1>1 DEF FreshInv, OvertakenFetches, c
      <3> QED
        BY <3>1, <3>2, <2>2, <1>3, <1>4, <1>6, Numbers DEF IInv
    <2>3. CASE lazyResponse[d] # l /\ d # c
      BY <2>3, <1>3, <1>4, <1>5 DEF FreshInv, ReloadsTimed
    <2> QED
      BY <2>1, <2>2, <2>3
  <1>9. OvertakenFetches'
    <2> SUFFICES ASSUME NEW y \in Lazies, lazy'[y].state = "fetching", Shows(lazy[y].cache)'
                 PROVE  lazy'[lazyResponse[lazy'[y].cache]].age <= lazy'[y].age
      BY <1>1 DEF OvertakenFetches
    <2>1. y # l /\ lazy[y].state = "fetching" /\ lazy[y].cache \in Caches
      BY <1>3, RunningCache DEF Running
    <2>2. /\ lazyResponse[lazy[y].cache] \in Lazies
          /\ lazyResponse[lazy[y].cache] = l \/ Shows(lazy[y].cache)
      BY <2>1, <1>3, <1>5 DEF Shows
    <2> QED
      BY <2>1, <2>2, <1>3, Numbers DEF FreshInv, OvertakenFetches, IInv
  <1>10. ASSUME NEW q \in Callers PROVE HoldsFresh(caller[q])'
    <2>1. CallersBound!(q) /\ HoldsFresh(caller[q])
      BY DEF IInv, CallersBound, FreshInv
    <2>2. Fresh(l)'
      BY <1>3 DEF Fresh
    <2>3. \A y \in Lazies : Fresh(y) => Fresh(y)'
      BY <2>2, <1>3 DEF Fresh
    <2>4. caller[q].cache \in Caches /\ Shows(caller[q].cache)' =>
            /\ lazyResponse[caller[q].cache] \in Lazies
            /\ lazyResponse[caller[q].cache] = l \/ Shows(caller[q].cache)
      BY <1>1, <1>5 DEF Shows
    <2>5. caller[q].pc = "read" /\ Shows(caller[q].cache)' =>
            Fresh(lazyResponse[caller[q].cache])'
      BY <2>1, <2>2, <2>3, <2>4, <1>1 DEF HoldsFresh, Fresh
    <2>6. caller[q].pc = "value" /\ Shows(caller[q].cache)' /\ lazy'[caller[q].lazy].state = "unstarted"
            => lazy'[lazyResponse[caller[q].cache]].age = 0
      BY <2>1, <2>4, <1>3 DEF HoldsFresh
    <2>7. caller[q].pc \in { "value", "await" } /\ lazy'[caller[q].lazy].state = "ok"
            => Fresh(caller[q].lazy)'
      BY <2>1, <2>2, <2>3, <1>1, <1>3 DEF HoldsFresh, Fresh
    <2> QED
      BY <2>5, <2>6, <2>7, <1>1 DEF HoldsFresh, Shows, Fresh
  <1> QED
    BY <1>7, <1>8, <1>9, <1>10 DEF FreshInv

\* While the clock moves nobody is between reading a document and having it.
LEMMA TickKeepsFresh ==
  ASSUME IInv, FreshInv, Tick
  PROVE  FreshInv'
  <1> USE ConstantsAssumption
  <1>1. /\ \A c \in Caches : nextReload'[c] = IF nextReload[c] = 0 THEN 0 ELSE nextReload[c] - 1
        /\ UNCHANGED << lazyResponse, caller >>
        /\ Prompt
    BY DEF Tick
  <1>2. \A l \in Lazies : /\ lazy'[l].state = lazy[l].state
                          /\ lazy'[l].cache = lazy[l].cache
                          /\ lazy'[l].age = IF lazy[l].state \in { "fetching", "ok" } /\ lazy[l].age < MaxAge
                                            THEN lazy[l].age + 1 ELSE lazy[l].age
    BY DEF Tick, IInv, TypeOK, Lazy
  <1>3. \A c \in Caches : Shows(c)' => Shows(c) /\ lazyResponse[c] \in Lazies
    BY <1>1, <1>2, Numbers DEF Shows, IInv
  <1>4. \A l \in Lazies : lazy[l].state = "fetching" => lazy[l].age < FetchTimeout
    BY <1>1 DEF Prompt
  <1>5. FetchesTimed'
    BY <1>2, <1>4, Numbers DEF FreshInv, FetchesTimed, IInv
  <1>6. ReloadsTimed'
    <2> SUFFICES ASSUME NEW c \in Caches, Shows(c)', nextReload'[c] # 0
                 PROVE  lazy'[lazyResponse[c]].age + nextReload'[c] <= CacheDuration + FetchTimeout
      BY <1>1 DEF ReloadsTimed
    <2>1. nextReload[c] # 0 /\ nextReload'[c] = nextReload[c] - 1
      BY <1>1
    <2>2. lazy[lazyResponse[c]].age + nextReload[c] <= CacheDuration + FetchTimeout
      BY <2>1, <1>3 DEF FreshInv, ReloadsTimed
    <2>3. lazy'[lazyResponse[c]].age <= lazy[lazyResponse[c]].age + 1
      BY <1>2, <1>3, Numbers DEF IInv
    <2>4. /\ lazy[lazyResponse[c]].age \in Nat
          /\ lazy'[lazyResponse[c]].age \in Nat
          /\ nextReload[c] \in Nat
      BY <1>2, <1>3, Numbers DEF IInv
    <2> QED
      BY <2>1, <2>2, <2>3, <2>4
  <1>7. OvertakenFetches'
    <2> SUFFICES ASSUME NEW y \in Lazies, lazy'[y].state = "fetching", Shows(lazy[y].cache)'
                 PROVE  lazy'[lazyResponse[lazy'[y].cache]].age <= lazy'[y].age
      BY <1>1 DEF OvertakenFetches
    <2>1. lazy[y].state = "fetching" /\ lazy[y].cache \in Caches
      BY <1>2, RunningCache DEF Running
    <2>2. Shows(lazy[y].cache) /\ lazyResponse[lazy[y].cache] \in Lazies
      BY <2>1, <1>2, <1>3 DEF Shows
    <2>3. lazy[lazyResponse[lazy[y].cache]].age <= lazy[y].age
      BY <2>1, <2>2 DEF FreshInv, OvertakenFetches
    <2>4. lazy[y].age < MaxAge
      BY <2>1, <1>4, Numbers DEF IInv, MaxAge
    <2> QED
      BY <2>1, <2>2, <2>3, <2>4, <1>2, Numbers DEF IInv
  <1>8. ASSUME NEW q \in Callers PROVE HoldsFresh(caller[q])'
    <2>1. CallersBound!(q)
      BY DEF IInv, CallersBound
    <2>2. \/ caller[q].pc = "idle"
          \/ caller[q].pc = "await" /\ lazy[caller[q].lazy].state = "fetching"
      BY <1>1 DEF Prompt, At
    <2> QED
      BY <2>1, <2>2, <1>1, <1>2 DEF HoldsFresh
  <1> QED
    BY <1>5, <1>6, <1>7, <1>8 DEF FreshInv

\* Every fetch that runs, and every document that was fetched, is as young as the
\* caches' two time limits make it.
THEOREM FreshInvariance == Spec => []FreshInv
  <1>1. Init => FreshInv
    <2> SUFFICES ASSUME Init PROVE FreshInv
      OBVIOUS
    <2>1. /\ \A k \in Callers : caller[k].pc = "idle"
          /\ \A l \in Lazies : lazy[l].state = "none"
          /\ \A c \in Caches : lazyResponse[c] = None
      BY DEF Init, Idle, NewLazy
    <2> QED
      BY <2>1 DEF FreshInv, FetchesTimed, ReloadsTimed, OvertakenFetches, HoldsFresh, Shows
  <1>2. IInv /\ FreshInv /\ [Next]_vars => FreshInv'
    <2> SUFFICES ASSUME IInv, FreshInv, [Next]_vars PROVE FreshInv'
      OBVIOUS
    <2>1. ASSUME NEW k \in Callers, CallerStep(k) PROVE FreshInv'
      BY <2>1, QuietSteps, CreateKeepsFresh, CallRefreshKeepsFresh, ValueKeepsFresh
         DEF CallerStep
    <2>2. ASSUME NEW l \in Lazies, FetchStep(l) PROVE FreshInv'
      BY <2>2, FailureKeepsFresh, FetchOkKeepsFresh, FetchErrorKeepsFresh DEF FetchStep
    <2>3. CASE UNCHANGED vars
      BY <2>3 DEF vars, FreshInv, FetchesTimed, ReloadsTimed, OvertakenFetches,
         HoldsFresh, Shows, Fresh
    <2> QED
      BY <2>1, <2>2, <2>3, TickKeepsFresh DEF Next
  <1> QED
    BY <1>1, <1>2, Invariance, PTL DEF Spec

\* However the fetches of concurrent requests overtake each other, a request is
\* given no document older than its time and the longest fetch.
THEOREM DocumentsStayFresh == Spec => []DocumentsAreFresh
  <1>1. FreshInv => DocumentsAreFresh
    BY DEF FreshInv, HoldsFresh, DocumentsAreFresh, At
  <1> QED
    BY <1>1, FreshInvariance, PTL

-----------------------------------------------------------------------------
(* Nobody stops a task that is awaited *)

\* What a step can make of a task: it runs on, somebody starts it, or its object
\* was free and is another task now.
TaskMoves(l) ==
  \/ lazy'[l].state = lazy[l].state
  \/ << lazy[l].state, lazy'[l].state >> \in Onward
  \/ lazy[l].state = "unstarted" /\ lazy'[l].state = "fetching"
  \/ l \in FreeLazies /\ lazy'[l].state = "unstarted"

\* What a step can make of a field: it stays, it is emptied, or it takes a new lazy.
FieldMoves(c) ==
  \/ lazyResponse'[c] \in { lazyResponse[c], None }
  \/ lazyResponse'[c] \in Lazies /\ lazy'[lazyResponse'[c]].state = "unstarted"

\* What a step can make of a request, as far as its task goes.
RequestMoves(k) ==
  \/ caller'[k] = caller[k]
  \/ caller[k].pc # "await" /\ caller'[k].pc \notin { "value", "await" }
  \/ caller[k].pc = "await" /\ caller'[k].pc = "idle"
  \/ /\ caller[k].pc = "read" /\ caller'[k].pc = "value"
     /\ caller'[k].lazy = lazyResponse[caller[k].cache]
     /\ UNCHANGED lazy
  \/ /\ caller[k].pc = "value" /\ caller'[k].pc = "await"
     /\ caller'[k].lazy = caller[k].lazy
     /\ lazy'[caller[k].lazy].state # "unstarted"

Moves ==
  /\ \A l \in Lazies : TaskMoves(l)
  /\ \A c \in Caches : FieldMoves(c)
  /\ \A k \in Callers : RequestMoves(k)

LEMMA QuietMoves ==
  ASSUME IInv, NEW k \in Callers, Call(k) \/ Create(k) \/ Check(k) \/ Answer(k)
  PROVE  Moves
  <1>1. \A l \in Lazies : lazy'[l].state = lazy[l].state
    BY DEF Call, Create, Check, Answer, IInv, TypeOK, Lazy
  <1>2. \A c \in Caches : lazyResponse'[c] \in { lazyResponse[c], None }
    BY DEF Call, Create, Check, Answer, IInv, TypeOK
  <1>3. \A q \in Callers \ {k} : caller'[q] = caller[q]
    BY DEF Call, Create, Check, Answer, IInv, TypeOK
  <1>4. CASE Answer(k)
    <2>1. caller[k].pc = "await" /\ caller'[k].pc = "idle"
      BY <1>4 DEF Answer, At, IInv, TypeOK, Idle
    <2> QED
      BY <2>1, <1>1, <1>2, <1>3 DEF Moves, TaskMoves, FieldMoves, RequestMoves
  <1>5. CASE Call(k) \/ Create(k) \/ Check(k)
    <2>1. caller[k].pc # "await" /\ caller'[k].pc \notin { "value", "await" }
      BY <1>5 DEF Call, Create, Check, At, IInv, TypeOK, Caller
    <2> QED
      BY <2>1, <1>1, <1>2, <1>3 DEF Moves, TaskMoves, FieldMoves, RequestMoves
  <1> QED
    BY <1>4, <1>5

LEMMA CallRefreshMoves ==
  ASSUME IInv, NEW k \in Callers, CallRefresh(k)
  PROVE  Moves
  <1> DEFINE n == NewObject(FreeLazies)
             c == caller[k].cache
  <1>1. /\ lazyResponse' = [lazyResponse EXCEPT ![c] = n]
        /\ lazy' = [lazy EXCEPT ![n] = NewLazy(c)]
        /\ caller' = [caller EXCEPT ![k].pc = "read"]
        /\ caller[k].pc = "refresh"
        /\ n \in FreeLazies /\ n \in Lazies
    BY NewObjectIsFree DEF CallRefresh, Refresh, At, FreeLazies
  <1> HIDE DEF n, c
  <1>2. lazy'[n].state = "unstarted" /\ \A l \in Lazies \ {n} : lazy'[l] = lazy[l]
    BY <1>1 DEF IInv, TypeOK, NewLazy
  <1>3. \A d \in Caches : lazyResponse'[d] \in { lazyResponse[d], n }
    BY <1>1 DEF IInv, TypeOK
  <1>4. caller'[k].pc = "read" /\ \A q \in Callers \ {k} : caller'[q] = caller[q]
    BY <1>1 DEF IInv, TypeOK, Caller
  <1> QED
    BY <1>1, <1>2, <1>3, <1>4 DEF Moves, TaskMoves, FieldMoves, RequestMoves

LEMMA ReadMoves ==
  ASSUME IInv, NEW k \in Callers, ReadField(k) \/ Value(k)
  PROVE  Moves
  <1>1. UNCHANGED lazyResponse /\ \A q \in Callers \ {k} : caller'[q] = caller[q]
    BY DEF ReadField, Value, IInv, TypeOK
  <1>2. CASE ReadField(k)
    <2>1. /\ caller[k].pc = "read" /\ caller'[k].pc = "value"
          /\ caller'[k].lazy = lazyResponse[caller[k].cache]
          /\ UNCHANGED lazy
      BY <1>2 DEF ReadField, At, IInv, TypeOK, Caller
    <2> QED
      BY <2>1, <1>1 DEF Moves, TaskMoves, FieldMoves, RequestMoves
  <1>3. CASE Value(k)
    <2> DEFINE l == caller[k].lazy
    <2>1. /\ caller[k].pc = "value" /\ caller'[k].pc = "await"
          /\ caller'[k].lazy = l
      BY <1>3 DEF Value, At, IInv, TypeOK, Caller
    <2>2. l \in Lazies
      BY <2>1 DEF IInv, CallersBound
    <2>3. /\ \A y \in Lazies \ {l} : lazy'[y].state = lazy[y].state
          /\ lazy'[l].state = IF lazy[l].state = "unstarted" THEN "fetching" ELSE lazy[l].state
      BY <1>3, <2>2 DEF Value, IInv, TypeOK, Lazy
    <2> QED
      BY <2>1, <2>3, <1>1 DEF Moves, TaskMoves, FieldMoves, RequestMoves
  <1> QED
    BY <1>2, <1>3

LEMMA FetchMoves ==
  ASSUME IInv, NEW l \in Lazies, FetchStep(l)
  PROVE  Moves
  <1>1. UNCHANGED caller
    BY DEF FetchStep, FetchThrows, FetchOk, FetchError, FetchFailed
  <1>2. CASE FetchThrows(l) \/ FetchOk(l) \/ FetchFailed(l)
    <2>1. /\ UNCHANGED lazyResponse
          /\ \A y \in Lazies \ {l} : lazy'[y].state = lazy[y].state
          /\ << lazy[l].state, lazy'[l].state >> \in Onward
      BY <1>2 DEF FetchThrows, FetchOk, FetchFailed, Onward, IInv, TypeOK, Lazy
    <2> QED
      BY <2>1, <1>1 DEF Moves, TaskMoves, FieldMoves, RequestMoves
  <1>3. CASE FetchError(l)
    <2> DEFINE n == NewObject(FreeLazies)
               c == lazy[l].cache
    <2>1. /\ lazyResponse' = [lazyResponse EXCEPT ![c] = n]
          /\ lazy' = [lazy EXCEPT ![l].state = "failing", ![n] = NewLazy(c)]
          /\ lazy[l].state = "fetching"
          /\ n \in FreeLazies /\ n \in Lazies
      BY <1>3, NewObjectIsFree DEF FetchError, FreeLazies
    <2> HIDE DEF n, c
    <2>2. n # l
      BY <2>1 DEF FreeLazies, Running
    <2>3. /\ lazy'[n].state = "unstarted"
          /\ << lazy[l].state, lazy'[l].state >> \in Onward
          /\ \A y \in Lazies \ {l, n} : lazy'[y] = lazy[y]
      BY <2>1, <2>2 DEF IInv, TypeOK, Lazy, NewLazy, Onward
    <2>4. \A d \in Caches : lazyResponse'[d] \in { lazyResponse[d], n }
      BY <2>1 DEF IInv, TypeOK
    <2> QED
      BY <2>1, <2>3, <2>4, <1>1 DEF Moves, TaskMoves, FieldMoves, RequestMoves
  <1> QED
    BY <1>2, <1>3 DEF FetchStep

LEMMA StepMoves ==
  ASSUME IInv, [Next]_vars
  PROVE  Moves
  <1>1. CASE Tick
    <2>1. \A l \in Lazies : lazy'[l].state = lazy[l].state
      BY <1>1 DEF Tick, IInv, TypeOK, Lazy
    <2> QED
      BY <2>1, <1>1 DEF Tick, Moves, TaskMoves, FieldMoves, RequestMoves
  <1>2. CASE UNCHANGED vars
    BY <1>2 DEF vars, Moves, TaskMoves, FieldMoves, RequestMoves
  <1> QED
    BY <1>1, <1>2, QuietMoves, CallRefreshMoves, ReadMoves, FetchMoves
       DEF Next, CallerStep

\* An awaited task is nobody's to take: whatever a step makes of it is its own way on.
LEMMA AwaitedRunsOn ==
  ASSUME IInv, WaitInv, Moves, NEW k \in Callers, At(k, "await")
  PROVE  LET l == caller[k].lazy IN
         /\ l \in Lazies
         /\ lazy[l].state \in Running \cup { "ok", "failed" }
         /\ \/ lazy'[l].state = lazy[l].state
            \/ << lazy[l].state, lazy'[l].state >> \in Onward
  <1> DEFINE l == caller[k].lazy
  <1>1. l \in Lazies /\ l \notin FreeLazies
    BY DEF IInv, CallersBound, At, FreeLazies
  <1>2. lazy[l].state \in TaskStates \ { "none", "unstarted" }
    BY <1>1 DEF WaitInv, IInv, TypeOK, Lazy
  <1> QED
    BY <1>1, <1>2 DEF Moves, TaskMoves, TaskStates, Running

LEMMA WaitInvIsInductive ==
  ASSUME IInv, WaitInv, Moves
  PROVE  WaitInv'
  <1> USE ConstantsAssumption
  <1>1. \A l \in Lazies : lazy[l].state # "none" => lazy'[l].state # "none"
    BY DEF Moves, TaskMoves, Onward
  <1>2. ASSUME NEW c \in Caches, lazyResponse'[c] # None
        PROVE  lazy'[lazyResponse'[c]].state # "none"
    <2>1. CASE lazyResponse'[c] = lazyResponse[c]
      BY <1>1, <1>2, <2>1 DEF WaitInv, IInv, TypeOK
    <2> QED
      BY <1>2, <2>1 DEF Moves, FieldMoves
  <1>3. ASSUME NEW k \in Callers, caller'[k].pc \in { "value", "await" }
        PROVE  /\ lazy'[caller'[k].lazy].state # "none"
               /\ caller'[k].pc = "await" => lazy'[caller'[k].lazy].state # "unstarted"
    <2>1. CallersBound!(k)
      BY DEF IInv, CallersBound
    <2>2. CASE caller'[k] = caller[k]
      <3>1. caller[k].lazy \in Lazies /\ lazy[caller[k].lazy].state # "none"
        BY <1>3, <2>1, <2>2 DEF WaitInv, At
      <3>2. At(k, "await") => lazy'[caller[k].lazy].state # "unstarted"
        <4> SUFFICES ASSUME At(k, "await") PROVE lazy'[caller[k].lazy].state # "unstarted"
          OBVIOUS
        <4> QED
          BY AwaitedRunsOn DEF Running, Onward
      <3> QED
        BY <3>1, <3>2, <2>2, <1>1 DEF At
    <2>3. CASE /\ caller[k].pc = "read" /\ caller'[k].pc = "value"
               /\ caller'[k].lazy = lazyResponse[caller[k].cache]
               /\ UNCHANGED lazy
      BY <2>1, <2>3 DEF WaitInv
    <2>4. CASE /\ caller[k].pc = "value"
               /\ caller'[k].lazy = caller[k].lazy
               /\ lazy'[caller[k].lazy].state # "unstarted"
      BY <2>1, <2>4, <1>1 DEF WaitInv
    <2> QED
      BY <1>3, <2>2, <2>3, <2>4 DEF Moves, RequestMoves
  <1> QED
    BY <1>2, <1>3 DEF WaitInv, At

\* A request waits for a task that somebody has started, and nobody stops the task
\* or takes its object away before the request has its answer, however many
\* requests reload the same document meanwhile.
THEOREM AwaitedTasksAreNotStopped == Spec => AwaitedTasksRunOn
  <1>1. Init => WaitInv
    BY DEF Init, Idle, WaitInv, At
  <1>2. IInv /\ WaitInv /\ [Next]_vars => WaitInv'
    BY StepMoves, WaitInvIsInductive
  <1>3. IInv /\ WaitInv /\ [Next]_vars =>
          \A k \in Callers :
            At(k, "await") =>
              LET task == lazy[caller[k].lazy].state IN
              /\ task \in Running \cup { "ok", "failed" }
              /\ \/ At(k, "idle")'
                 \/ /\ caller'[k] = caller[k]
                    /\ LET next == lazy'[caller[k].lazy].state IN
                       next = task \/ << task, next >> \in Onward
    <2> SUFFICES ASSUME IInv, WaitInv, [Next]_vars, NEW k \in Callers, At(k, "await")
                 PROVE  /\ lazy[caller[k].lazy].state \in Running \cup { "ok", "failed" }
                        /\ \/ At(k, "idle")'
                           \/ /\ caller'[k] = caller[k]
                              /\ \/ lazy'[caller[k].lazy].state = lazy[caller[k].lazy].state
                                 \/ << lazy[caller[k].lazy].state,
                                       lazy'[caller[k].lazy].state >> \in Onward
      OBVIOUS
    <2>1. Moves
      BY StepMoves
    <2>2. caller'[k] = caller[k] \/ caller'[k].pc = "idle"
      BY <2>1 DEF Moves, RequestMoves, At
    <2> QED
      BY <2>1, <2>2, AwaitedRunsOn DEF At
  <1> QED
    BY <1>1, <1>2, <1>3, Invariance, PTL DEF Spec, AwaitedTasksRunOn

=============================================================================
