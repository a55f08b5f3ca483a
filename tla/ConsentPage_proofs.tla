------------------------- MODULE ConsentPage_proofs -------------------------
(* Proofs about ConsentPage: who is asked, and where, for any number of        *)
(* processes, visits, services and authorities.                                *)
EXTENDS ConsentPage, TLAPS

LEMMA GoneIsAVisit == Gone \in Visit /\ Services(Gone) = {} /\ Gone.pc \notin BusyPcs
  BY NoneAssumption DEF Gone, Visit, Services, BusyPcs

LEMMA InitIInv == Init => IInv
  <1> SUFFICES ASSUME Init PROVE IInv
    OBVIOUS
  <1>1. TypeOK
    BY GoneIsAVisit DEF Init, TypeOK, Down, Instance
  <1>2. OneServicePerName
    BY GoneIsAVisit DEF Init, OneServicePerName, NoNamesakes
  <1>3. SeedingSound
    BY DEF Init, SeedingSound, SeedingNow, Down
  <1>4. HeldBound
    BY DEF Init, HeldBound, Down
  <1>5. \A v \in Visits : VisitBound(visit[v])
    BY GoneIsAVisit DEF Init, VisitBound
  <1> QED
    BY <1>1, <1>2, <1>3, <1>4, <1>5 DEF IInv

\* A visit goes on: what it changes is its own record, and the map if it adds
\* to it what it has read.
LEMMA VisitGoesOn ==
  ASSUME IInv, NEW v \in Visits, NEW q \in Visit,
         visit' = [visit EXCEPT ![v] = q],
         VisitBound(q), Services(q) \subseteq Services(visit[v]),
         UNCHANGED << rows, instance, held, overlapped >>,
         caches' \in [Instances -> [Ids -> Authorities \cup {None}]],
         HeldBound'
  PROVE  IInv'
  <1>1. visit' \in [Visits -> Visit] /\ visit'[v] = q
        /\ \A w \in Visits \ {v} : visit'[w] = visit[w]
    BY DEF IInv, TypeOK
  <1>2. TypeOK'
    BY <1>1 DEF IInv, TypeOK
  <1>3. OneServicePerName'
    BY <1>1 DEF IInv, OneServicePerName, NoNamesakes, Services
  <1>4. SeedingSound'
    BY DEF IInv, SeedingSound, SeedingNow, NamedRows
  <1>5. \A w \in Visits : VisitBound(visit[w])'
    BY <1>1 DEF IInv, VisitBound, WasHeld, Services
  <1> QED
    BY <1>2, <1>3, <1>4, <1>5 DEF IInv

LEMMA SameHeldBound ==
  ASSUME HeldBound, UNCHANGED << rows, instance, caches, held >>
  PROVE  HeldBound'
  BY DEF HeldBound

LEMMA LookupStep ==
  ASSUME IInv, NEW v \in Visits, NEW e \in Entity, Lookup(v, e)
  PROVE  IInv'
  <1>1. visit[v] \in Visit /\ e \in visit[v].todo /\ visit[v].pc \in BusyPcs
    BY DEF Lookup, IInv, TypeOK, BusyPcs
  <1>2. /\ visit[v].instance \in Instances /\ e.id \in Ids /\ WasHeld(visit[v], e)
        /\ instance[visit[v].instance].pc = "up"
    BY <1>1 DEF IInv, VisitBound, Entity
  <1>3. PICK a \in Authorities, pc \in { "create", "ask" } :
          /\ a \in held[visit[v].instance][e.id]
          /\ visit' = [visit EXCEPT ![v].pc = pc, ![v].entity = [e EXCEPT !.authority = a]]
    <2>1. CASE caches[visit[v].instance][e.id] = None
      <3>1. e = [e EXCEPT !.authority = e.authority]
        BY DEF Entity
      <3> QED
        BY <2>1, <3>1, <1>2 DEF Lookup, Entity, WasHeld
    <2>2. CASE caches[visit[v].instance][e.id] # None
      <3> DEFINE b == caches[visit[v].instance][e.id]
      <3>1. b \in Authorities /\ b \in held[visit[v].instance][e.id]
        BY <2>2, <1>2 DEF IInv, TypeOK, HeldBound
      <3>2. visit' = [visit EXCEPT ![v].pc = "ask",
                                   ![v].entity = [e EXCEPT !.authority = b]]
        BY <2>2 DEF Lookup, Keep
      <3> HIDE DEF b
      <3> QED
        BY <3>1, <3>2
    <2> QED
      BY <2>1, <2>2
  <1> DEFINE q == [visit[v] EXCEPT !.pc = pc, !.entity = [e EXCEPT !.authority = a]]
  <1>4. q \in Visit /\ q.entity \in Entity /\ q.entity.id = e.id
        /\ q.entity.name = e.name /\ q.entity.authority = a
    BY <1>1, <1>3 DEF Visit, Entity
  <1>5. visit' = [visit EXCEPT ![v] = q]
    BY <1>3 DEF IInv, TypeOK
  <1>6. Services(q) = Services(visit[v]) /\ << e.id, e.name >> \in Services(q)
    BY <1>1 DEF Services, Visit
  <1>7. VisitBound(q)
    <2>1. q.instance = visit[v].instance /\ q.todo = visit[v].todo
      BY <1>1 DEF Visit
    <2>2. \A f \in q.todo : WasHeld(q, f)
      BY <1>1, <2>1 DEF IInv, VisitBound, WasHeld
    <2>3. q.entity # None
      BY <1>4, NoneAssumption
    <2> QED
      BY <1>2, <1>3, <1>4, <1>6, <2>1, <2>2, <2>3 DEF VisitBound, WasHeld
  <1>8. HeldBound' /\ UNCHANGED << rows, instance, caches, held, overlapped >>
    BY SameHeldBound DEF IInv, Lookup
  <1> QED
    BY <1>4, <1>5, <1>6, <1>7, <1>8, VisitGoesOn DEF IInv, TypeOK

LEMMA CreateStep ==
  ASSUME IInv, NEW v \in Visits, Create(v)
  PROVE  IInv'
  <1> DEFINE e == visit[v].entity
             i == visit[v].instance
  <1>1. /\ visit[v] \in Visit /\ visit[v].pc \in BusyPcs /\ visit[v].pc = "create"
        /\ i \in Instances /\ instance[i].pc = "up"
    BY DEF Create, IInv, TypeOK, BusyPcs, VisitBound
  <1>2. e \in Entity /\ WasHeld(visit[v], e) /\ << e.id, e.name >> \in Services(visit[v])
    BY <1>1 DEF IInv, VisitBound, Visit
  <1>3. e.id \in Ids /\ e.authority \in Authorities
        /\ e = [e EXCEPT !.authority = e.authority]
    BY <1>2 DEF Entity
  <1> DEFINE q == [visit[v] EXCEPT !.pc = "ask"]
  <1>4. visit' = [visit EXCEPT ![v] = q]
    <2>1. visit' = [visit EXCEPT ![v].pc = "ask", ![v].entity = e]
      BY <1>3 DEF Create, Keep
    <2> QED
      BY <1>1, <2>1 DEF IInv, TypeOK, Visit
  <1>5. /\ q \in Visit /\ q.pc = "ask" /\ q.entity = e /\ q.instance = i
        /\ q.todo = visit[v].todo /\ q.containers = visit[v].containers
    BY <1>1 DEF Visit
  <1>6. Services(q) = Services(visit[v])
    BY <1>5 DEF Services
  <1>7. VisitBound(q)
    BY <1>1, <1>2, <1>5, <1>6 DEF IInv, VisitBound, WasHeld
  <1>8. /\ caches' \in [Instances -> [Ids -> Authorities \cup {None}]]
        /\ \A j \in Instances, d \in Ids :
             caches'[j][d] # caches[j][d]
               => j = i /\ d = e.id /\ caches'[j][d] = e.authority
    BY <1>1, <1>3 DEF Create, IInv, TypeOK
  <1>9. UNCHANGED << rows, instance, held, overlapped >>
    BY DEF Create
  <1>10. HeldBound'
    BY <1>1, <1>2, <1>3, <1>8, <1>9 DEF IInv, HeldBound, WasHeld
  <1> HIDE DEF q
  <1> QED
    BY <1>4, <1>5, <1>6, <1>7, <1>8, <1>9, <1>10, VisitGoesOn

LEMMA AskStep ==
  ASSUME IInv, NEW v \in Visits, Ask(v)
  PROVE  IInv'
  <1> DEFINE e == visit[v].entity
  <1>1. visit[v] \in Visit /\ visit[v].pc \in BusyPcs /\ visit[v].pc = "ask"
    BY DEF Ask, IInv, TypeOK, BusyPcs
  <1>2. e \in Entity /\ << e.id, e.name >> \in Services(visit[v])
    BY <1>1 DEF IInv, VisitBound, Visit
  <1>3. HeldBound' /\ UNCHANGED << rows, instance, caches, held, overlapped >>
    BY SameHeldBound DEF IInv, Ask
  <1>4. caches' \in [Instances -> [Ids -> Authorities \cup {None}]]
    BY <1>3 DEF IInv, TypeOK
  <1>5. CASE visit' = [visit EXCEPT ![v].pc = "failed"]
    <2> DEFINE q == [visit[v] EXCEPT !.pc = "failed"]
    <2>1. q \in Visit /\ VisitBound(q) /\ Services(q) \subseteq Services(visit[v])
      BY <1>1 DEF Visit, VisitBound, BusyPcs, Services
    <2>2. visit' = [visit EXCEPT ![v] = q]
      BY <1>5 DEF IInv, TypeOK
    <2> HIDE DEF q
    <2> QED
      BY <2>1, <2>2, <1>3, <1>4, VisitGoesOn
  <1>6. ASSUME NEW type \in Types, NEW response \in {None} \cup Response,
               Answered(v, type, response)
        PROVE  IInv'
    <2> DEFINE c == [ id |-> e.id, name |-> e.name, type |-> type, response |-> response ]
               q == [visit[v] EXCEPT !.pc = "next", !.entity = None,
                                     !.todo = { f \in @ : f.id # e.id },
                                     !.containers = @ \cup {c}]
    <2>1. c \in Container
      BY <1>2, <1>6 DEF Container, Entity
    <2>2. /\ q \in Visit /\ q.pc = "next" /\ q.instance = visit[v].instance
          /\ q.todo \subseteq visit[v].todo
          /\ q.containers = visit[v].containers \cup {c}
      BY <1>1, <2>1 DEF Visit
    <2>3. Services(q) \subseteq Services(visit[v])
      BY <1>2, <2>2 DEF Services
    <2>4. VisitBound(q)
      BY <1>1, <2>2 DEF IInv, VisitBound, WasHeld
    <2>5. visit' = [visit EXCEPT ![v] = q]
      BY <1>6 DEF Answered, IInv, TypeOK
    <2> HIDE DEF q
    <2> QED
      BY <2>2, <2>3, <2>4, <2>5, <1>3, <1>4, VisitGoesOn
  <1>7. Answers(None) \subseteq {None} \cup Response
        /\ Answers(visit[v].scopes) \subseteq {None} \cup Response
    BY <1>1, ConstantsAssumption DEF Answers, Response, Visit
  <1> QED
    BY <1>5, <1>6, <1>7 DEF Ask, Types

LEMMA FinishStep ==
  ASSUME IInv, NEW v \in Visits, Finish(v)
  PROVE  IInv'
  <1>1. visit[v] \in Visit
    BY DEF IInv, TypeOK
  <1>2. PICK pc \in { "shown", "failed" }, token \in {None} \cup SUBSET Scopes :
          visit' = [visit EXCEPT ![v].pc = pc, ![v].token = token]
    <2>1. CASE \E c \in visit[v].containers : c.response = None
      <3>1. visit' = [visit EXCEPT ![v].pc = "failed", ![v].token = visit[v].token]
        BY <1>1, <2>1 DEF Finish, IInv, TypeOK, Visit
      <3> QED
        BY <1>1, <3>1 DEF Visit
    <2>2. CASE ~ \E c \in visit[v].containers : c.response = None
      <3>1. visit[v].containers \subseteq Container
        BY <1>1 DEF Visit
      <3>2. \A c \in visit[v].containers : c.response \in Response
        BY <2>2, <3>1 DEF Container
      <3> QED
        <4>1. Granted(visit[v].containers) \in SUBSET Scopes
          BY <3>2 DEF Granted, Response
        <4>2. visit' = [visit EXCEPT
                ![v].token = Granted(visit[v].containers),
                ![v].pc = IF \A c \in visit[v].containers : c.type = "subject_and_scopes"
                          THEN "shown" ELSE "failed"]
          BY <2>2 DEF Finish
        <4>3. visit' = [visit EXCEPT
                ![v].pc = IF \A c \in visit[v].containers : c.type = "subject_and_scopes"
                          THEN "shown" ELSE "failed",
                ![v].token = Granted(visit[v].containers)]
          BY <4>2, <1>1 DEF IInv, TypeOK, Visit
        <4> QED
          BY <4>1, <4>3
    <2> QED
      BY <2>1, <2>2
  <1> DEFINE q == [visit[v] EXCEPT !.pc = pc, !.token = token]
  <1>3. q \in Visit /\ VisitBound(q) /\ Services(q) \subseteq Services(visit[v])
    BY <1>1, <1>2 DEF Visit, VisitBound, BusyPcs, Services
  <1>4. visit' = [visit EXCEPT ![v] = q]
    BY <1>2 DEF IInv, TypeOK
  <1>5. HeldBound' /\ UNCHANGED << rows, instance, caches, held, overlapped >>
    BY SameHeldBound DEF IInv, Finish
  <1>6. caches' \in [Instances -> [Ids -> Authorities \cup {None}]]
    BY <1>5 DEF IInv, TypeOK
  <1> HIDE DEF q
  <1> QED
    BY <1>3, <1>4, <1>5, <1>6, VisitGoesOn

\* A new visit holds what the table holds, of which the process has seen every
\* authority.
LEMMA BeginStep ==
  ASSUME IInv, NEW v \in Visits, NEW i \in Instances, NEW scopes \in Requests,
         Begin(v, i, scopes)
  PROVE  IInv'
  <1> DEFINE todo == { e \in Entity :
                        /\ rows[e.id] = [ name |-> e.name, authority |-> e.authority ]
                        /\ ScopesOf[e.name] \cap scopes # {} }
             q == [ Gone EXCEPT !.pc = "next", !.instance = i, !.scopes = scopes,
                      !.todo = todo ]
  <1>1. /\ visit' = [visit EXCEPT ![v] = q]
        /\ instance[i].pc = "up"
        /\ UNCHANGED << rows, instance, caches, held, overlapped >>
    BY DEF Begin
  <1>2. /\ q \in Visit /\ q.pc = "next" /\ q.instance = i
        /\ q.todo = todo /\ q.containers = {}
    BY ConstantsAssumption DEF Gone, Visit
  <1>3. \A e \in todo : /\ rows[e.id] # None
                        /\ rows[e.id].name = e.name
                        /\ rows[e.id].authority = e.authority
                        /\ e \in Entity
    BY NoneAssumption DEF Row, Entity
  <1>4. VisitBound(q)
    <2>1. \A e \in q.todo : e.authority \in held[i][e.id]
      BY <1>1, <1>2, <1>3 DEF IInv, HeldBound, Entity
    <2> HIDE DEF q
    <2> QED
      BY <2>1, <1>1, <1>2 DEF VisitBound, WasHeld
  <1>5. ~overlapped => NoNamesakes(Services(q))
    <2> SUFFICES ASSUME ~overlapped, NEW e \in q.todo, NEW f \in q.todo, e.name = f.name
                 PROVE  e.id = f.id
      <3>1. Services(q) = { << e.id, e.name >> : e \in q.todo }
        BY <1>2 DEF Services
      <3> HIDE DEF q
      <3> QED
        BY <3>1 DEF NoNamesakes
    <2> HIDE DEF q
    <2> QED
      BY <1>2, <1>3 DEF IInv, OneServicePerName, Entity
  <1> HIDE DEF q, todo
  <1>6. visit' \in [Visits -> Visit] /\ visit'[v] = q
        /\ \A w \in Visits \ {v} : visit'[w] = visit[w]
    BY <1>1, <1>2 DEF IInv, TypeOK
  <1>7. TypeOK'
    BY <1>1, <1>6 DEF IInv, TypeOK
  <1>8. OneServicePerName'
    BY <1>1, <1>5, <1>6 DEF IInv, OneServicePerName, NoNamesakes, Services
  <1>9. SeedingSound'
    BY <1>1 DEF IInv, SeedingSound, SeedingNow, NamedRows
  <1>10. HeldBound'
    BY <1>1, SameHeldBound DEF IInv
  <1>11. \A w \in Visits : VisitBound(visit[w])'
    BY <1>1, <1>4, <1>6 DEF IInv, VisitBound, WasHeld, Services
  <1> QED
    BY <1>7, <1>8, <1>9, <1>10, <1>11 DEF IInv

LEMMA StartStep ==
  ASSUME IInv, NEW i \in Instances, Start(i)
  PROVE  IInv'
  <1> DEFINE found == IF NamedRows(Seeded) = {} THEN {None} ELSE NamedRows(Seeded)
  <1>1. /\ instance[i].pc = "down"
        /\ held' = [held EXCEPT ![i] = [d \in Ids |-> Held(d)]]
        /\ UNCHANGED << rows, caches, visit >>
    BY DEF Start
  <1>2. PICK p \in Instance :
          /\ instance' = [instance EXCEPT ![i] = p]
          /\ \/ p.pc = "up" /\ overlapped' = overlapped
             \/ /\ p.pc = "seeding" /\ p.authority # None
                /\ p.found \in found
                /\ overlapped => overlapped'
                /\ ~overlapped' => SeedingNow = {}
                /\ overlapped' \in BOOLEAN
    <2>1. CASE /\ instance' = [instance EXCEPT ![i].pc = "up"]
               /\ overlapped' = overlapped
      <3> DEFINE p == [instance[i] EXCEPT !.pc = "up"]
      <3>1. p \in Instance /\ p.pc = "up" /\ instance' = [instance EXCEPT ![i] = p]
        BY <2>1 DEF IInv, TypeOK, Instance
      <3> HIDE DEF p
      <3> QED
        BY <2>1, <3>1
    <2>2. ASSUME NEW a \in Authorities, NEW d \in found,
                 instance' = [instance EXCEPT ![i] =
                   [ pc |-> "seeding", authority |-> a, found |-> d ]],
                 overlapped' = (overlapped \/ SeedingNow # {})
          PROVE  \E p \in Instance :
                   /\ instance' = [instance EXCEPT ![i] = p]
                   /\ p.pc = "seeding" /\ p.authority # None /\ p.found \in found
                   /\ overlapped => overlapped'
                   /\ ~overlapped' => SeedingNow = {}
                   /\ overlapped' \in BOOLEAN
      <3> DEFINE p == [ pc |-> "seeding", authority |-> a, found |-> d ]
      <3>1. p \in Instance /\ p.pc = "seeding" /\ p.authority # None /\ p.found \in found
        BY NoneAssumption DEF Instance, NamedRows
      <3>2. instance' = [instance EXCEPT ![i] = p]
        BY <2>2
      <3>3. /\ overlapped => overlapped'
            /\ ~overlapped' => SeedingNow = {}
            /\ overlapped' \in BOOLEAN
        <4>1. overlapped' = (overlapped \/ SeedingNow # {})
          BY <2>2
        <4> QED
          BY <4>1, Zenon
      <3> HIDE DEF p
      <3> QED
        BY <3>1, <3>2, <3>3
    <2> QED
      BY <2>1, <2>2 DEF Start
  <1>3. instance' \in [Instances -> Instance] /\ instance'[i] = p
        /\ \A j \in Instances \ {i} : instance'[j] = instance[j]
    BY <1>2 DEF IInv, TypeOK
  <1>4. held' \in [Instances -> [Ids -> SUBSET Authorities]]
        /\ (\A d \in Ids : held'[i][d] = Held(d))
        /\ \A j \in Instances \ {i} : held'[j] = held[j]
    <2>1. \A d \in Ids : Held(d) \subseteq Authorities
      BY DEF Held, IInv, TypeOK, Row
    <2> QED
      BY <1>1, <2>1 DEF IInv, TypeOK
  <1>5. TypeOK'
    BY <1>1, <1>2, <1>3, <1>4 DEF IInv, TypeOK
  <1>6. OneServicePerName'
    BY <1>1, <1>2 DEF IInv, OneServicePerName, NoNamesakes, Services
  <1>7. SeedingSound'
    <2>1. NamedRows(Seeded)' = NamedRows(Seeded)
      BY <1>1 DEF NamedRows
    <2>2. \A j \in SeedingNow' : j # i => j \in SeedingNow
      BY <1>3 DEF SeedingNow
    <2>3. i \in SeedingNow' => p.authority # None /\ p.found \in found
      BY <1>2, <1>3 DEF SeedingNow
    <2>4. /\ overlapped => overlapped'
          /\ ~overlapped' => SeedingNow = {} \/ i \notin SeedingNow'
      BY <1>2, <1>3 DEF SeedingNow
    <2>5. None \notin NamedRows(Seeded)
      BY NoneAssumption DEF NamedRows
    <2>6. SeedingNow' \subseteq Instances
      BY DEF SeedingNow
    <2> QED
      BY <1>3, <2>1, <2>2, <2>3, <2>4, <2>5, <2>6 DEF IInv, SeedingSound
  <1>8. HeldBound'
    BY <1>1, <1>2, <1>3, <1>4 DEF IInv, HeldBound, Held
  <1>9. \A w \in Visits : VisitBound(visit[w])'
    BY <1>1, <1>3, <1>4 DEF IInv, VisitBound, WasHeld, Services
  <1> QED
    BY <1>5, <1>6, <1>7, <1>8, <1>9 DEF IInv

\* The save adds to what every process has seen of the row; it takes no name
\* that a row has, unless another process seeded meanwhile.
LEMMA SeedSaveStep ==
  ASSUME IInv, NEW i \in Instances, SeedSave(i)
  PROVE  IInv'
  <1> DEFINE p == instance[i]
             r == [ name |-> Seeded, authority |-> p.authority ]
             up == [Down EXCEPT !.pc = "up"]
  <1>1. i \in SeedingNow /\ p \in Instance /\ p.authority \in Authorities
    BY DEF SeedSave, SeedingNow, IInv, TypeOK, Instance, SeedingSound
  <1>2. r \in Row /\ r # None /\ r.name = Seeded /\ r.authority = p.authority
    BY <1>1, ConstantsAssumption, NoneAssumption DEF Row
  <1>3. up \in Instance /\ up.pc = "up"
    BY DEF Down, Instance
  <1>4. PICK d \in Ids :
          /\ IF p.found = None THEN rows[d] = None ELSE d = p.found
          /\ SaveRow(d, r)
    BY DEF SeedSave
  <1>5. /\ instance' = [instance EXCEPT ![i] = up]
        /\ UNCHANGED << caches, visit, overlapped >>
    BY DEF SeedSave
  <1> HIDE DEF r, up
  <1>6. rows' \in [Ids -> Row \cup {None}] /\ rows'[d] = r
        /\ \A e \in Ids \ {d} : rows'[e] = rows[e]
    BY <1>2, <1>4 DEF SaveRow, IInv, TypeOK
  <1>7. instance' \in [Instances -> Instance] /\ instance'[i] = up
        /\ \A j \in Instances \ {i} : instance'[j] = instance[j]
    BY <1>3, <1>5 DEF IInv, TypeOK
  <1>8. /\ held' \in [Instances -> [Ids -> SUBSET Authorities]]
        /\ \A j \in Instances, e \in Ids : held[j][e] \subseteq held'[j][e]
        /\ \A j \in Instances : instance[j].pc # "down" => r.authority \in held'[j][d]
    <2>1. held' = [j \in Instances |->
                    IF instance[j].pc = "down" THEN held[j]
                    ELSE [held[j] EXCEPT ![d] = @ \cup {r.authority}]]
      BY <1>4 DEF SaveRow
    <2> QED
      BY <1>1, <1>2, <2>1 DEF IInv, TypeOK
  <1>9. TypeOK'
    BY <1>5, <1>6, <1>7, <1>8 DEF IInv, TypeOK
  <1>10. ~overlapped => \A e \in Ids \ {d} : rows[e] # None => rows[e].name # Seeded
    <2>1. CASE p.found = None
      BY <1>1, <2>1 DEF IInv, SeedingSound, NamedRows
    <2>2. CASE p.found # None
      <3>1. d = p.found /\ d \in NamedRows(Seeded)
        BY <1>1, <1>4, <2>2 DEF IInv, SeedingSound
      <3> QED
        BY <3>1 DEF NamedRows, IInv, OneServicePerName
    <2> QED
      BY <2>1, <2>2
  <1>11. OneServicePerName'
    BY <1>2, <1>5, <1>6, <1>10 DEF IInv, OneServicePerName, NoNamesakes, Services
  <1>12. SeedingSound'
    <2>1. SeedingNow' = SeedingNow \ {i}
      BY <1>3, <1>7 DEF SeedingNow
    <2>2. \A j \in SeedingNow' : instance'[j] = instance[j]
      BY <1>7, <2>1 DEF SeedingNow
    <2>3. NamedRows(Seeded) \subseteq NamedRows(Seeded)'
      BY <1>2, <1>6 DEF NamedRows
    <2>4. ~overlapped => SeedingNow' = {}
      BY <1>1, <2>1 DEF IInv, SeedingSound
    <2> QED
      BY <1>5, <2>1, <2>2, <2>3, <2>4 DEF IInv, SeedingSound
  <1>13. HeldBound'
    <2> SUFFICES ASSUME NEW j \in Instances, NEW e \in Ids
                 PROVE  /\ instance'[j].pc = "down" => caches'[j][e] = None
                        /\ instance'[j].pc # "down" /\ rows'[e] # None
                             => rows'[e].authority \in held'[j][e]
                        /\ caches'[j][e] # None => caches'[j][e] \in held'[j][e]
      BY DEF HeldBound
    <2>1. instance'[j].pc # "down" => instance[j].pc # "down"
      BY <1>1, <1>7 DEF SeedingNow
    <2>2. instance'[j].pc = "down" => instance[j].pc = "down"
      BY <1>3, <1>7
    <2> QED
      BY <1>5, <1>6, <1>8, <2>1, <2>2 DEF IInv, HeldBound
  <1>14. \A w \in Visits : VisitBound(visit[w])'
    <2> SUFFICES ASSUME NEW w \in Visits PROVE VisitBound(visit[w])'
      OBVIOUS
    <2>1. visit[w] \in Visit /\ VisitBound(visit[w]) /\ visit'[w] = visit[w]
      BY <1>5 DEF IInv, TypeOK
    <2>2. visit[w].todo \subseteq Entity /\ visit[w].entity \in Entity \cup {None}
      BY <2>1 DEF Visit
    <2> QED
      BY <1>3, <1>5, <1>7, <1>8, <2>1, <2>2 DEF VisitBound, WasHeld, Services, Entity
  <1> QED
    BY <1>9, <1>11, <1>12, <1>13, <1>14 DEF IInv

LEMMA CrashStep ==
  ASSUME IInv, NEW i \in Instances, Crash(i)
  PROVE  IInv'
  <1>1. /\ instance' = [instance EXCEPT ![i] = Down]
        /\ visit' = [v \in Visits |-> IF visit[v].instance = i THEN Gone ELSE visit[v]]
        /\ caches' = [caches EXCEPT ![i] = [d \in Ids |-> None]]
        /\ held' = [held EXCEPT ![i] = [d \in Ids |-> {}]]
        /\ UNCHANGED << rows, overlapped >>
    BY DEF Crash
  <1>2. Down \in Instance /\ Down.pc = "down"
    BY DEF Down, Instance
  <1>3. instance' \in [Instances -> Instance] /\ instance'[i] = Down
        /\ \A j \in Instances \ {i} : instance'[j] = instance[j]
    BY <1>1, <1>2 DEF IInv, TypeOK
  <1>4. /\ caches' \in [Instances -> [Ids -> Authorities \cup {None}]]
        /\ held' \in [Instances -> [Ids -> SUBSET Authorities]]
        /\ \A d \in Ids : caches'[i][d] = None
        /\ \A j \in Instances \ {i} : caches'[j] = caches[j] /\ held'[j] = held[j]
    BY <1>1 DEF IInv, TypeOK
  <1>5. TypeOK'
    BY <1>1, <1>3, <1>4, GoneIsAVisit DEF IInv, TypeOK
  <1>6. OneServicePerName'
    <2>1. \A v \in Visits : visit'[v] = visit[v] \/ visit'[v] = Gone
      BY <1>1
    <2> QED
      BY <1>1, <2>1, GoneIsAVisit DEF IInv, OneServicePerName, NoNamesakes, Services
  <1>7. SeedingSound'
    <2>1. SeedingNow' \subseteq SeedingNow /\ i \notin SeedingNow'
      BY <1>2, <1>3 DEF SeedingNow
    <2>2. NamedRows(Seeded)' = NamedRows(Seeded)
      BY <1>1 DEF NamedRows
    <2>3. \A j \in SeedingNow' : instance'[j] = instance[j]
      BY <1>3, <2>1 DEF SeedingNow
    <2> QED
      BY <1>1, <2>1, <2>2, <2>3 DEF IInv, SeedingSound
  <1>8. HeldBound'
    BY <1>1, <1>2, <1>3, <1>4 DEF IInv, HeldBound
  <1>9. \A w \in Visits : VisitBound(visit[w])'
    <2> SUFFICES ASSUME NEW w \in Visits PROVE VisitBound(visit[w])'
      OBVIOUS
    <2>1. CASE visit[w].instance = i
      BY <1>1, <2>1, GoneIsAVisit DEF VisitBound
    <2>2. CASE visit[w].instance # i
      BY <1>1, <1>3, <1>4, <2>2 DEF IInv, VisitBound, WasHeld, Services
    <2> QED
      BY <2>1, <2>2
  <1> QED
    BY <1>5, <1>6, <1>7, <1>8, <1>9 DEF IInv

LEMMA IInvIsInductive == IInv /\ [Next]_vars => IInv'
  <1> SUFFICES ASSUME IInv, [Next]_vars PROVE IInv'
    OBVIOUS
  <1>1. CASE UNCHANGED vars
    BY <1>1 DEF vars, IInv, TypeOK, OneServicePerName, NoNamesakes, Services, SeedingSound,
                SeedingNow, NamedRows, HeldBound, VisitBound, WasHeld
  <1> QED
    BY <1>1, StartStep, SeedSaveStep, CrashStep, BeginStep, LookupStep, CreateStep,
       AskStep, FinishStep DEF Next, Proceed

\* What processes keep and visits have read of the table agrees with what the
\* table has held, through crashes, restarts and concurrent seeding.
THEOREM Invariance == Spec => []IInv
  <1>1. Init => IInv
    BY InitIInv
  <1>2. IInv /\ [Next]_vars => IInv'
    BY IInvIsInductive
  <1> QED
    BY <1>1, <1>2, PTL DEF Spec

\* Every variable holds a value of its kind.
THEOREM TypeCorrect == Spec => []TypeOK
  BY Invariance, PTL DEF IInv

\* A name has one row, and a visit asks one service of a name, as long as no
\* two processes seeded at once.
THEOREM NamesAreUnique == Spec => []OneServicePerName
  BY Invariance, PTL DEF IInv

\* A visit asks a service where its own row has said it is since the process
\* started.
THEOREM AuthoritiesAreTheRows == Spec => []AsksAnAuthorityOfTheRow
  <1>1. IInv => AsksAnAuthorityOfTheRow
    BY DEF IInv, AsksAnAuthorityOfTheRow, VisitBound, BusyPcs, WasHeld
  <1> QED
    BY <1>1, Invariance, PTL

-----------------------------------------------------------------------------
(* What the page makes of the answers *)

\* A visit has a token only once it is decided; a token holds what the answers
\* grant, and a page that failed has a reason to.
PageSound(q) ==
  /\ q.pc \in BusyPcs => q.token = None
  /\ q.token # None =>
       /\ q.todo = {}
       /\ \A s \in Scopes :
            s \in q.token <=> \E c \in q.containers : /\ c.response # None
                                                      /\ c.response.authorized
                                                      /\ s \in c.response.scopes
  /\ q.pc = "failed" =>
       \/ q.entity # None /\ q.entity.authority \notin WellFormed
       \/ \E c \in q.containers : c.type # "subject_and_scopes" \/ c.response = None

PagesSound == \A v \in Visits : PageSound(visit[v])

LEMMA BusyIsSound ==
  ASSUME PagesSound, NEW v \in Visits,
         visit' \in [Visits -> Visit],
         \A w \in Visits \ {v} : visit'[w] = visit[w],
         visit'[v].pc \in BusyPcs, visit'[v].token = None
  PROVE  PagesSound'
  <1>1. PageSound(visit'[v])
    BY DEF PageSound, BusyPcs
  <1>2. \A w \in Visits \ {v} : PageSound(visit'[w])
    BY DEF PagesSound
  <1>3. \A w \in Visits : PageSound(visit'[w])
    BY <1>1, <1>2
  <1> QED
    BY <1>3 DEF PagesSound, PageSound

LEMMA BeginSound ==
  ASSUME IInv, IInv', PagesSound, NEW v \in Visits, NEW i \in Instances,
         NEW scopes \in Requests, Begin(v, i, scopes)
  PROVE  PagesSound'
  <1>1. /\ visit'[v].pc = "next" /\ visit'[v].token = None
        /\ \A w \in Visits \ {v} : visit'[w] = visit[w]
    BY DEF Begin, Gone, IInv, TypeOK
  <1> QED
    BY <1>1, BusyIsSound DEF BusyPcs, IInv, TypeOK

LEMMA LookupSound ==
  ASSUME IInv, IInv', PagesSound, NEW v \in Visits, NEW e \in Entity, Lookup(v, e)
  PROVE  PagesSound'
  <1>1. visit[v] \in Visit /\ visit[v].token = None
    BY DEF Lookup, IInv, TypeOK, PagesSound, PageSound, BusyPcs
  <1>2. /\ visit'[v].pc \in { "create", "ask" } /\ visit'[v].token = visit[v].token
        /\ \A w \in Visits \ {v} : visit'[w] = visit[w]
    <2>1. CASE caches[visit[v].instance][e.id] = None
      BY <1>1, <2>1 DEF Lookup, IInv, TypeOK, Visit
    <2>2. CASE caches[visit[v].instance][e.id] # None
      BY <1>1, <2>2 DEF Lookup, Keep, IInv, TypeOK, Visit
    <2> QED
      BY <2>1, <2>2
  <1> QED
    BY <1>1, <1>2, BusyIsSound DEF BusyPcs, IInv, TypeOK

LEMMA CreateSound ==
  ASSUME IInv, IInv', PagesSound, NEW v \in Visits, Create(v)
  PROVE  PagesSound'
  <1>1. visit[v] \in Visit /\ visit[v].token = None
    BY DEF Create, IInv, TypeOK, PagesSound, PageSound, BusyPcs
  <1>2. /\ visit'[v].pc = "ask" /\ visit'[v].token = visit[v].token
        /\ \A w \in Visits \ {v} : visit'[w] = visit[w]
    BY <1>1 DEF Create, Keep, IInv, TypeOK, Visit
  <1> QED
    BY <1>1, <1>2, BusyIsSound DEF BusyPcs, IInv, TypeOK

\* The page fails at a service whose authority cannot be parsed, and that
\* service stays in the hands of the visit.
LEMMA AskSound ==
  ASSUME IInv, IInv', PagesSound, NEW v \in Visits, Ask(v)
  PROVE  PagesSound'
  <1>1. /\ visit[v] \in Visit /\ visit[v].token = None /\ visit[v].entity # None
    BY DEF Ask, IInv, TypeOK, PagesSound, PageSound, BusyPcs, VisitBound
  <1>2. CASE visit[v].entity.authority \notin WellFormed
    <2>1. /\ visit'[v].pc = "failed" /\ visit'[v].token = None
          /\ visit'[v].entity = visit[v].entity
          /\ \A w \in Visits \ {v} : visit'[w] = visit[w]
      BY <1>1, <1>2 DEF Ask, IInv, TypeOK, Visit
    <2>2. PageSound(visit'[v])
      BY <1>1, <1>2, <2>1 DEF PageSound
    <2> QED
      BY <2>1, <2>2 DEF PagesSound, PageSound
  <1>3. CASE visit[v].entity.authority \in WellFormed
    <2>1. PICK type \in Types, response \in Answers(visit[v].scopes) \cup Answers(None) :
            Answered(v, type, response)
      BY <1>3 DEF Ask, Types
    <2>2. /\ visit'[v].pc = "next" /\ visit'[v].token = visit[v].token
          /\ \A w \in Visits \ {v} : visit'[w] = visit[w]
      BY <1>1, <2>1 DEF Answered, IInv, TypeOK, Visit
    <2> QED
      BY <1>1, <2>2, BusyIsSound DEF BusyPcs, IInv, TypeOK
  <1> QED
    BY <1>2, <1>3

\* The token is the union of what was granted; a page that fails after it has
\* a service of another type.
LEMMA FinishSound ==
  ASSUME IInv, IInv', PagesSound, NEW v \in Visits, Finish(v)
  PROVE  PagesSound'
  <1> DEFINE containers == visit[v].containers
             shown == IF \A c \in containers : c.type = "subject_and_scopes"
                      THEN "shown" ELSE "failed"
  <1>1. visit[v] \in Visit /\ visit[v].token = None /\ visit[v].todo = {}
    BY DEF Finish, IInv, TypeOK, PagesSound, PageSound, BusyPcs
  <1>2. PageSound(visit'[v]) /\ \A w \in Visits \ {v} : visit'[w] = visit[w]
    <2>1. CASE \E c \in containers : c.response = None
      <3>1. /\ visit'[v].pc = "failed" /\ visit'[v].token = None
            /\ visit'[v].containers = containers
            /\ \A w \in Visits \ {v} : visit'[w] = visit[w]
        BY <1>1, <2>1 DEF Finish, IInv, TypeOK, Visit
      <3> QED
        BY <2>1, <3>1 DEF PageSound, BusyPcs
    <2>2. CASE ~ \E c \in containers : c.response = None
      <3>1. visit' = [visit EXCEPT ![v].token = Granted(containers), ![v].pc = shown]
        BY <2>2 DEF Finish
      <3>2. shown \in { "shown", "failed" }
            /\ (shown = "failed" => \E c \in containers : c.type # "subject_and_scopes")
        OBVIOUS
      <3> HIDE DEF shown
      <3>3. /\ visit'[v].pc = shown /\ visit'[v].token = Granted(containers)
            /\ visit'[v].containers = containers /\ visit'[v].todo = {}
            /\ \A w \in Visits \ {v} : visit'[w] = visit[w]
        BY <1>1, <3>1 DEF IInv, TypeOK, Visit
      <3>4. \A s : s \in Granted(containers)
                   <=> \E c \in containers : /\ c.response # None
                                             /\ c.response.authorized
                                             /\ s \in c.response.scopes
        BY <2>2 DEF Granted
      <3> QED
        BY <3>2, <3>3, <3>4 DEF PageSound, BusyPcs
    <2> QED
      BY <2>1, <2>2
  <1> QED
    BY <1>2 DEF PagesSound, PageSound

LEMMA CrashSound ==
  ASSUME PagesSound, NEW i \in Instances, Crash(i)
  PROVE  PagesSound'
  <1>1. PageSound(Gone)
    BY DEF PageSound, Gone, BusyPcs
  <1>2. \A v \in Visits : visit'[v] = visit[v] \/ visit'[v] = Gone
    BY DEF Crash
  <1>3. \A v \in Visits : PageSound(visit'[v])
    BY <1>1, <1>2 DEF PagesSound
  <1> QED
    BY <1>3 DEF PagesSound, PageSound

THEOREM PagesStaySound == Spec => []PagesSound
  <1>1. Init => PagesSound
    BY DEF Init, PagesSound, PageSound, Gone, BusyPcs
  <1>2. IInv /\ IInv' /\ PagesSound /\ [Next]_vars => PagesSound'
    <2> SUFFICES ASSUME IInv, IInv', PagesSound, [Next]_vars PROVE PagesSound'
      OBVIOUS
    <2>1. ASSUME UNCHANGED visit PROVE PagesSound'
      BY <2>1 DEF PagesSound, PageSound
    <2>2. ASSUME NEW i \in Instances, Start(i) \/ SeedSave(i) PROVE PagesSound'
      BY <2>1, <2>2 DEF Start, SeedSave
    <2> QED
      BY <2>1, <2>2, CrashSound, BeginSound, LookupSound, CreateSound, AskSound,
         FinishSound DEF Next, Proceed, vars
  <1> QED
    BY <1>1, <1>2, Invariance, PTL DEF Spec

\* The token holds the scopes that were granted and no scope of a refusal.
THEOREM TokensHoldConsent == Spec => []TokenHoldsConsent
  <1>1. PagesSound => TokenHoldsConsent
    BY DEF PagesSound, PageSound, TokenHoldsConsent
  <1> QED
    BY <1>1, PagesStaySound, PTL

\* Refusals and services that cannot be reached do not fail the page.
THEOREM RefusalsAreShown == Spec => []RefusalsDoNotFailThePage
  <1>1. PagesSound => RefusalsDoNotFailThePage
    BY DEF PagesSound, PageSound, RefusalsDoNotFailThePage
  <1> QED
    BY <1>1, PagesStaySound, PTL

=============================================================================
