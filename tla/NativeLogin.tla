---------------------------- MODULE NativeLogin ----------------------------
(***************************************************************************)
(* The logins of the native console clients.  Each is one process: it      *)
(* listens on the loopback port every client uses, opens a tab of the      *)
(* system's browser at the orchestrator, takes the first request that      *)
(* reaches the port for the answer, and redeems the code in it.            *)
(*                                                                         *)
(* Tabs outlive the process that opened them, and can be reloaded: an      *)
(* answer goes to whoever listens when it arrives, as often as it is sent. *)
(* What the orchestrator answers is the environment's choice; that a code  *)
(* dies when it is presented is PresentedCodeIsDead of OIDCPipeline.       *)
(***************************************************************************)
EXTENDS Naturals

CONSTANTS
  Logins,  \* login processes, each with a state of its own
  None     \* null

\* What a browser can send to the port: an answer of the orchestrator to a
\* login, or a request without a query, as for an icon of the page.
Answer(l, kind) == [ state |-> l, kind |-> kind ]
Empty == [ state |-> None, kind |-> "empty" ]

\* The TaskCompletionSource of a listener holds one of them, or is cancelled.
Cancelled == [ state |-> None, kind |-> "cancelled" ]
Result == [ state : Logins, kind : { "code", "error" } ] \cup { Empty, Cancelled }

ASSUME NoneAssumption == None \notin Logins \cup Result

VARIABLES
  pc,         \* where each login is
  port,       \* the login whose listener has the port
  source,     \* the source of each listener
  tab,        \* the tab each login opens: what it was redirected with
  code,       \* the code of each login at the orchestrator
  (* history *)
  heard,      \* what came first to each listener: a request or its timer
  presented,  \* the logins that presented each login's code
  mishaps     \* the logins with which a call to the orchestrator failed

vars == << pc, port, source, tab, code, heard, presented, mishaps >>

Pcs == { "new", "bound", "waiting", "redeeming", "profile",
         "succeeded", "failed", "killed" }
Over == { "succeeded", "failed", "killed" }

Init ==
  /\ pc = [l \in Logins |-> "new"]
  /\ port = None
  /\ source = [l \in Logins |-> None]
  /\ tab = [l \in Logins |-> "closed"]
  /\ code = [l \in Logins |-> "none"]
  /\ heard = [l \in Logins |-> None]
  /\ presented = [l \in Logins |-> {}]
  /\ mishaps = {}

-----------------------------------------------------------------------------
(* SystemBrowser.InvokeAsync, as the OidcClient package calls it *)

\* The discovery document is read, and the listener made.  The second fails if
\* the port is taken, and is not within InvokeAsync's try.
Start(l) ==
  /\ pc[l] = "new"
  /\ \/ /\ port = None
        /\ port' = l
        /\ pc' = [pc EXCEPT ![l] = "bound"]
        /\ UNCHANGED mishaps
     \/ /\ port # None
        /\ pc' = [pc EXCEPT ![l] = "failed"]
        /\ UNCHANGED << port, mishaps >>
     \/ /\ pc' = [pc EXCEPT ![l] = "failed"]
        /\ mishaps' = mishaps \cup {l}
        /\ UNCHANGED port
  /\ UNCHANGED << source, tab, code, heard, presented >>

\* The tab opens and the timer of the wait starts; or no browser can be started.
Open(l) ==
  /\ pc[l] = "bound"
  /\ \/ /\ pc' = [pc EXCEPT ![l] = "waiting"]
        /\ tab' = [tab EXCEPT ![l] = "open"]
        /\ UNCHANGED mishaps
     \/ /\ pc' = [pc EXCEPT ![l] = "failed"]
        /\ mishaps' = mishaps \cup {l}
        /\ UNCHANGED tab
  /\ UNCHANGED << port, source, code, heard, presented >>

-----------------------------------------------------------------------------
(* LoopbackHttpListener *)

First(l, result) == heard' = [heard EXCEPT ![l] = IF @ = None THEN result ELSE @]

\* Mutant: a later request replaces the result.
SetResultAlways(l, result) == source' = [source EXCEPT ![l] = result]

\* TrySetResult: the first of all requests and the timer wins.
SetResult(l, result) ==
  source' = [source EXCEPT ![l] = IF @ = None THEN result ELSE @]

\* A tab's answer reaches the port, for the first time or once more.
Deliver(l) ==
  /\ tab[l] \in { "code", "error" }
  /\ port # None
  /\ SetResult(port, Answer(l, tab[l]))
  /\ First(port, Answer(l, tab[l]))
  /\ UNCHANGED << pc, port, tab, code, presented, mishaps >>

\* So does a request without a query.  Requests of other methods are rejected.
Stray ==
  /\ port # None
  /\ SetResult(port, Empty)
  /\ First(port, Empty)
  /\ UNCHANGED << pc, port, tab, code, presented, mishaps >>

\* Mutant: the timer cancels the wait even if an answer came before.
TimeOutAlways(l) ==
  /\ pc[l] \in { "waiting", "redeeming", "profile" }
  /\ source' = [source EXCEPT ![l] = Cancelled]
  /\ First(l, Cancelled)
  /\ UNCHANGED << pc, port, tab, code, presented, mishaps >>

\* TrySetCanceled, five minutes after the wait began, whatever the login does.
TimeOut(l) ==
  /\ pc[l] \in { "waiting", "redeeming", "profile" }
  /\ source' = [source EXCEPT ![l] = IF @ = None THEN Cancelled ELSE @]
  /\ First(l, Cancelled)
  /\ UNCHANGED << pc, port, tab, code, presented, mishaps >>

\* Mutant: the port is given back with the first request, not after the wait.
ReleaseEarly(l) ==
  /\ source[l] # None
  /\ port = l
  /\ port' = None
  /\ UNCHANGED << pc, source, tab, code, heard, presented, mishaps >>

\* Dispose, half a second after InvokeAsync returned; or the process ended.
Release(l) ==
  /\ pc[l] \notin { "new", "bound", "waiting" }
  /\ port = l
  /\ port' = None
  /\ UNCHANGED << pc, source, tab, code, heard, presented, mishaps >>

-----------------------------------------------------------------------------
(* SystemBrowser.InvokeAsync returns to the OidcClient package, an external *)
(* one: what it does with the response is seen in the login's result.       *)

\* Mutant: the state is not compared.
AcceptsAnyState(l, result) == result.kind = "code"

\* InvokeAsync and the checks of the response: neither a timeout, nor an empty
\* or an error response, and the state of this login.
Accepts(l, result) == result = Answer(l, "code")

\* Mutant: the login waits on when the response was empty.
ReturnUnlessEmpty(l) ==
  /\ pc[l] = "waiting"
  /\ source[l] \notin { None, Empty }
  /\ pc' = [pc EXCEPT ![l] = IF Accepts(l, source[l]) THEN "redeeming" ELSE "failed"]
  /\ UNCHANGED << port, source, tab, code, heard, presented, mishaps >>

\* The wait ends.
Return(l) ==
  /\ pc[l] = "waiting"
  /\ source[l] # None
  /\ pc' = [pc EXCEPT ![l] = IF Accepts(l, source[l]) THEN "redeeming" ELSE "failed"]
  /\ UNCHANGED << port, source, tab, code, heard, presented, mishaps >>

\* The code is presented, with this login's verifier.  The call may fail before
\* it arrives, or after, or bring tokens that do not pass the checks.
Redeem(l) ==
  LET owner == source[l].state IN
  /\ pc[l] = "redeeming"
  /\ \/ /\ pc' = [pc EXCEPT ![l] = "failed"]
        /\ mishaps' = mishaps \cup {l}
        /\ UNCHANGED << code, presented >>
     \/ /\ code' = [code EXCEPT ![owner] = "dead"]
        /\ presented' = [presented EXCEPT ![owner] = @ \cup {l}]
        /\ \/ /\ code[owner] = "live"
              /\ owner = l
              /\ pc' = [pc EXCEPT ![l] = "profile"]
              /\ UNCHANGED mishaps
           \/ /\ pc' = [pc EXCEPT ![l] = "failed"]
              /\ mishaps' = IF code[owner] = "live" THEN mishaps \cup {l} ELSE mishaps
  /\ UNCHANGED << port, source, tab, heard >>

\* The claims of the user are loaded and their subject is compared.
LoadProfile(l) ==
  /\ pc[l] = "profile"
  /\ \/ /\ pc' = [pc EXCEPT ![l] = "succeeded"]
        /\ UNCHANGED mishaps
     \/ /\ pc' = [pc EXCEPT ![l] = "failed"]
        /\ mishaps' = mishaps \cup {l}
  /\ UNCHANGED << port, source, tab, code, heard, presented >>

-----------------------------------------------------------------------------
(* The environment *)

\* The orchestrator redirects a tab, with a new code or with an error.
Redirect(l) ==
  /\ tab[l] = "open"
  /\ \/ /\ tab' = [tab EXCEPT ![l] = "code"]
        /\ code' = [code EXCEPT ![l] = "live"]
     \/ /\ tab' = [tab EXCEPT ![l] = "error"]
        /\ UNCHANGED code
  /\ UNCHANGED << pc, port, source, heard, presented, mishaps >>

\* An entry of the orchestrator's store expires.
Expire(l) ==
  /\ code[l] = "live"
  /\ code' = [code EXCEPT ![l] = "dead"]
  /\ mishaps' = mishaps \cup {l}
  /\ UNCHANGED << pc, port, source, tab, heard, presented >>

\* The user ends a process that is under way.
Kill(l) ==
  /\ pc[l] \notin Over \cup {"new"}
  /\ pc' = [pc EXCEPT ![l] = "killed"]
  /\ port' = IF port = l THEN None ELSE port
  /\ UNCHANGED << source, tab, code, heard, presented, mishaps >>

-----------------------------------------------------------------------------

\* What the login and its listener do by themselves.
Proceed(l) ==
  Open(l) \/ Return(l) \/ Redeem(l) \/ LoadProfile(l) \/ Release(l)

Next ==
  \/ \E l \in Logins :
       \/ Start(l) \/ Proceed(l) \/ TimeOut(l) \/ Kill(l)
       \/ Redirect(l) \/ Deliver(l) \/ Expire(l)
  \/ Stray

Spec == Init /\ [][Next]_vars

\* A process runs as long as it can, its timer fires and its calls end.
\* Nobody need answer a tab, nor start or end a process.
Fairness ==
  \A l \in Logins : WF_vars(Proceed(l)) /\ WF_vars(TimeOut(l))

FairSpec == Spec /\ Fairness

-----------------------------------------------------------------------------
(* Properties *)

\* Every variable holds a value of its kind.
TypeOK ==
  /\ pc \in [Logins -> Pcs]
  /\ port \in Logins \cup {None}
  /\ source \in [Logins -> Result \cup {None}]
  /\ tab \in [Logins -> { "closed", "open", "code", "error" }]
  /\ code \in [Logins -> { "none", "live", "dead" }]
  /\ heard \in [Logins -> Result \cup {None}]
  /\ presented \in [Logins -> SUBSET Logins]
  /\ mishaps \in SUBSET Logins

\* An answer that reaches another login's listener does not cost its own login
\* the code: only the login a code was issued to presents it, and one that
\* succeeds has presented its own and left it dead.
CodesStayWithTheirLogin ==
  \A l \in Logins :
    /\ presented[l] \subseteq {l}
    /\ pc[l] = "succeeded" => l \in presented[l] /\ code[l] = "dead"

\* Whatever else arrives, and when the timer fires, the first answer decides: a
\* login that heard its own code first fails only if a call to the orchestrator
\* failed or the code was lost there; and one that heard anything else first
\* does not succeed.
FirstAnswerDecides ==
  \A l \in Logins :
    IF heard[l] = Answer(l, "code")
    THEN pc[l] = "failed" => l \in mishaps
    ELSE pc[l] \notin { "redeeming", "profile", "succeeded" }

\* Every login that starts is over some time, also if nobody answers its tab,
\* and the port is free for the next.
LoginsEnd ==
  \A l \in Logins : pc[l] # "new" ~> pc[l] \in Over /\ port # l

-----------------------------------------------------------------------------
(* The inductive invariant behind CodesStayWithTheirLogin and               *)
(* FirstAnswerDecides.                                                      *)

\* The source holds what was heard first.
SourceIsHeard(l) == source[l] = heard[l]

\* A code lives at the orchestrator, for its login alone, until it is presented.
CodeSound(l) ==
  /\ tab[l] = "code" <=> code[l] # "none"
  /\ presented[l] \subseteq {l}
  /\ presented[l] # {} => pc[l] \notin { "new", "bound", "waiting", "redeeming" }
  /\ code[l] = "dead" => presented[l] # {} \/ l \in mishaps

LoginSound(l) ==
  /\ pc[l] = "new" => heard[l] = None /\ port # l
  /\ pc[l] \in { "new", "bound" } => tab[l] = "closed"
  /\ pc[l] = "failed" /\ heard[l] = None => tab[l] = "closed"
  /\ pc[l] \in { "redeeming", "profile", "succeeded" } =>
       source[l] = Answer(l, "code")
  /\ pc[l] \in { "profile", "succeeded" } => presented[l] = {l} /\ code[l] = "dead"
  /\ \A m \in Logins :
       source[l] = Answer(m, "code") => code[m] # "none"

IInv ==
  /\ TypeOK
  /\ \A l \in Logins : SourceIsHeard(l) /\ CodeSound(l) /\ LoginSound(l)
  /\ FirstAnswerDecides

-----------------------------------------------------------------------------
(* What LoginsEnd comes down to *)

\* How far a login is from its end.
StepsLeft ==
  [ p \in Pcs |-> CASE p = "new"       -> 5
                    [] p = "bound"     -> 4
                    [] p = "waiting"   -> 3
                    [] p = "redeeming" -> 2
                    [] p = "profile"   -> 1
                    [] OTHER           -> 0 ]

\* A login that has begun only moves on to its end, keeps the port as long as it
\* listens, whoever else starts or ends meanwhile, takes it but once, and never
\* loses the answer that settled its wait: once processes run and timers fire,
\* every login is over and has given the port back.
LoginsRunDown ==
  [][ \A l \in Logins : pc[l] # "new" =>
        /\ pc'[l] # pc[l] => StepsLeft[pc'[l]] < StepsLeft[pc[l]]
        /\ port # l => port' # l
        /\ pc'[l] \in { "bound", "waiting" } => port' = l
        /\ source[l] # None => source'[l] = source[l] ]_vars

\* The inductive invariant behind LoginsRunDown, beside TypeOK: who listens has
\* the port.
ListenersHavePort ==
  \A l \in Logins : pc[l] \in { "bound", "waiting" } => port = l

=============================================================================
