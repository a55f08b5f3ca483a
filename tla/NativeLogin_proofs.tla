------------------------- MODULE NativeLogin_proofs -------------------------
(* What NativeLogin says for any number of logins. *)
EXTENDS NativeLogin, TLAPS

USE NoneAssumption

LEMMA InitIInv == Init => IInv
  BY DEF Init, IInv, TypeOK, SourceIsHeard, CodeSound, LoginSound,
         FirstAnswerDecides, Pcs, Result, Answer, Empty, Cancelled

LEMMA StartKeepsIInv == ASSUME IInv, NEW l \in Logins, Start(l) PROVE IInv'
  BY DEF Start, IInv, TypeOK, SourceIsHeard, CodeSound, LoginSound,
         FirstAnswerDecides, Pcs, Result, Answer, Empty, Cancelled

LEMMA OpenKeepsIInv == ASSUME IInv, NEW l \in Logins, Open(l) PROVE IInv'
  BY DEF Open, IInv, TypeOK, SourceIsHeard, CodeSound, LoginSound,
         FirstAnswerDecides, Pcs, Result, Answer, Empty, Cancelled

LEMMA CodesAreResults ==
  \A l \in Logins : Answer(l, "code") \in Result /\ Answer(l, "code") # None
  BY DEF Answer, Result

\* The listener of h hears r: the first that comes decides, and a code that
\* comes was issued.
LEMMA HearingKeepsIInv ==
  ASSUME IInv, NEW h \in Logins, NEW r \in Result,
         SetResult(h, r), First(h, r),
         pc[h] # "new",
         \A m \in Logins : r = Answer(m, "code") => code[m] # "none",
         UNCHANGED << pc, port, tab, code, presented, mishaps >>
  PROVE  IInv'
<1>1. TypeOK'
  BY DEF IInv, TypeOK, SetResult, First
<1>2. ASSUME NEW l \in Logins PROVE /\ heard'[l] = IF l = h /\ heard[l] = None THEN r ELSE heard[l]
                                    /\ source'[l] = heard'[l]
  BY DEF IInv, TypeOK, SetResult, First, SourceIsHeard
<1>3. ASSUME NEW l \in Logins PROVE CodeSound(l)'
  BY DEF IInv, CodeSound
<1>4. ASSUME NEW l \in Logins PROVE LoginSound(l)'
  <2>1. CASE heard'[l] = heard[l]
    BY <1>2, <2>1 DEF IInv, SourceIsHeard, LoginSound
  <2>2. CASE l = h /\ heard[l] = None /\ heard'[l] = r
    <3>1. pc[l] \notin { "redeeming", "profile", "succeeded" }
      BY <2>2, CodesAreResults DEF IInv, FirstAnswerDecides
    <3> QED
      BY <1>2, <2>2, <3>1 DEF IInv, LoginSound
  <2> QED
    BY <1>2, <2>1, <2>2
<1>5. FirstAnswerDecides'
  <2> SUFFICES ASSUME NEW l \in Logins
               PROVE  IF heard'[l] = Answer(l, "code")
                      THEN pc[l] = "failed" => l \in mishaps
                      ELSE pc[l] \notin { "redeeming", "profile", "succeeded" }
    BY DEF FirstAnswerDecides
  <2>1. CASE heard'[l] = heard[l]
    BY <2>1 DEF IInv, FirstAnswerDecides
  <2>2. CASE heard[l] = None /\ heard'[l] = r
    <3>1. pc[l] \notin { "redeeming", "profile", "succeeded" }
      BY <2>2, CodesAreResults DEF IInv, FirstAnswerDecides
    <3>2. ASSUME r = Answer(l, "code") PROVE pc[l] # "failed"
      BY <2>2, <3>2 DEF IInv, LoginSound, CodeSound
    <3> QED
      BY <2>2, <3>1, <3>2
  <2> QED
    BY <1>2, <2>1, <2>2
<1> QED
  BY <1>1, <1>2, <1>3, <1>4, <1>5 DEF IInv, SourceIsHeard

LEMMA DeliverKeepsIInv == ASSUME IInv, NEW l \in Logins, Deliver(l) PROVE IInv'
<1>1. port \in Logins /\ pc[port] # "new"
  BY DEF Deliver, IInv, TypeOK, LoginSound
<1>2. Answer(l, tab[l]) \in Result
  BY DEF Deliver, Answer, Result
<1>3. \A m \in Logins : Answer(l, tab[l]) = Answer(m, "code") => code[m] # "none"
  BY DEF IInv, CodeSound, Answer
<1> QED
  BY <1>1, <1>2, <1>3, HearingKeepsIInv DEF Deliver

LEMMA StrayKeepsIInv == ASSUME IInv, Stray PROVE IInv'
<1>1. port \in Logins /\ pc[port] # "new"
  BY DEF Stray, IInv, TypeOK, LoginSound
<1>2. Empty \in Result /\ \A m \in Logins : Empty # Answer(m, "code")
  BY DEF Empty, Answer, Result
<1> QED
  BY <1>1, <1>2, HearingKeepsIInv DEF Stray

LEMMA TimeOutKeepsIInv == ASSUME IInv, NEW l \in Logins, TimeOut(l) PROVE IInv'
<1>1. pc[l] # "new" /\ SetResult(l, Cancelled)
  BY DEF TimeOut, SetResult
<1>2. Cancelled \in Result /\ \A m \in Logins : Cancelled # Answer(m, "code")
  BY DEF Cancelled, Answer, Result
<1> QED
  BY <1>1, <1>2, HearingKeepsIInv DEF TimeOut

LEMMA ReleaseKeepsIInv == ASSUME IInv, NEW l \in Logins, Release(l) PROVE IInv'
  BY DEF Release, IInv, TypeOK, SourceIsHeard, CodeSound, LoginSound,
         FirstAnswerDecides, Pcs, Result, Answer, Empty, Cancelled

LEMMA ReturnKeepsIInv == ASSUME IInv, NEW l \in Logins, Return(l) PROVE IInv'
  BY DEF Return, Accepts, IInv, TypeOK, SourceIsHeard, CodeSound, LoginSound,
         FirstAnswerDecides, Pcs, Result, Answer, Empty, Cancelled

LEMMA RedeemKeepsIInv == ASSUME IInv, NEW l \in Logins, Redeem(l) PROVE IInv'
  BY DEF Redeem, IInv, TypeOK, SourceIsHeard, CodeSound, LoginSound,
         FirstAnswerDecides, Pcs, Result, Answer, Empty, Cancelled

LEMMA LoadProfileKeepsIInv == ASSUME IInv, NEW l \in Logins, LoadProfile(l) PROVE IInv'
  BY DEF LoadProfile, IInv, TypeOK, SourceIsHeard, CodeSound, LoginSound,
         FirstAnswerDecides, Pcs, Result, Answer, Empty, Cancelled

LEMMA RedirectKeepsIInv == ASSUME IInv, NEW l \in Logins, Redirect(l) PROVE IInv'
  BY DEF Redirect, IInv, TypeOK, SourceIsHeard, CodeSound, LoginSound,
         FirstAnswerDecides, Pcs, Result, Answer, Empty, Cancelled

LEMMA ExpireKeepsIInv == ASSUME IInv, NEW l \in Logins, Expire(l) PROVE IInv'
  BY DEF Expire, IInv, TypeOK, SourceIsHeard, CodeSound, LoginSound,
         FirstAnswerDecides, Pcs, Result, Answer, Empty, Cancelled

LEMMA KillKeepsIInv == ASSUME IInv, NEW l \in Logins, Kill(l) PROVE IInv'
  BY DEF Kill, Over, IInv, TypeOK, SourceIsHeard, CodeSound, LoginSound,
         FirstAnswerDecides, Pcs, Result, Answer, Empty, Cancelled

\* Every step keeps it.
LEMMA NextKeepsIInv == IInv /\ [Next]_vars => IInv'
<1> SUFFICES ASSUME IInv, [Next]_vars PROVE IInv'
  OBVIOUS
<1>1. CASE UNCHANGED vars
  BY <1>1 DEF vars, IInv, TypeOK, SourceIsHeard, CodeSound, LoginSound, FirstAnswerDecides
<1>2. CASE Stray
  BY <1>2, StrayKeepsIInv
<1>3. ASSUME NEW l \in Logins, Proceed(l) PROVE IInv'
  BY <1>3, OpenKeepsIInv, ReturnKeepsIInv, RedeemKeepsIInv, LoadProfileKeepsIInv,
     ReleaseKeepsIInv DEF Proceed
<1>4. ASSUME NEW l \in Logins,
             \/ Start(l) \/ TimeOut(l) \/ Kill(l)
             \/ Redirect(l) \/ Deliver(l) \/ Expire(l)
      PROVE  IInv'
  BY <1>4, StartKeepsIInv, TimeOutKeepsIInv, KillKeepsIInv, RedirectKeepsIInv,
     DeliverKeepsIInv, ExpireKeepsIInv
<1> QED
  BY <1>1, <1>2, <1>3, <1>4 DEF Next

\* A source holds what its listener heard first, codes stay with their logins,
\* and every login stands where that first answer has put it.
THEOREM Invariance == Spec => []IInv
  BY InitIInv, NextKeepsIInv, PTL DEF Spec

\* A login's code is presented by that login or by nobody.
THEOREM CodesStay == Spec => []CodesStayWithTheirLogin
<1>1. IInv => CodesStayWithTheirLogin
  BY DEF IInv, CodesStayWithTheirLogin, CodeSound, LoginSound
<1> QED
  BY <1>1, Invariance, PTL

\* The first answer decides, whatever comes later.
THEOREM FirstAnswersDecide == Spec => []FirstAnswerDecides
<1>1. IInv => FirstAnswerDecides
  BY DEF IInv
<1> QED
  BY <1>1, Invariance, PTL

-----------------------------------------------------------------------------
(* Logins run to their end *)

\* A login that has begun: where a step may take it.
RunsDown(l) ==
  /\ pc'[l] # pc[l] => StepsLeft[pc'[l]] < StepsLeft[pc[l]]
  /\ port # l => port' # l
  /\ pc'[l] \in { "bound", "waiting" } => port' = l
  /\ source[l] # None => source'[l] = source[l]

\* Its five moves and a kill all lead on.
LEMMA StepsLeftOrder ==
  /\ StepsLeft["waiting"] < StepsLeft["bound"]
  /\ StepsLeft["redeeming"] < StepsLeft["waiting"]
  /\ StepsLeft["profile"] < StepsLeft["redeeming"]
  /\ \A p \in Pcs \ Over : \A q \in Over : StepsLeft[q] < StepsLeft[p]
  BY DEF StepsLeft, Pcs, Over

LEMMA BeginningRunsDown ==
  ASSUME IInv, ListenersHavePort, NEW l \in Logins, Start(l),
         NEW k \in Logins, pc[k] # "new"
  PROVE  RunsDown(k)
  BY DEF Start, RunsDown, IInv, TypeOK, ListenersHavePort

LEMMA ProceedingRunsDown ==
  ASSUME IInv, ListenersHavePort, NEW l \in Logins, Proceed(l) \/ Kill(l),
         NEW k \in Logins, pc[k] # "new"
  PROVE  RunsDown(k)
<1>1. UNCHANGED source
  BY DEF Proceed, Open, Return, Redeem, LoadProfile, Release, Kill
<1>2. ASSUME k # l PROVE pc'[k] = pc[k]
  BY <1>2 DEF Proceed, Open, Return, Redeem, LoadProfile, Release, Kill, IInv, TypeOK
<1>3. pc'[l] # pc[l] => StepsLeft[pc'[l]] < StepsLeft[pc[l]]
  BY StepsLeftOrder DEF Proceed, Open, Return, Redeem, LoadProfile, Release, Kill,
     IInv, TypeOK, Pcs, Over
<1>4. \/ port' = port
      \/ port = l /\ port' = None /\ pc'[l] \notin { "bound", "waiting" }
  BY DEF Proceed, Open, Return, Redeem, LoadProfile, Release, Kill, IInv, TypeOK
<1>5. pc'[l] \in { "bound", "waiting" } => pc[l] \in { "bound", "waiting" }
  BY DEF Proceed, Open, Return, Redeem, LoadProfile, Release, Kill, IInv, TypeOK
<1> QED
  BY <1>1, <1>2, <1>3, <1>4, <1>5 DEF RunsDown, ListenersHavePort

LEMMA HearingRunsDown ==
  ASSUME IInv, ListenersHavePort,
         \/ Stray
         \/ \E l \in Logins : TimeOut(l) \/ Redirect(l) \/ Deliver(l) \/ Expire(l),
         NEW k \in Logins
  PROVE  RunsDown(k)
<1>1. UNCHANGED << pc, port >>
  BY DEF Stray, TimeOut, Redirect, Deliver, Expire
<1>2. source[k] # None => source'[k] = source[k]
  BY DEF Stray, TimeOut, Redirect, Deliver, Expire, SetResult, IInv, TypeOK
<1> QED
  BY <1>1, <1>2 DEF RunsDown, ListenersHavePort

LEMMA StepsRunDown ==
  ASSUME IInv, ListenersHavePort, [Next]_vars
  PROVE  /\ ListenersHavePort'
         /\ \A k \in Logins : pc[k] # "new" => RunsDown(k)
<1>1. ASSUME NEW k \in Logins, pc[k] # "new" PROVE RunsDown(k)
  <2>1. CASE UNCHANGED vars
    BY <2>1 DEF vars, RunsDown, ListenersHavePort
  <2> QED
    BY <1>1, <2>1, BeginningRunsDown, ProceedingRunsDown, HearingRunsDown DEF Next
<1>2. ASSUME NEW k \in Logins, pc[k] = "new", pc'[k] \in { "bound", "waiting" }
      PROVE  port' = k
  BY <1>2 DEF Next, Start, Proceed, Open, Return, Redeem, LoadProfile, Release, Kill,
     Stray, TimeOut, Redirect, Deliver, Expire, vars, IInv, TypeOK
<1> QED
  BY <1>1, <1>2 DEF ListenersHavePort, RunsDown

\* However many logins want the port, each one that has begun only moves on to its
\* end, listens as long as it waits, and once it has given the port up never has it
\* again.
THEOREM BegunLoginsRunDown == Spec => LoginsRunDown
<1>1. Init => ListenersHavePort
  BY DEF Init, ListenersHavePort
<1>2. IInv /\ ListenersHavePort /\ [Next]_vars =>
        [ \A l \in Logins : pc[l] # "new" =>
            /\ pc'[l] # pc[l] => StepsLeft[pc'[l]] < StepsLeft[pc[l]]
            /\ port # l => port' # l
            /\ pc'[l] \in { "bound", "waiting" } => port' = l
            /\ source[l] # None => source'[l] = source[l] ]_vars
  BY StepsRunDown DEF RunsDown
<1>3. IInv /\ ListenersHavePort /\ [Next]_vars => ListenersHavePort'
  BY StepsRunDown
<1> QED
  BY <1>1, <1>2, <1>3, Invariance, PTL DEF Spec, LoginsRunDown

=============================================================================
