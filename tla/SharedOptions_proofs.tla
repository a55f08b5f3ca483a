----------------------- MODULE SharedOptions_proofs -----------------------
(* Proofs about SharedOptions, for any number of logins and clients. *)
EXTENDS SharedOptions, TLAPS

LEMMA InitIInv == Init => IInv
  BY DEF Init, IInv, TypeOK, Credentials, Login, Pcs, RelyingPcs, RequestPcs,
         Relies, FailuresWereDisturbed

\* A write of the options leaves alone whoever asks for the same client, and
\* disturbs by definition whoever relies on another.
LEMMA WriteStep ==
  ASSUME IInv, NEW l \in Logins, SetClientId(l) \/ SetClientSecret(l)
  PROVE  IInv'
  <1> DEFINE c == login[l].client
  <1>1. /\ c \in Clients
        /\ optionsId' \in {optionsId, c} /\ optionsSecret' \in {optionsSecret, c}
        /\ disturbed' = disturbed \cup Others(l)
        /\ login'[l].client = c /\ login'[l].pc \in {"redirect_secret", "at_idp"}
        /\ \A m \in Logins \ {l} : login'[m] = login[m]
    BY DEF SetClientId, SetClientSecret, GoTo, At, IInv, TypeOK, Login
  <1>2. TypeOK'
    BY <1>1 DEF SetClientId, SetClientSecret, GoTo, IInv, TypeOK, Login, Pcs,
       RelyingPcs, RequestPcs, Others, Credentials
  <1>3. \A m \in Logins : login'[m].pc # "new" => login'[m].client \in Clients
    BY <1>1 DEF IInv
  <1>4. ASSUME NEW m \in Logins \ disturbed' PROVE Relies(m)'
    <2>1. CASE m = l
      BY <2>1, <1>4 DEF SetClientId, SetClientSecret, GoTo, At, IInv, TypeOK,
         Login, Relies
    <2>2. CASE m # l /\ login[m].pc \in RelyingPcs
      <3>1. login[m].client = c
        BY <1>1, <1>4, <2>2 DEF Others
      <3> QED
        BY <1>1, <1>4, <2>2, <3>1 DEF IInv, Relies
    <2>3. CASE m # l /\ login[m].pc \notin RelyingPcs
      BY <1>1, <1>4, <2>3 DEF IInv, Relies, RelyingPcs
    <2> QED
      BY <2>1, <2>2, <2>3
  <1>5. FailuresWereDisturbed'
    BY <1>1 DEF IInv, FailuresWereDisturbed
  <1> QED
    BY <1>2, <1>3, <1>4, <1>5 DEF IInv

\* A step that touches one login and not the options.
LEMMA OwnStep ==
  ASSUME IInv, NEW l \in Logins,
         \/ \E c \in Clients : FetchClientRecord(l, c)
         \/ ReadClientId(l) \/ ReadClientSecret(l) \/ Redeem(l) \/ RemoteFailure(l)
  PROVE  IInv'
  <1>1. /\ UNCHANGED << optionsId, optionsSecret, disturbed >>
        /\ \A m \in Logins \ {l} : login'[m] = login[m]
    BY DEF FetchClientRecord, ReadClientId, ReadClientSecret, Redeem,
       RemoteFailure, GoTo, IInv, TypeOK
  <1>2. TypeOK'
    BY <1>1 DEF FetchClientRecord, ReadClientId, ReadClientSecret, Redeem,
       RemoteFailure, GoTo, IInv, TypeOK, Login, Pcs, RelyingPcs, RequestPcs,
       Credentials
  <1>3. login'[l].client \in Clients
    BY DEF FetchClientRecord, ReadClientId, ReadClientSecret, Redeem,
       RemoteFailure, GoTo, At, IInv, TypeOK, Login
  <1>4. l \notin disturbed => Relies(l)' /\ login'[l].pc # "failed"
    BY <1>1 DEF FetchClientRecord, ReadClientId, ReadClientSecret, Redeem,
       RemoteFailure, GoTo, At, IInv, TypeOK, Login, Relies
  <1>5. \A m \in Logins \ disturbed : Relies(m)'
    BY <1>1, <1>4 DEF IInv, Relies
  <1>6. FailuresWereDisturbed'
    BY <1>1, <1>4 DEF IInv, FailuresWereDisturbed
  <1> QED
    BY <1>1, <1>2, <1>3, <1>5, <1>6 DEF IInv

LEMMA RestartStep ==
  ASSUME IInv, Restart
  PROVE  IInv'
  <1>1. \A l \in Logins :
          login'[l] = IF login[l].pc \in RequestPcs
                      THEN [login[l] EXCEPT !.pc = "failed"] ELSE login[l]
    BY DEF Restart
  <1>2. TypeOK'
    BY DEF Restart, IInv, TypeOK, Login, Pcs, Credentials
  <1>3. \A l \in Logins : login'[l].pc # "new" => login'[l].client \in Clients
    BY <1>1 DEF IInv, TypeOK, Login, RequestPcs
  <1>4. \A l \in Logins \ disturbed' :
          /\ login'[l] = login[l] /\ l \notin disturbed
          /\ login[l].pc \notin RelyingPcs \cup RequestPcs
    BY <1>1 DEF Restart
  <1>5. \A l \in Logins \ disturbed' : Relies(l)'
    BY <1>4 DEF IInv, Relies, RelyingPcs, RequestPcs
  <1>6. FailuresWereDisturbed'
    BY <1>4 DEF IInv, FailuresWereDisturbed
  <1> QED
    BY <1>2, <1>3, <1>5, <1>6 DEF IInv

\* An undisturbed login finds its own credentials at every step that needs them.
THEOREM Invariance == Spec => []IInv
  <1>1. Init => IInv
    BY InitIInv
  <1>2. IInv /\ [Next]_vars => IInv'
    <2> SUFFICES ASSUME IInv, [Next]_vars PROVE IInv'
      OBVIOUS
    <2>1. ASSUME NEW l \in Logins, LoginStep(l) PROVE IInv'
      BY <2>1, WriteStep, OwnStep DEF LoginStep
    <2>2. CASE UNCHANGED vars
      BY <2>2 DEF vars, IInv, TypeOK, Relies, FailuresWereDisturbed
    <2> QED
      BY <2>1, <2>2, RestartStep DEF Next
  <1> QED
    BY <1>1, <1>2, PTL DEF Spec

\* Whatever the number of clients and logins: a login the provider refuses was
\* overlapped by another client's redirect or by a restart.
THEOREM RefusedLoginsWereDisturbed == Spec => []FailuresWereDisturbed
  BY Invariance, PTL DEF IInv
=============================================================================
