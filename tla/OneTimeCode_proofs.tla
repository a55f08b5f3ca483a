------------------------- MODULE OneTimeCode_proofs -------------------------
(* Proofs about OneTimeCode: what follows for a client from the actions alone, *)
(* for any number of codes and holders.                                        *)
EXTENDS OneTimeCode, TLAPS

LEMMA InitIInv == Init => IInv
  BY DEF Init, IInv, TypeOK, ClaimsOn, YieldsOnce, SettledIsDead

\* A step that makes no claim and adds nothing to what is live or has yielded.
LEMMA Shrinks ==
  ASSUME IInv, live' \subseteq live,
         claim' \in [Holders -> Claims \cup {None}],
         \A h \in Holders : claim'[h] \in {claim[h], None},
         UNCHANGED << opened, settled, yields, contended >>
  PROVE  IInv'
  <1>1. \A c \in Codes : ClaimsOn(c)' \subseteq ClaimsOn(c)
    BY DEF ClaimsOn
  <1>2. TypeOK'
    BY DEF IInv, TypeOK
  <1>3. YieldsOnce' /\ SettledIsDead'
    BY <1>1 DEF IInv, TypeOK, YieldsOnce, SettledIsDead
  <1> QED
    BY <1>1, <1>2, <1>3 DEF IInv

LEMMA OpenStep ==
  ASSUME Absence, IInv, NEW c \in Codes, Open(c)
  PROVE  IInv'
  <1>1. /\ opened' \in [Codes -> Requests \cup {None}]
        /\ opened'[c] # None
        /\ \A d \in Codes \ {c} : opened'[d] = opened[d]
        /\ UNCHANGED << claim, settled, yields, contended >>
        /\ live' = live \cup {c}
    BY DEF Absence, Open, IInv, TypeOK
  <1>2. c \notin settled /\ ClaimsOn(c) = {}
    BY DEF Open, IInv, TypeOK
  <1>3. \A d \in Codes : ClaimsOn(d)' = ClaimsOn(d)
    BY <1>1 DEF ClaimsOn
  <1>4. TypeOK'
    BY <1>1 DEF IInv, TypeOK
  <1>5. YieldsOnce' /\ SettledIsDead'
    BY <1>1, <1>2, <1>3 DEF IInv, TypeOK, YieldsOnce, SettledIsDead
  <1> QED
    BY <1>1, <1>3, <1>4, <1>5 DEF IInv

LEMMA ClaimStep ==
  ASSUME Absence, IInv, NEW h \in Holders, Claim(h)
  PROVE  IInv'
  <1>0. PICK c \in Codes : c = claim'[h].code
    BY DEF Absence, Claim, Claims
  <1>1. /\ claim' \in [Holders -> Claims \cup {None}]
        /\ claim'[h] # None /\ c \in live /\ c \in Codes
        /\ \A g \in Holders \ {h} : claim'[g] = claim[g]
        /\ UNCHANGED << opened, live, settled, yields >>
        /\ contended' = IF ClaimsOn(c) = {} THEN contended ELSE contended \cup {c}
    BY <1>0 DEF Absence, Claim, IInv, TypeOK, Claims
  <1>2. /\ ClaimsOn(c)' \subseteq ClaimsOn(c) \cup {h}
        /\ \A d \in Codes \ {c} : ClaimsOn(d)' \subseteq ClaimsOn(d)
    BY <1>0, <1>1 DEF ClaimsOn
  <1>3. opened[c] # None
    BY <1>1 DEF IInv, TypeOK
  <1>4. TypeOK'
    BY <1>1 DEF IInv, TypeOK
  <1>5. \A d \in Codes \ contended' : \A g, k \in ClaimsOn(d)' : g = k
    BY <1>1, <1>2 DEF IInv
  <1>6. SettledIsDead'
    BY <1>1, <1>2 DEF IInv, TypeOK, SettledIsDead
  <1>7. YieldsOnce'
    BY <1>1 DEF IInv, YieldsOnce
  <1>8. \A d \in Codes : ClaimsOn(d)' # {} => opened'[d] # None
    BY <1>1, <1>2, <1>3 DEF IInv
  <1> QED
    BY <1>1, <1>4, <1>5, <1>6, <1>7, <1>8 DEF IInv

\* The one claim on an uncontended code is the one being settled, and it was
\* never settled before.
LEMMA SettleStep ==
  ASSUME IInv, NEW h \in Holders, Settle(h)
  PROVE  IInv'
  <1>0. PICK c \in Codes : c = claim[h].code
    BY DEF Settle, IInv, TypeOK, Claims
  <1>1. /\ c \in Codes /\ h \in ClaimsOn(c)
        /\ claim' \in [Holders -> Claims \cup {None}]
        /\ claim'[h] = None
        /\ \A g \in Holders \ {h} : claim'[g] = claim[g]
        /\ settled' = settled \cup {c}
        /\ yields' \in [Codes -> 0..2]
        /\ \A d \in Codes \ {c} : yields'[d] = yields[d]
        /\ yields'[c] \in {yields[c], yields[c] + 1, 2}
        /\ yields[c] = 0 => yields'[c] < 2
        /\ opened' = opened
    BY <1>0 DEF Settle, IInv, TypeOK, Claims, ClaimsOn
  <1>2. \/ live' = live \ {c} /\ contended' = contended
        \/ live' = live /\ contended' = contended \cup {c}
    BY <1>0 DEF Settle
  <1>3. /\ ClaimsOn(c)' = ClaimsOn(c) \ {h}
        /\ \A d \in Codes \ {c} : ClaimsOn(d)' = ClaimsOn(d)
    BY <1>0, <1>1 DEF ClaimsOn
  <1>4. c \notin contended => c \notin settled /\ yields[c] = 0 /\ ClaimsOn(c) = {h}
    BY <1>1 DEF IInv, SettledIsDead
  <1>5. TypeOK'
    BY <1>1, <1>2 DEF IInv, TypeOK
  <1>6. YieldsOnce'
    BY <1>1, <1>2, <1>4 DEF IInv, YieldsOnce
  <1>7. SettledIsDead'
    BY <1>1, <1>2, <1>3, <1>4 DEF IInv, TypeOK, SettledIsDead
  <1>8. \A d \in Codes \ contended' : \A g, k \in ClaimsOn(d)' : g = k
    BY <1>2, <1>3 DEF IInv
  <1>9. \A d \in Codes : ClaimsOn(d)' # {} => opened'[d] # None
    BY <1>1, <1>3 DEF IInv
  <1> QED
    BY <1>1, <1>5, <1>6, <1>7, <1>8, <1>9 DEF IInv

LEMMA IInvIsInductive ==
  ASSUME Absence, IInv, [Next]_vars
  PROVE  IInv'
  <1>1. ASSUME NEW h \in Holders, Drop(h) PROVE IInv'
    BY <1>1, Shrinks DEF Drop, IInv, TypeOK
  <1>2. CASE Lapse
    BY <1>2, Shrinks DEF Lapse, IInv, TypeOK
  <1>3. CASE Crash
    BY <1>3, Shrinks DEF Crash, IInv, TypeOK
  <1>4. CASE UNCHANGED vars
    BY <1>4, Shrinks DEF vars, IInv, TypeOK
  <1> QED
    BY <1>1, <1>2, <1>3, <1>4, OpenStep, ClaimStep, SettleStep DEF Next

\* What is opened, claimed, settled and has yielded agree with each other
\* whatever clients do.
THEOREM Invariance == ASSUME Absence PROVE Spec => []IInv
  <1>1. Init => IInv
    BY InitIInv
  <1>2. IInv /\ [Next]_vars => IInv'
    BY IInvIsInductive
  <1> QED
    BY <1>1, <1>2, PTL DEF Spec

\* A code whose claims never overlapped, and that no late writer kept, yields
\* tokens at most once.
THEOREM UncontendedYieldsOnce == ASSUME Absence PROVE Spec => []YieldsOnce
  BY Invariance, PTL DEF IInv

\* Presenting such a code, rightly or wrongly, is the end of it.
THEOREM UncontendedSettlesOnce == ASSUME Absence PROVE Spec => []SettledIsDead
  BY Invariance, PTL DEF IInv

=============================================================================
