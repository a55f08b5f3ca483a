---------------------------- MODULE OneTimeCode ----------------------------
(***************************************************************************)
(* What an authorization code promises, whoever keeps it: it is opened for *)
(* one request, may be claimed while it is live, and whoever settles a     *)
(* claim with the parameters of that request gets its tokens, once.        *)
(* OIDCPipeline implements this; see CodesAreOneTime there.                *)
(*                                                                         *)
(* A claim and its settling are two steps, as reading the code and         *)
(* removing it are in the program, so claims of one code can overlap.      *)
(* Such a code is contended; of a contended code nothing is promised but   *)
(* whom its tokens go to.                                                  *)
(***************************************************************************)
EXTENDS Naturals

CONSTANTS
  Codes,
  Holders,   \* who can have a claim under way
  Requests,  \* what a code is opened for
  Params,    \* what is presented with a code
  Matches,   \* the pairs of parameters and request that fit each other
  None

VARIABLES
  opened,    \* the request each code was opened for
  live,      \* the codes that can be claimed
  claim,     \* the claim each holder has under way
  settled,   \* the codes a claim of which was settled, rightly or wrongly
  yields,    \* how often each code has yielded tokens, up to 2
  contended  \* the codes claimed twice at once, or kept by a late writer

vars == << opened, live, claim, settled, yields, contended >>

Claims == [ code : Codes, params : Params ]

\* What the theorems ask of the constants: an absent value is nothing else.
Absence == None \notin Requests \cup Claims

Init ==
  /\ opened    = [c \in Codes |-> None]
  /\ live      = {}
  /\ claim     = [h \in Holders |-> None]
  /\ settled   = {}
  /\ yields    = [c \in Codes |-> 0]
  /\ contended = {}

ClaimsOn(c) == { h \in Holders : claim[h] # None /\ claim[h].code = c }

Open(c) ==
  /\ opened[c] = None
  /\ opened'[c] \in Requests
  /\ opened' = [opened EXCEPT ![c] = opened'[c]]
  /\ live' = live \cup {c}
  /\ UNCHANGED << claim, settled, yields, contended >>

Claim(h) ==
  /\ claim[h] = None
  /\ claim'[h] \in Claims
  /\ claim' = [claim EXCEPT ![h] = claim'[h]]
  /\ claim'[h].code \in live
  /\ contended' = IF ClaimsOn(claim'[h].code) = {} THEN contended
                  ELSE contended \cup {claim'[h].code}
  /\ UNCHANGED << opened, live, settled, yields >>

\* The code dies with the settling, unless a late writer keeps it.
Settle(h) ==
  /\ claim[h] # None
  /\ claim' = [claim EXCEPT ![h] = None]
  /\ LET c == claim[h].code IN
     /\ settled' = settled \cup {c}
     /\ yields' = IF << claim[h].params, opened[c] >> \in Matches
                  THEN [yields EXCEPT ![c] = IF @ < 2 THEN @ + 1 ELSE 2]
                  ELSE yields
     /\ \/ live' = live \ {c} /\ UNCHANGED contended
        \/ contended' = contended \cup {c} /\ UNCHANGED live
  /\ UNCHANGED opened

\* The holder fails before it settles.
Drop(h) ==
  /\ claim[h] # None
  /\ claim' = [claim EXCEPT ![h] = None]
  /\ UNCHANGED << opened, live, settled, yields, contended >>

\* Codes expire, or the logins behind them are abandoned.
Lapse ==
  /\ live' \in SUBSET live
  /\ UNCHANGED << opened, claim, settled, yields, contended >>

Crash ==
  /\ live'  = {}
  /\ claim' = [h \in Holders |-> None]
  /\ UNCHANGED << opened, settled, yields, contended >>

Next ==
  \/ \E c \in Codes : Open(c)
  \/ \E h \in Holders : Claim(h) \/ Settle(h) \/ Drop(h)
  \/ Lapse
  \/ Crash

Spec == Init /\ [][Next]_vars

-----------------------------------------------------------------------------

\* A code yields tokens twice only if claims of it overlapped or a writer of
\* its login came too late.
YieldsOnce == \A c \in Codes \ contended : yields[c] < 2

\* A settled code is dead, whatever was presented with it: nobody can claim it
\* again, and nobody has a claim left.
SettledIsDead ==
  \A c \in settled \ contended : c \notin live /\ ClaimsOn(c) = {}

TypeOK ==
  /\ opened    \in [Codes -> Requests \cup {None}]
  /\ live      \subseteq { c \in Codes : opened[c] # None }
  /\ claim     \in [Holders -> Claims \cup {None}]
  /\ settled   \subseteq { c \in Codes : opened[c] # None }
  /\ yields    \in [Codes -> 0..2]
  /\ contended \subseteq Codes

\* Of an uncontended code there is one claim at a time; a claimed or settled
\* code was opened, so that it is not opened again.
IInv ==
  /\ TypeOK
  /\ \A c \in Codes \ contended : \A g, h \in ClaimsOn(c) : g = h
  /\ \A c \in Codes : ClaimsOn(c) # {} => opened[c] # None
  /\ \A c \in Codes \ settled : yields[c] = 0
  /\ YieldsOnce
  /\ SettledIsDead

=============================================================================
