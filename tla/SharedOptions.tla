--------------------------- MODULE SharedOptions ---------------------------
(***************************************************************************)
(* The client credentials of downstream logins.  OnRedirectToIdentity-     *)
(* Provider writes the id and the secret of the client that asked into the *)
(* OpenIdConnectOptions of the scheme, an object every request shares; the *)
(* framework reads them back when the provider's code comes in.            *)
(*                                                                         *)
(* Two requests run on two threads: each write and each read is a step.    *)
(***************************************************************************)
EXTENDS FiniteSets

CONSTANTS
  Logins,      \* logins at the provider
  Clients,     \* registered clients; each has its own secret, of the same name
  Configured,  \* the id and secret found in the configuration at start-up
  None         \* an absent value

ASSUME NamesAssumption == Configured \notin Clients /\ None \notin Clients

VARIABLES
  optionsId,      \* context.Options.ClientId
  optionsSecret,  \* context.Options.ClientSecret
  login,          \* each login: where it is, its client, what was redeemed with
  disturbed       \* history: logins during which the options went to another

vars == << optionsId, optionsSecret, login, disturbed >>

Credentials == Clients \cup {Configured}

\* Between its own first write and its own last read a login relies on the
\* options.
RelyingPcs == { "redirect_secret", "at_idp", "callback_secret" }
\* A login inside one of these requests is lost when the process stops.
RequestPcs == { "redirect_id", "redirect_secret", "callback_secret", "redeem" }
Pcs == { "new", "signed_in", "given_up", "failed" } \cup RelyingPcs \cup RequestPcs

Login == [ pc     : Pcs,
           client : Clients \cup {None},
           id     : Credentials \cup {None},
           secret : Credentials \cup {None} ]

At(l, pc)   == login[l].pc = pc
GoTo(l, pc) == login' = [login EXCEPT ![l].pc = pc]

\* The logins that l's write takes the options away from.
Others(l) == { m \in Logins : /\ login[m].pc \in RelyingPcs
                              /\ login[m].client # login[l].client }

Init ==
  /\ optionsId = Configured
  /\ optionsSecret = Configured
  /\ login = [l \in Logins |-> [ pc |-> "new", client |-> None,
                                 id |-> None, secret |-> None ]]
  /\ disturbed = {}

-----------------------------------------------------------------------------
(* OnRedirectToIdentityProvider *)

\* The stored request names the client; its record is fetched.
FetchClientRecord(l, c) ==
  /\ At(l, "new")
  /\ login' = [login EXCEPT ![l].pc = "redirect_id", ![l].client = c]
  /\ UNCHANGED << optionsId, optionsSecret, disturbed >>

\* Mutant: only the message, not the options, gets the client.
SetClientIdInMessage(l) ==
  /\ At(l, "redirect_id")
  /\ disturbed' = disturbed \cup Others(l)
  /\ GoTo(l, "redirect_secret")
  /\ UNCHANGED << optionsId, optionsSecret >>

SetClientId(l) ==
  /\ At(l, "redirect_id")
  /\ optionsId' = login[l].client
  /\ disturbed' = disturbed \cup Others(l)
  /\ GoTo(l, "redirect_secret")
  /\ UNCHANGED optionsSecret

\* The browser leaves for the provider, to be authorized for this client.
SetClientSecret(l) ==
  /\ At(l, "redirect_secret")
  /\ optionsSecret' = login[l].client
  /\ disturbed' = disturbed \cup Others(l)
  /\ GoTo(l, "at_idp")
  /\ UNCHANGED optionsId

-----------------------------------------------------------------------------
(* The framework's handler on the callback path, and the provider *)

ReadClientId(l) ==
  /\ At(l, "at_idp")
  /\ login' = [login EXCEPT ![l].pc = "callback_secret", ![l].id = optionsId]
  /\ UNCHANGED << optionsId, optionsSecret, disturbed >>

ReadClientSecret(l) ==
  /\ At(l, "callback_secret")
  /\ login' = [login EXCEPT ![l].pc = "redeem", ![l].secret = optionsSecret]
  /\ UNCHANGED << optionsId, optionsSecret, disturbed >>

\* The provider issued the code to the login's client and takes it back from
\* that client alone; a refusal ends in OnRemoteFailure.
Redeem(l) ==
  /\ At(l, "redeem")
  /\ GoTo(l, IF login[l].id = login[l].client /\ login[l].secret = login[l].client
             THEN "signed_in" ELSE "failed")
  /\ UNCHANGED << optionsId, optionsSecret, disturbed >>

\* The user gives up at the provider, or is refused.
RemoteFailure(l) ==
  /\ At(l, "at_idp")
  /\ GoTo(l, "given_up")
  /\ UNCHANGED << optionsId, optionsSecret, disturbed >>

\* A restart forgets what redirects wrote and cuts off requests in progress;
\* the logins at the provider come back to the new process.
Restart ==
  /\ optionsId' = Configured
  /\ optionsSecret' = Configured
  /\ login' = [l \in Logins |-> IF login[l].pc \in RequestPcs
                                THEN [login[l] EXCEPT !.pc = "failed"]
                                ELSE login[l]]
  /\ disturbed' = disturbed \cup
       { l \in Logins : login[l].pc \in RelyingPcs \cup RequestPcs }

-----------------------------------------------------------------------------

LoginStep(l) ==
  \/ \E c \in Clients : FetchClientRecord(l, c)
  \/ SetClientId(l)
  \/ SetClientSecret(l)
  \/ ReadClientId(l)
  \/ ReadClientSecret(l)
  \/ Redeem(l)
  \/ RemoteFailure(l)

Next == Restart \/ \E l \in Logins : LoginStep(l)

Spec == Init /\ [][Next]_vars

-----------------------------------------------------------------------------
(* Properties *)

TypeOK ==
  /\ optionsId \in Credentials
  /\ optionsSecret \in Credentials
  /\ login \in [Logins -> Login]
  /\ disturbed \subseteq Logins

\* "The Orchestrator will lookup the incoming client_id and use the found
\* client_secret when initiating a downstream authorization.  The Orchestrator
\* can service many clients": no code is redeemed as another client.
NeverRedeemsAsAnother ==
  \A l \in Logins : login[l].pc = "redeem" =>
    {login[l].id, login[l].secret} \cap (Clients \ {login[l].client}) = {}

\* The shared options are the only way for a login to go wrong: one that no
\* redirect of another client and no restart overlapped is accepted by the
\* provider.
FailuresWereDisturbed ==
  \A l \in Logins : login[l].pc = "failed" => l \in disturbed

\* What an undisturbed login can rely on, step by step.
Relies(l) ==
  LET x == login[l] IN
  /\ x.pc \in { "redirect_secret", "at_idp" } => optionsId = x.client
  /\ x.pc \in { "at_idp", "callback_secret" } => optionsSecret = x.client
  /\ x.pc \in { "callback_secret", "redeem" } => x.id = x.client
  /\ x.pc = "redeem" => x.secret = x.client

\* The inductive invariant behind FailuresWereDisturbed.
IInv ==
  /\ TypeOK
  /\ \A l \in Logins : login[l].pc # "new" => login[l].client \in Clients
  /\ \A l \in Logins \ disturbed : Relies(l)
  /\ FailuresWereDisturbed

=============================================================================
