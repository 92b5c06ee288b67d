----------------------------- MODULE RouteSteps -----------------------------
(* What a request handler under src/app is made of, for its authority: a
   sequence of steps, each of which may need a fact about the caller to be
   current, may spend the caller's single-use assertion, and may have an
   effect.  A step that needs a fact refuses the request when the caller lacks
   it.  The other refusals (a limit reached, a malformed body, a row that is
   missing or in the wrong state) are the plain steps: a request may end at any
   of them, and the effects themselves are the subject of the other modules. *)
EXTENDS Permissions, Sequences

PlainStep(name) == <<[name |-> name, needs |-> {"anyone"}, spends |-> FALSE, acts |-> FALSE]>>
Limit == PlainStep("limit")     \* counts the attempt, refuses the one too many
Body  == PlainStep("body")      \* reads the body and refuses a malformed one
Check == PlainStep("check")     \* looks something up and may refuse

Effect(name) == <<[name |-> name, needs |-> {"anyone"}, spends |-> FALSE, acts |-> TRUE]>>
Change == Effect("change")      \* one call that writes
Read   == Effect("read")        \* composes the answer

(* One of the facts must be current. *)
Needs(facts) == <<[name |-> "needs", needs |-> facts, spends |-> FALSE, acts |-> FALSE]>>

Session  == Needs({"signed in"})
Password == Needs({"password"})
Receipt  == Needs({"receipt"})
Proof    == Needs({"proof"})    \* a signature, a link, a token or a passkey's answer

(* What is decided from stored rows alone: an active account, then the mode the
   action asks for, read from the unlock context of the session and device. *)
Decided(action) == Needs({"account"}) \o Needs({ModeOf(action)})

(* A parent or a learner: the session first, with its account's cut-offs. *)
EndUser(action) == Session \o Decided(action)

(* withLockedEndUserMutation: in the transaction of the write, the decision is
   taken once more from what is stored then; the session is not looked at again. *)
Locked(action) == PlainStep("lock") \o Decided(action) \o Change

(* Staff: the session is compared with the account's generation, then the roles
   are read by a query of their own. *)
Staff(action) == Needs({"staff session"}) \o Needs(RolesWith(action))

(* requireSuperAdminApi: every one of the four roles, on top of the capability. *)
SuperAdmin(action) ==
  Staff(action) \o Needs({"support_agent"}) \o Needs({"billing_administrator"})
    \o Needs({"operations_administrator"}) \o Needs({"platform_administrator"})

(* An internal service: its key must be the one of the contract, then the
   assertion is spent, in a transaction of its own. *)
Service(contracts) ==
  Needs({ServiceKey[c] : c \in contracts})
    \o <<[name |-> "spend", needs |-> {"anyone"}, spends |-> TRUE, acts |-> FALSE]>>

(* A learning app by its assertion alone. *)
AppPrincipal ==
  Needs({"app principal"})
    \o <<[name |-> "spend", needs |-> {"anyone"}, spends |-> TRUE, acts |-> FALSE]>>

(* A learning app with its access token: the assertion is verified, then spent
   in one transaction with the look at the grant, so that a refusal of the
   grant leaves the assertion unspent. *)
App(scope) ==
  Needs({"app principal"})
    \o <<[name |-> "grant", needs |-> GrantsWith(scope), spends |-> TRUE, acts |-> FALSE]>>

(* The same for the exchange of a launch code, for a renewal and for the
   decision service: the assertion is spent by the transaction that acts. *)
SpentByTheEffect(facts) ==
  <<[name |-> "change", needs |-> facts, spends |-> TRUE, acts |-> TRUE]>>
Exchange == Needs({"app principal"}) \o SpentByTheEffect({"anyone"})
Renewal  == Needs({"app principal"}) \o SpentByTheEffect({"provisional grant", "active grant"})
Decision == Needs(ServiceKeys) \o SpentByTheEffect({"anyone"})

(* handleDeploymentMutation, shared by four routes. *)
DeploymentMutation(action) ==
  Staff(action) \o Limit \o Body \o Receipt \o Check \o Check \o Change \o Change
=============================================================================
