------------------------------- MODULE LearnerMode -------------------------------
(****************************************************************************)
(* A parent's browsers, each of which manages the account or is handed to    *)
(* one learner.  A learner is selected, and enters either directly or by a   *)
(* passkey that answers a challenge; the mode ends by the parent's password, *)
(* by signing out, or with the passkey or the account.  The decisions are    *)
(* made on rows read before; the row of a browser is written by its key,     *)
(* whatever became of it.                                                    *)
(****************************************************************************)
EXTENDS Naturals, FiniteSets

CONSTANTS Procs,       \* processes of the server
          Devices,     \* browsers, with one parent session each
          Learners,    \* the parent's learners
          Passkeys,    \* authenticators a learner may register
          Challenges,  \* ids of challenges
          MaxVersion   \* bound: generations of a browser's row

VARIABLES
  account,    \* profiles.account_status
  signedIn,   \* the browsers that hold the parent's session
  selected,   \* learner_selection_contexts
  context,    \* learner_unlock_contexts
  passkey,    \* learner_passkey_credentials
  challenge,  \* webauthn_challenges
  work,       \* what a request has read
  uses,       \* answers accepted for a challenge
  told,       \* the modes a browser was told, by generation
  calm        \* no two requests have overlapped

vars == <<account, signedIn, selected, context, passkey, challenge, work, uses, told, calm>>

Nobody == "nobody"
Direct == "direct-access"
Parent == "parent_management"
Idle == [at |-> "idle"]
NoContext == [status |-> "none", learner |-> Nobody, key |-> Nobody, version |-> 0, reason |-> "none"]
NoPasskey == [status |-> "none", learner |-> Nobody, reason |-> "none"]
NoChallenge == [state |-> "none", purpose |-> "none", device |-> Nobody, learner |-> Nobody]
Reasons == {"none", "parent_exit", "credential_revoked", "parent_logout", "parent_session_revoked"}

Contexts == [status : {"none", "active", "revoked"}, learner : Learners \cup {Nobody},
             key : Passkeys \cup {Nobody, Direct}, version : 0..MaxVersion, reason : Reasons]
Credentials == [status : {"none", "active", "revoked"}, learner : Learners \cup {Nobody},
                reason : {"none", "clone_suspected", "parent_revoked"}]
ChallengeRows == [state : {"none", "open", "consumed"}, purpose : {"none", "registration", "authentication"},
                  device : Devices \cup {Nobody}, learner : Learners \cup {Nobody}]

TypeOK ==
  /\ account \in {"active", "deleted"} /\ signedIn \subseteq Devices
  /\ selected \in [Devices -> Learners \cup {Nobody}]
  /\ context \in [Devices -> Contexts]
  /\ passkey \in [Passkeys -> Credentials]
  /\ challenge \in [Challenges -> ChallengeRows]
  /\ DOMAIN work = Procs /\ uses \in [Challenges -> Nat]
  /\ told \in [Devices -> [0..MaxVersion -> SUBSET (Learners \cup {Parent})]]
  /\ calm \in BOOLEAN

\* A passkey may have been registered long ago.
Init ==
  /\ account = "active" /\ signedIn = Devices
  /\ selected = [d \in Devices |-> Nobody]
  /\ context = [d \in Devices |-> NoContext]
  /\ passkey \in [Passkeys -> {NoPasskey} \cup
                            {[status |-> "active", learner |-> l, reason |-> "none"] : l \in Learners}]
  /\ challenge = [h \in Challenges |-> NoChallenge]
  /\ work = [p \in Procs |-> Idle] /\ uses = [h \in Challenges |-> 0]
  /\ told = [d \in Devices |-> [g \in 0..MaxVersion |-> {}]]
  /\ calm = TRUE

(* Who a browser is, by its row: the parent, a learner, or nobody who must sign in again. *)
Mode(d) ==
  IF account # "active" THEN Nobody
  ELSE CASE context[d].status = "none" -> Parent
         [] context[d].status = "revoked" /\ context[d].reason = "parent_exit" -> Parent
         [] context[d].status = "active" -> context[d].learner
         [] OTHER -> Nobody

\* An answer tells the browser its mode, with the row's generation.
Tell(d, mode) == told' = [told EXCEPT ![d][context'[d].version] = @ \cup {mode}]

\* A request is answered under the mode its browser had when it came.
Arrive(p, d, request) ==
  /\ work[p] = Idle /\ d \in signedIn
  /\ work' = [work EXCEPT ![p] = request]
  /\ calm' = (calm /\ \A q \in Procs : work[q] = Idle)
ArriveAsParent(p, d, request) == Mode(d) = Parent /\ Arrive(p, d, request)
Done(p) == work' = [work EXCEPT ![p] = Idle]
\* A request that is one transaction.
AtOnce(d) == d \in signedIn /\ Mode(d) = Parent /\ calm' = (calm /\ \A q \in Procs : work[q] = Idle)

\* Both ways into learner mode select the learner first, in a statement of its own.
Select(p, d, l, next) ==
  /\ ArriveAsParent(p, d, [at |-> next, device |-> d, learner |-> l])
  /\ selected' = [selected EXCEPT ![d] = l]
  /\ UNCHANGED <<account, signedIn, context, passkey, challenge, uses, told>>
EnterOptions(p, d, l) == Select(p, d, l, "options")
EnterDirectly(p, d, l) == Select(p, d, l, "direct")

StoreChallenge(h, purpose, d, l) ==
  /\ challenge[h].state = "none"
  /\ challenge' = [challenge EXCEPT ![h] =
       [state |-> "open", purpose |-> purpose, device |-> d, learner |-> l]]

\* generatePasskeyAuthenticationOptions, for a learner with a passkey.  (A challenge that expires is
\* one that is never answered.)
AuthenticationOptions(p, h) ==
  /\ work[p].at = "options"
  /\ \E k \in Passkeys : passkey[k].status = "active" /\ passkey[k].learner = work[p].learner
  /\ StoreChallenge(h, "authentication", work[p].device, work[p].learner)
  /\ Done(p)
  /\ UNCHANGED <<account, signedIn, selected, context, passkey, uses, told, calm>>

RegistrationOptions(d, l, h) ==
  /\ AtOnce(d)
  /\ StoreChallenge(h, "registration", d, l)
  /\ UNCHANGED <<account, signedIn, selected, context, passkey, work, uses, told>>

\* Mutant: whoever has read the challenge may use it.
Known(h) == challenge[h].state \in {"open", "consumed"}
\* The UPDATE that consumes a challenge finds it only once.
Unused(h) == challenge[h].state = "open"
ConsumeChallenge(p, purpose) ==
  /\ Unused(work[p].challenge)
  /\ challenge[work[p].challenge].purpose = purpose
  /\ challenge[work[p].challenge].device = work[p].device
  /\ challenge[work[p].challenge].learner = work[p].learner
  /\ challenge' = [challenge EXCEPT ![work[p].challenge].state = "consumed"]
  /\ uses' = [uses EXCEPT ![work[p].challenge] = @ + 1]

\* A browser answers a challenge it was given, with an authenticator it has.
Answer(p, d, h, k, next) ==
  /\ challenge[h].state # "none"
  /\ ArriveAsParent(p, d, [at |-> next, device |-> d, learner |-> challenge[h].learner,
                           challenge |-> h, key |-> k])
  /\ UNCHANGED <<account, signedIn, selected, context, passkey, challenge, uses, told>>
VerifyRegistration(p, d, h, k) == Answer(p, d, h, k, "register")
RegistrationConsumes(p) ==
  /\ work[p].at = "register"
  /\ ConsumeChallenge(p, "registration")
  /\ work' = [work EXCEPT ![p].at = "registered"]
  /\ UNCHANGED <<account, signedIn, selected, context, passkey, told, calm>>
\* The id of an authenticator is unique.
RegistrationStores(p) ==
  /\ work[p].at = "registered"
  /\ passkey[work[p].key].status = "none"
  /\ passkey' = [passkey EXCEPT ![work[p].key] =
       [status |-> "active", learner |-> work[p].learner, reason |-> "none"]]
  /\ Done(p)
  /\ UNCHANGED <<account, signedIn, selected, context, challenge, uses, told, calm>>

VerifyAuthentication(p, d, h, k) == Answer(p, d, h, k, "verify")
\* The challenge is spent even when the passkey is not found.
AuthenticationConsumes(p) ==
  /\ work[p].at = "verify"
  /\ ConsumeChallenge(p, "authentication")
  /\ LET key == passkey[work[p].key] IN
       work' = [work EXCEPT ![p] = IF key.status = "active" /\ key.learner = work[p].learner
                                     THEN [@ EXCEPT !.at = "verified"] ELSE Idle]
  /\ UNCHANGED <<account, signedIn, selected, context, passkey, told, calm>>
\* A counter that does not advance revokes the passkey by its id, and nothing else.
CloneSuspected(p) ==
  /\ work[p].at = "verified"
  /\ passkey' = [passkey EXCEPT ![work[p].key].status = "revoked",
                                ![work[p].key].reason = "clone_suspected"]
  /\ Done(p)
  /\ UNCHANGED <<account, signedIn, selected, context, challenge, uses, told, calm>>

\* Mutant: the generation is that of the first entry.
SameGeneration(d, l, k) ==
  [status |-> "active", learner |-> l, key |-> k, reason |-> "none",
   version |-> IF context[d].version = 0 THEN 1 ELSE context[d].version]
\* The row of this session and browser is made, or made active again whatever it was.
Activated(d, l, k) ==
  [status |-> "active", learner |-> l, key |-> k, reason |-> "none", version |-> context[d].version + 1]
\* Mutant: any learner of the parent will do.
AnySelected(d, l) == selected[d] # Nobody
IsSelected(d, l) == selected[d] = l
ActivateLearnerMode(p, key) ==
  /\ IsSelected(work[p].device, work[p].learner)
  /\ context[work[p].device].version < MaxVersion
  /\ context' = [context EXCEPT ![work[p].device] = Activated(work[p].device, work[p].learner, key)]
  /\ Done(p)
  /\ UNCHANGED <<signedIn, account, selected, passkey, challenge, uses, calm>>

\* One transaction, the reading of the new mode included.
AuthenticationEnters(p) ==
  /\ work[p].at = "verified" /\ account = "active"
  /\ ActivateLearnerMode(p, work[p].key)
  /\ Tell(work[p].device, work[p].learner)
\* The account was looked at before, and is again after the transaction committed.
DirectEnters(p) ==
  /\ work[p].at = "direct"
  /\ ActivateLearnerMode(p, Direct)
  /\ IF account = "active" THEN Tell(work[p].device, work[p].learner) ELSE UNCHANGED told

\* The parent's password is checked; then the browser must still be this learner's.
ExitRequest(p, d) ==
  /\ Mode(d) \in Learners
  /\ Arrive(p, d, [at |-> "exit", device |-> d, learner |-> Mode(d)])
  /\ UNCHANGED <<account, signedIn, selected, context, passkey, challenge, uses, told>>
Revoked(d, reason) ==
  IF context[d].status = "active" /\ context[d].version < MaxVersion
    THEN [context[d] EXCEPT !.status = "revoked", !.reason = reason, !.version = @ + 1]
    ELSE context[d]
RevokeLearnerMode(p) ==
  /\ work[p].at = "exit"
  /\ Mode(work[p].device) = work[p].learner /\ context[work[p].device].version < MaxVersion
  /\ context' = [context EXCEPT ![work[p].device] = Revoked(work[p].device, "parent_exit")]
  /\ work' = [work EXCEPT ![p].at = "left"]
  /\ UNCHANGED <<account, signedIn, selected, passkey, challenge, uses, told, calm>>
\* The answer says parent_management, with the generation found after the commit.
ExitAnswer(p) ==
  /\ work[p].at = "left"
  /\ UNCHANGED context
  /\ IF Mode(work[p].device) = Nobody THEN UNCHANGED told ELSE Tell(work[p].device, Parent)
  /\ Done(p)
  /\ UNCHANGED <<account, signedIn, selected, passkey, challenge, uses, calm>>

\* withLockedEndUserMutation locks nothing: the passkey is read active, and revoked by its id.
RevokePasskeyRequest(p, d, k) ==
  /\ passkey[k].status = "active"
  /\ ArriveAsParent(p, d, [at |-> "revoke", device |-> d, key |-> k])
  /\ UNCHANGED <<account, signedIn, selected, context, passkey, challenge, uses, told>>
\* Mutant: the modes it opened go on.
KeptByCredential(k) == context
RevokedByCredential(k) ==
  [d \in Devices |-> IF context[d].key = k THEN Revoked(d, "credential_revoked") ELSE context[d]]
Room == \A d \in Devices : context[d].status = "active" => context[d].version < MaxVersion
RevokePasskey(p) ==
  /\ work[p].at = "revoke" /\ Room
  /\ passkey' = [passkey EXCEPT ![work[p].key].status = "revoked", ![work[p].key].reason = "parent_revoked"]
  /\ context' = RevokedByCredential(work[p].key)
  /\ Done(p)
  /\ UNCHANGED <<account, signedIn, selected, challenge, uses, told, calm>>

\* signOutAction: the modes of the session end, and the browser forgets it.
SignOut(d) ==
  /\ d \in signedIn /\ Room
  /\ signedIn' = signedIn \ {d}
  /\ context' = [context EXCEPT ![d] = Revoked(d, "parent_logout")]
  /\ calm' = (calm /\ \A q \in Procs : work[q] = Idle)
  /\ UNCHANGED <<account, selected, passkey, challenge, work, uses, told>>

RevokedForParent == [d \in Devices |-> Revoked(d, "parent_session_revoked")]
ChangePassword(d) ==
  /\ AtOnce(d) /\ Room
  /\ context' = RevokedForParent
  /\ UNCHANGED <<account, signedIn, selected, passkey, challenge, work, uses, told>>
SoftDeleteAccount(d) ==
  /\ AtOnce(d) /\ Room
  /\ account' = "deleted"
  /\ context' = RevokedForParent
  /\ UNCHANGED <<signedIn, selected, passkey, challenge, work, uses, told>>

\* A request that is refused, throws, loses its transaction or dies.
Abandon(p) ==
  /\ work[p] # Idle /\ Done(p)
  /\ UNCHANGED <<account, signedIn, selected, context, passkey, challenge, uses, told, calm>>

Begin(p) ==
  \/ \E d \in Devices, l \in Learners : EnterOptions(p, d, l) \/ EnterDirectly(p, d, l)
  \/ \E d \in Devices, h \in Challenges, k \in Passkeys :
       VerifyRegistration(p, d, h, k) \/ VerifyAuthentication(p, d, h, k)
  \/ \E d \in Devices : ExitRequest(p, d)
  \/ \E d \in Devices, k \in Passkeys : RevokePasskeyRequest(p, d, k)
Continue(p) ==
  \/ \E h \in Challenges : AuthenticationOptions(p, h)
  \/ RegistrationConsumes(p) \/ RegistrationStores(p)
  \/ AuthenticationConsumes(p) \/ CloneSuspected(p) \/ AuthenticationEnters(p) \/ DirectEnters(p)
  \/ RevokeLearnerMode(p) \/ ExitAnswer(p) \/ RevokePasskey(p) \/ Abandon(p)

Next ==
  \/ \E p \in Procs : Begin(p) \/ Continue(p)
  \/ \E d \in Devices, l \in Learners, h \in Challenges : RegistrationOptions(d, l, h)
  \/ \E d \in Devices : SignOut(d) \/ ChangePassword(d) \/ SoftDeleteAccount(d)

Spec == Init /\ [][Next]_vars
-----------------------------------------------------------------------------
\* No challenge, of a registration or of an entry, is answered twice (service.ts:77-87).
ChallengesAreSingleUse == \A h \in Challenges : uses[h] <= 1

\* Of requests that follow each other: a browser in learner mode is the learner its session
\* selected, its passkey was not revoked by the parent, and its account is not deleted
\* (modes.ts:290-358, account-security-repo.ts:228-246).
ModeIsBacked ==
  calm => \A d \in Devices : context[d].status = "active" =>
    /\ selected[d] = context[d].learner
    /\ account = "active"
    /\ context[d].key \in Passkeys => passkey[context[d].key].reason # "parent_revoked"

\* Of requests that follow each other: whoever was told the row's generation knows its mode, so
\* that a page that shows an older mode can tell (modes.ts:214-224).
GenerationNamesMode ==
  calm => \A d \in Devices : Mode(d) # Nobody => told[d][context[d].version] \subseteq {Mode(d)}

LearnerModeIsHeld == ChallengesAreSingleUse /\ ModeIsBacked /\ GenerationNamesMode
=================================================================================
