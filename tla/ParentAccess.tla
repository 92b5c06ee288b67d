------------------------------ MODULE ParentAccess ------------------------------
(****************************************************************************)
(* Who gets into a parent's account: sessions signed into a browser's cookie *)
(* and never stored, links that reset the password, an account deleted by    *)
(* its parent and restored by the staff.  A deletion shuts out the sessions  *)
(* of before by their time of issue, which is kept in whole seconds.         *)
(****************************************************************************)
EXTENDS Naturals, FiniteSets

CONSTANTS Procs,     \* processes of the server
          Browsers,  \* the parent's browsers
          Links,     \* links that reset the password
          Keys,      \* idempotency keys of the staff's restorations
          MaxTime    \* bound: half seconds

VARIABLES
  now,       \* half seconds
  profile,   \* profiles.account_status, auth_revoked_before and version
  cookie,    \* what a browser's session says of its issue
  old,       \* the browsers whose session is from before a deletion
  links,     \* password_reset_tokens: the live links and whether their hour has passed
  spent,     \* links that were live when the password was reset
  receipts,  \* platform_governance_mutation_requests: versions answered, by key
  work,      \* what a request has read
  deleted,   \* how often the account was deleted
  late,      \* the password was reset by a link that was spent
  calm       \* no two requests have overlapped

vars == <<now, profile, cookie, old, links, spent, receipts, work, deleted, late, calm>>

Idle == [at |-> "idle"]
NoCookie == 0
Profiles == [status : {"active", "suspended", "deleted"}, revokedBefore : 0..MaxTime, version : Nat]

TypeOK ==
  /\ now \in 2..MaxTime /\ profile \in Profiles
  /\ cookie \in [Browsers -> 0..MaxTime] /\ old \subseteq Browsers
  /\ links \in [Links -> {"none", "live", "expired", "gone"}] /\ spent \subseteq Links
  /\ receipts \in [Keys -> Nat] /\ DOMAIN work = Procs
  /\ deleted \in Nat /\ late \in BOOLEAN /\ calm \in BOOLEAN

\* The parent has confirmed the address.
Init ==
  /\ now = 2 /\ profile = [status |-> "active", revokedBefore |-> 0, version |-> 1]
  /\ cookie = [b \in Browsers |-> NoCookie] /\ old = {}
  /\ links = [l \in Links |-> "none"] /\ spent = {}
  /\ receipts = [k \in Keys |-> 0] /\ work = [p \in Procs |-> Idle]
  /\ deleted = 0 /\ late = FALSE /\ calm = TRUE

Tick == now < MaxTime /\ now' = now + 1
        /\ UNCHANGED <<profile, cookie, old, links, spent, receipts, work, deleted, late, calm>>

Arrive(p, request) ==
  /\ work[p] = Idle
  /\ work' = [work EXCEPT ![p] = request]
  /\ calm' = (calm /\ \A q \in Procs : work[q] = Idle)
Done(p) == work' = [work EXCEPT ![p] = Idle]
AtOnce == calm' = (calm /\ \A q \in Procs : work[q] = Idle) /\ UNCHANGED work

\* setIssuedAt: the whole second, in half seconds.
IssuedAt == 2 * (now \div 2)
StartSession(b) == cookie' = [cookie EXCEPT ![b] = IssuedAt] /\ old' = old \ {b}
\* Mutant: the second of the deletion itself is let in.
FromBefore(b) == cookie[b] < profile.revokedBefore
RevokedSession(b) == cookie[b] <= profile.revokedBefore
\* parentAccessDecision.
LetIn(b) == cookie[b] # NoCookie /\ profile.status = "active" /\ ~RevokedSession(b)

\* The password is checked, and not the account's status.
SignIn(b) ==
  /\ StartSession(b) /\ AtOnce
  /\ UNCHANGED <<now, profile, links, spent, receipts, deleted, late>>
SignOut(b) ==
  /\ cookie[b] # NoCookie /\ cookie' = [cookie EXCEPT ![b] = NoCookie] /\ old' = old \ {b}
  /\ UNCHANGED <<now, profile, links, spent, receipts, work, deleted, late, calm>>

DeleteRequest(p, b) ==
  /\ LetIn(b) /\ Arrive(p, [at |-> "delete", browser |-> b])
  /\ UNCHANGED <<now, profile, cookie, old, links, spent, receipts, deleted, late>>
\* The time is taken before the transaction.
SoftDeleteBegins(p) ==
  /\ work[p].at = "delete"
  /\ work' = [work EXCEPT ![p] = [at |-> "deleting", browser |-> work[p].browser, time |-> now]]
  /\ UNCHANGED <<now, profile, cookie, old, links, spent, receipts, deleted, late, calm>>
\* The row is written by its id, and this browser's cookie cleared with the answer.
SoftDeleteAccount(p) ==
  /\ work[p].at = "deleting"
  /\ profile' = [profile EXCEPT !.status = "deleted", !.revokedBefore = work[p].time]
  /\ deleted' = deleted + 1
  /\ cookie' = [cookie EXCEPT ![work[p].browser] = NoCookie]
  /\ old' = {b \in Browsers : cookie[b] # NoCookie} \ {work[p].browser}
  /\ Done(p)
  /\ UNCHANGED <<now, links, spent, receipts, late, calm>>

\* Mutant: whatever the account's status.
SameVersion(v) == profile.version = v
Eligible(v) == SameVersion(v) /\ profile.status = "deleted"
\* restoreAccountViaGovernance: a key that was answered is answered again.
RestoreRead(p, k, v) ==
  /\ receipts[k] = 0 /\ Eligible(v)
  /\ Arrive(p, [at |-> "restore", key |-> k, expected |-> v])
  /\ UNCHANGED <<now, profile, cookie, old, links, spent, receipts, deleted, late>>
\* The receipt is inserted with the change; the rest is written by the account's id.
RestoreAccount(p) ==
  /\ work[p].at = "restore" /\ receipts[work[p].key] = 0
  /\ receipts' = [receipts EXCEPT ![work[p].key] = work[p].expected + 1]
  /\ profile' = [profile EXCEPT !.status = "active", !.version = @ + 1]
  /\ Done(p)
  /\ UNCHANGED <<now, cookie, old, links, spent, deleted, late, calm>>

CreatePasswordResetToken(l) ==
  /\ links[l] = "none" /\ links' = [links EXCEPT ![l] = "live"]
  /\ UNCHANGED <<now, profile, cookie, old, spent, receipts, work, deleted, late, calm>>
HourPasses(l) ==
  /\ links[l] = "live" /\ links' = [links EXCEPT ![l] = "expired"]
  /\ UNCHANGED <<now, profile, cookie, old, spent, receipts, work, deleted, late, calm>>
\* One transaction reads the link and deletes it; another may have read it too.
ResetRead(p, b, l) ==
  /\ links[l] \in {"live", "expired"}
  /\ Arrive(p, [at |-> IF links[l] = "live" THEN "reset" ELSE "forget", browser |-> b, link |-> l])
  /\ UNCHANGED <<now, profile, cookie, old, links, spent, receipts, deleted, late>>
ForgetLink(p) ==
  /\ work[p].at = "forget"
  /\ links' = [links EXCEPT ![work[p].link] = "gone"]
  /\ Done(p)
  /\ UNCHANGED <<now, profile, cookie, old, spent, receipts, deleted, late, calm>>
Outstanding == {l \in Links : links[l] \in {"live", "expired"}}
\* Mutant: the link itself.
ThisLink(l) == {l}
EveryLink(l) == Outstanding
ResetPassword(p) ==
  /\ work[p].at = "reset"
  /\ links' = [l \in Links |-> IF l \in EveryLink(work[p].link) THEN "gone" ELSE links[l]]
  /\ late' = (late \/ work[p].link \in spent)
  /\ spent' = spent \cup Outstanding
  /\ StartSession(work[p].browser)
  /\ Done(p)
  /\ UNCHANGED <<now, profile, receipts, deleted, calm>>

Abandon(p) ==
  /\ work[p] # Idle /\ Done(p)
  /\ UNCHANGED <<now, profile, cookie, old, links, spent, receipts, deleted, late, calm>>

Begin(p) ==
  \/ \E b \in Browsers : DeleteRequest(p, b)
  \/ \E k \in Keys, v \in 1..(Cardinality(Keys) + 1) : RestoreRead(p, k, v)
  \/ \E b \in Browsers, l \in Links : ResetRead(p, b, l)
Continue(p) ==
  \/ SoftDeleteBegins(p) \/ SoftDeleteAccount(p) \/ RestoreAccount(p)
  \/ ForgetLink(p) \/ ResetPassword(p) \/ Abandon(p)

Next ==
  \/ \E p \in Procs : Begin(p) \/ Continue(p)
  \/ \E b \in Browsers : SignIn(b) \/ SignOut(b)
  \/ \E l \in Links : CreatePasswordResetToken(l) \/ HourPasses(l)
  \/ Tick

Spec == Init /\ [][Next]_vars
-----------------------------------------------------------------------------
Restored == {k \in Keys : receipts[k] # 0}

\* Each key restores the account once, and the account's version counts the restorations.  Of
\* requests that follow each other: a deletion is restored at most once, and no two restorations are
\* told the same version (restoration.ts:44-76).
RestorationsAreCounted ==
  /\ profile.version = 1 + Cardinality(Restored)
  /\ calm => /\ Cardinality({receipts[k] : k \in Restored}) = Cardinality(Restored)
             /\ deleted = Cardinality(Restored) + IF profile.status = "deleted" THEN 1 ELSE 0

\* Of requests that follow each other: no session from before a deletion gets in again, also when
\* the account is restored (parent-profile.ts:57-90, account-security-repo.ts:228-266), and a reset of
\* the password spends every link that was out (users.ts:112-132).
OldAccessIsGone ==
  calm => (\A b \in old : ~LetIn(b)) /\ ~late

AccessHolds == RestorationsAreCounted /\ OldAccessIsGone
=================================================================================
