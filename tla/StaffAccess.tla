------------------------------- MODULE StaffAccess -------------------------------
(****************************************************************************)
(* Staff accounts: invitations, status and roles, changed by platform        *)
(* administrators, the sessions signed for them, and the recovery of a lost  *)
(* passkey.  A change is checked against rows read before its transaction,   *)
(* which then writes by id; sessions are kept by the browser, and die by the *)
(* account's authorization generation.                                       *)
(****************************************************************************)
EXTENDS Naturals, FiniteSets

CONSTANTS Staff,      \* accounts
          Founders,   \* accounts active as platform administrators at the start
          Procs,      \* processes of the server
          MaxCodes,   \* RECOVERY_CODE_BATCH_SIZE
          MaxChanges  \* bound: committed changes

VARIABLES
  account,   \* staff_accounts with staff_role_assignments and the live staff_recovery_sessions
  session,   \* the session last signed for an account, as its browser keeps it
  codes,     \* break-glass codes left
  work,      \* what a request has read
  changes,
  fresh,     \* processes since whose read nothing was committed
  gone,      \* accounts that have ever been revoked
  calm       \* every change so far was decided on the rows it changed

vars == <<account, session, codes, work, changes, fresh, gone, calm>>

Admin == "platform_administrator"
Roles == {Admin, "support_agent"}
RoleSets == SUBSET Roles \ {{}}
Idle == [at |-> "idle"]
NoSession == [gen |-> 0, roles |-> {}]
Absent == [status |-> "none", gen |-> 1, roles |-> {}, recoveries |-> 0]
Kinds == {"status", "roles", "accept", "login", "issue", "recover"}

TypeOK ==
  /\ account \in [Staff -> [status : {"none", "invited", "active", "suspended", "revoked"},
                            gen : Nat, roles : SUBSET Roles, recoveries : Nat]]
  /\ session \in [Staff -> [gen : Nat, roles : SUBSET Roles]]
  /\ codes \in 0..MaxCodes /\ changes \in 0..MaxChanges
  /\ \A p \in Procs : work[p] = Idle \/ (work[p].at \in Kinds /\ work[p].target \in Staff)
  /\ fresh \subseteq Procs /\ gone \subseteq Staff /\ calm \in BOOLEAN

\* bootstrapFirstPlatformAdministrator, and the colleagues that were made administrators since.
Init ==
  /\ account = [s \in Staff |-> IF s \in Founders
                 THEN [Absent EXCEPT !.status = "active", !.roles = Roles] ELSE Absent]
  /\ session = [s \in Staff |-> NoSession]
  /\ codes = MaxCodes /\ changes = 0
  /\ work = [p \in Procs |-> Idle]
  /\ fresh = {} /\ gone = {} /\ calm = TRUE

IsActiveAdmin(s) == account[s].status = "active" /\ Admin \in account[s].roles
ActiveAdmins == {s \in Staff : IsActiveAdmin(s)}
CountOthers(s) == Cardinality(ActiveAdmins \ {s})

Begin(p, request) ==
  /\ work[p] = Idle
  /\ work' = [work EXCEPT ![p] = request]
  /\ fresh' = fresh \cup (IF request.at \in {"accept", "status", "roles"} THEN {p} ELSE {})
Change(p) ==
  /\ changes < MaxChanges /\ changes' = changes + 1
  /\ work' = [work EXCEPT ![p] = Idle]
  /\ fresh' = {}

\* requireAdminApi: an administrator's live session; createInvitation is one transaction.
Invite(a, s) ==
  /\ IsActiveAdmin(a) /\ account[s].status = "none"
  /\ \E roles \in RoleSets :
       account' = [account EXCEPT ![s].status = "invited", ![s].roles = roles]
  /\ UNCHANGED <<session, codes, work, changes, fresh, gone, calm>>

\* acceptInvitation: pending when read, active by id.
BeginAccept(p, s) ==
  /\ account[s].status = "invited"
  /\ Begin(p, [at |-> "accept", target |-> s])
  /\ UNCHANGED <<account, session, codes, changes, gone, calm>>
Accept(p) ==
  /\ work[p].at = "accept"
  /\ Change(p)
  /\ account' = [account EXCEPT ![work[p].target].status = "active"]
  /\ calm' = (calm /\ p \in fresh)
  /\ UNCHANGED <<session, codes, gone>>

\* Mutant: a revoked colleague may be reinstated.
MayReinstate(a, s) == IsActiveAdmin(a) /\ a # s /\ account[s].status # "none"
\* An administrator may act on a colleague who is not revoked, and never take away the last one.
MayChange(a, s) ==
  /\ IsActiveAdmin(a) /\ a # s
  /\ account[s].status \notin {"none", "revoked"}
LastAdministrator(s) == CountOthers(s) = 0

BeginStatus(p, a, s) ==
  /\ MayChange(a, s)
  /\ \E new \in {"active", "suspended", "revoked"} :
       /\ new # "active" /\ Admin \in account[s].roles => ~LastAdministrator(s)
       /\ Begin(p, [at |-> "status", target |-> s, new |-> new])
  /\ UNCHANGED <<account, session, codes, changes, gone, calm>>
ChangeStatus(p) ==
  /\ work[p].at = "status"
  /\ Change(p)
  /\ account' = [account EXCEPT ![work[p].target].status = work[p].new, ![work[p].target].gen = @ + 1]
  /\ calm' = (calm /\ p \in fresh)
  /\ gone' = gone \cup {s \in Staff : account'[s].status = "revoked"}
  /\ UNCHANGED <<session, codes>>

BeginRoles(p, a, s) ==
  /\ MayChange(a, s)
  /\ \E new \in SUBSET Roles :
       /\ Admin \in account[s].roles /\ Admin \notin new => ~LastAdministrator(s)
       /\ Begin(p, [at |-> "roles", target |-> s, new |-> new])
  /\ UNCHANGED <<account, session, codes, changes, gone, calm>>
\* Mutant: the sessions signed before go on.
SetRoles(s, roles) == account' = [account EXCEPT ![s].roles = roles]
\* The whole set is replaced; a transaction that overlapped does not see, and keeps, the other's rows,
\* unless the unique index of a role refuses it.
ReplaceRoles(s, roles) == account' = [account EXCEPT ![s].roles = roles, ![s].gen = @ + 1]
AssignRoles(p) ==
  /\ work[p].at = "roles"
  /\ Change(p)
  /\ LET s == work[p].target
     IN \E kept \in {{}} \cup (IF p \in fresh THEN {} ELSE {account[s].roles}) :
          /\ kept \cap work[p].new = {}
          /\ ReplaceRoles(s, kept \cup work[p].new)
  /\ calm' = (calm /\ p \in fresh)
  /\ UNCHANGED <<session, codes, gone>>

\* completeStaffLogin after the password: the generation first, then the roles.
BeginLogin(p, s) ==
  /\ account[s].status = "active"
  /\ Begin(p, [at |-> "login", target |-> s, gen |-> account[s].gen])
  /\ UNCHANGED <<account, session, codes, changes, gone, calm>>
Login(p) ==
  /\ work[p].at = "login"
  /\ session' = [session EXCEPT ![work[p].target] =
                   [gen |-> work[p].gen, roles |-> account[work[p].target].roles]]
  /\ work' = [work EXCEPT ![p] = Idle]
  /\ UNCHANGED <<account, codes, changes, fresh, gone, calm>>

\* A recovery session: from another administrator, or by a code of the only one; the old ones end first.
Recoverable(s) == account[s].status \in {"active", "suspended"}
IssueNormal(p, a, s) ==
  /\ IsActiveAdmin(a) /\ a # s /\ Recoverable(s)
  /\ Begin(p, [at |-> "issue", target |-> s])
  /\ account' = [account EXCEPT ![s].recoveries = 0]
  /\ UNCHANGED <<session, codes, changes, gone, calm>>
IssueBreakGlass(p, s) ==
  /\ Recoverable(s) /\ Admin \in account[s].roles /\ LastAdministrator(s)
  /\ codes > 0 /\ codes' = codes - 1
  /\ Begin(p, [at |-> "issue", target |-> s])
  /\ account' = [account EXCEPT ![s].recoveries = 0]
  /\ UNCHANGED <<session, changes, gone, calm>>
CreateSession(p) ==
  /\ work[p].at = "issue"
  /\ work' = [work EXCEPT ![p] = Idle]
  /\ account' = [account EXCEPT ![work[p].target].recoveries = @ + 1]
  /\ UNCHANGED <<session, codes, changes, fresh, gone, calm>>
\* rotateRecoveryCodes makes a new batch.
RotateCodes(a) ==
  /\ IsActiveAdmin(a) /\ codes < MaxCodes /\ codes' = MaxCodes
  /\ UNCHANGED <<account, session, work, changes, fresh, gone, calm>>
\* completeRecoveryEnrollment: the session ends, and with it every session signed before.
CompleteRecovery(s) ==
  /\ account[s].recoveries > 0
  /\ changes < MaxChanges /\ changes' = changes + 1
  /\ account' = [account EXCEPT ![s].recoveries = @ - 1, ![s].gen = @ + 1]
  /\ UNCHANGED <<session, codes, work, fresh, gone, calm>>

Abandon(p) ==
  /\ work[p] # Idle
  /\ work' = [work EXCEPT ![p] = Idle]
  /\ fresh' = fresh \ {p}
  /\ UNCHANGED <<account, session, codes, changes, gone, calm>>

Next ==
  \/ \E a, s \in Staff : Invite(a, s)
  \/ \E s \in Staff : CompleteRecovery(s) \/ RotateCodes(s)
  \/ \E p \in Procs :
       \/ \E a, s \in Staff : BeginStatus(p, a, s) \/ BeginRoles(p, a, s) \/ IssueNormal(p, a, s)
       \/ \E s \in Staff : BeginAccept(p, s) \/ BeginLogin(p, s) \/ IssueBreakGlass(p, s)
       \/ Accept(p) \/ ChangeStatus(p) \/ AssignRoles(p) \/ Login(p) \/ CreateSession(p) \/ Abandon(p)

Spec == Init /\ [][Next]_vars

\* isStaffSessionLive, the time limits aside.
Live(s) == account[s].status = "active" /\ session[s].gen = account[s].gen

(****************************************************************************)
(* A session that the guard still takes carries the roles the account has    *)
(* now, whatever changed between its login's reads and since.  And, as long  *)
(* as no two changes were decided on the same rows at once, a revoked account*)
(* stays so, and the platform keeps an active administrator, by whatever     *)
(* sequence of invitations, suspensions, role changes and recoveries.       *)
(****************************************************************************)
StaffAccessHolds ==
  /\ \A s \in Staff : Live(s) => session[s].roles = account[s].roles
  /\ calm => /\ \A s \in gone : account[s].status = "revoked"
             /\ ActiveAdmins # {}
===================================================================================
