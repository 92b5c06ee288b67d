------------------------------ MODULE MCOperations ------------------------------
(****************************************************************************)
(* Small instances of what goes on around the learners' sessions: an app's   *)
(* deployments, availability and registry entry; the staff who change them;  *)
(* e-mails, reminders and daily figures; the launcher in the browser.  The   *)
(* parts share no state, so each behaviour of this specification is one of a *)
(* single part, whose variables v1, v2 ... stand for.  The parts that       *)
(* theorems are about are instances of the modules of their proofs.         *)
(****************************************************************************)
EXTENDS Naturals, TLC

CONSTANTS Procs,
          Releases, Windows, AdminKeys, MaxDeployments,
          Reservation, HardExpiry, MaxTime, MaxVersion,
          Notices, Runs, MaxAttempts, MaxChanges,
          Employees, Founders, MaxCodes, Contributions, MaxFailures, MaxContexts,
          Ids,  \* two browsers, links, keys, cases, or learners, where they are alike
          Learners, Passkeys, Challenges, CaseKeys, Labels, EmailRequests, MaxLinks

VARIABLES part, v1, v2, v3, v4, v5, v6, v7, v8, v9, v10, v11

\* AppAvailability, Registry of AppRegistry, Tab of LauncherRefresh, and Pipeline of Deployment; the
\* jobs: Mails of Notifications, Reminders of LearningReminders, and Daily of DailyRun.
Apps == INSTANCE AppProofs WITH
  Outages <- Ids, MaxEdits <- MaxVersion + 2,
  now <- v1, state <- v2, version <- v3, outage <- v4, events <- v5, blocked <- v6, session <- v7, work <- v8,
  app <- v1, asked <- v2,
  visible <- v1, online <- v2, serving <- v3, unlocked <- v4, storage <- v5, page <- v6, orphans <- v7, left <- v8,
  release <- v1, window <- v2, unmoved <- v3, pub <- v4, dep <- v5, drain <- v6, obs <- v7, op <- v8, told <- v9,
  calm <- v10, job <- v11,
  task <- v9, delivery <- v7, intent <- v1, sends <- v2,
  wanted <- v1, eligible <- v2, changes <- v3, ran <- v4, batch <- v5, holder <- v6, mailed <- v8,
  run <- v1, buffer <- v2, receipts <- v3, counted <- v4, doing <- v5, applied <- v6, inTime <- v7, heard <- v8
\* ParentAccess, Email of ParentEmail, Children of LearnerProfile, and Modes of LearnerMode;
\* Guard of StaffAccess, and Support of SupportCases.
Accounts == INSTANCE AccountProofs WITH
  Browsers <- Ids, Links <- Ids, Keys <- Ids, MaxTime <- MaxTime + 2,
  Emails <- Labels, Names <- Ids, Requests <- EmailRequests, NewLearners <- Ids, Devices <- Ids,
  Staff <- Employees, Cases <- Ids, CaseVersions <- MaxVersion + 2,
  work <- v10, calm <- v11,
  now <- v1, profile <- v2, cookie <- v3, old <- v4, links <- v5, spent <- v6, receipts <- v7, deleted <- v8,
  late <- v9,
  email <- v1, taken <- v2, change <- v3, archived <- v4, had <- v5,
  account <- v1, onboarding <- v2, learner <- v3, creations <- v4, updates <- v5, told <- v9,
  signedIn <- v2, selected <- v3, context <- v4, passkey <- v5, challenge <- v6, uses <- v7,
  session <- v2, codes <- v3, changes <- v4, fresh <- v5, gone <- v6,
  receipt <- v1, kase <- v2, notes <- v3, requests <- v4, applied <- v5, won <- v6, closed <- v7, added <- v8

Register == INSTANCE RouteActions
RouteTable == Register!RouteTable
Gate == INSTANCE RequestGate WITH
  Requests <- Ids, Routes <- RouteTable, kind <- v1, facts <- v2, request <- v3, spent <- v4

\* What the code's constants and the numbers of things are, for which the theorems hold.
ASSUME OperationsAssumption ==
  /\ Apps!Durations /\ Apps!SomeEdits /\ Apps!SomeDeployments
  /\ Apps!SomeAttempts /\ Apps!SomeRetries
  /\ Accounts!Bootstrapped /\ Accounts!SomeVersions
  /\ Accounts!SomeTime /\ Accounts!SomeLinks /\ Accounts!Named /\ Accounts!ModeNamed
  /\ MaxContexts \in Nat \ {0}

\* Every route asks what its action asks for, before it has effects (RequestGate).
ASSUME RoutesAssumption == Gate!RoutesInOrder

none3 == <<v9, v10, v11>>
none6 == <<v6, v7, v8, none3>>
none9 == <<v3, v4, v5, none6>>

\* Requests to change the address are numbered as they come.
InOrder == \A r, q \in EmailRequests : r < q /\ v3[q].status # "none" => v3[r].status # "none"

\* The routes explored: a service calls what is meant for services, and a second request comes
\* where an assertion can be shown twice, on the route of the first.
ServiceNames == DOMAIN Register!ServiceTable
Callable(x) ==
  LET others == {y \in Ids \ {x} : v3[y].stage # "waiting"} IN
  {name \in Gate!Names :
     IF others # {} THEN v1 \in {"service", "app"} /\ \E y \in others : name = v3[y].route
     ELSE v1 = "service" => name \in ServiceNames}
\* Staff with no role, with one of two, or with all.
FewRoles ==
  v1 = "staff" => v2 \cap Gate!Roles \in
    {{}, {"platform_administrator"}, {"operations_administrator"}, Gate!Roles}
\* What changes about a caller matters while a request is under way.
InBetween == \E x \in Ids : v3[x].stage = "running"

MCInit ==
  \/ part = "pipeline" /\ Apps!Pipeline!Init
  \/ part = "availability" /\ Apps!Init /\ v9 = 0 /\ v10 = 0 /\ v11 = 0
  \/ part = "registry" /\ Apps!Registry!Init
     /\ v3 = 0 /\ v4 = 0 /\ v5 = 0 /\ v6 = 0 /\ v7 = 0 /\ v8 = 0 /\ v9 = 0 /\ v10 = 0 /\ v11 = 0
  \/ part = "mails" /\ Apps!Mails!Init /\ v3 = 0 /\ v4 = 0 /\ v5 = 0 /\ v6 = 0 /\ v8 = 0 /\ v11 = 0
  \/ part = "reminders" /\ Apps!Reminders!Init /\ v11 = 0
  \/ part = "daily" /\ Apps!Daily!Init /\ v9 = 0 /\ v10 = 0 /\ v11 = 0
  \/ part = "launcher" /\ Apps!Tab!Init /\ v9 = 0 /\ v10 = 0 /\ v11 = 0
  \/ part = "staff" /\ Accounts!Guard!Init /\ v7 = 0 /\ v8 = 0 /\ v9 = 0
  \/ part = "support" /\ Accounts!Support!Init
  \/ part = "access" /\ Accounts!Init
  \/ part = "e-mail" /\ Accounts!Email!Init /\ v1 = (CHOOSE n \in Labels : TRUE)
     /\ v6 = 0 /\ v7 = 0 /\ v8 = 0 /\ v9 = 0
  \/ part = "profiles" /\ Accounts!Children!Init /\ v6 = 0 /\ v7 = 0 /\ v8 = 0
  \/ part = "learner mode" /\ Accounts!Modes!Init /\ v8 = 0
  \/ part = "requests" /\ Gate!Init /\ FewRoles
     /\ v5 = 0 /\ v6 = 0 /\ v7 = 0 /\ v8 = 0 /\ v9 = 0 /\ v10 = 0 /\ v11 = 0

\* Where a property is about what happens until two actors interfere, the part ends there, or
\* with what the interfering requests still do.  The staff part ends with its last change and the
\* sign-ins after it, that of the profiles with the account; no tab is hidden and offline at once.
MCNext ==
  \/ part = "pipeline" /\ v10 /\ Apps!Pipeline!Next /\ UNCHANGED part
  \/ part = "availability" /\ Apps!Next /\ UNCHANGED <<part, none3>>
  \/ part = "registry" /\ Apps!Registry!Next /\ UNCHANGED <<part, none9>>
  \/ part = "mails" /\ v10 /\ Apps!Mails!Next /\ UNCHANGED <<part, v3, v4, v5, v6, v8, v11>>
  \/ part = "reminders" /\ v10 /\ Apps!Reminders!Next /\ UNCHANGED <<part, v11>>
  \/ part = "daily" /\ v8 /\ Apps!Daily!Next /\ UNCHANGED <<part, none3>>
  \/ part = "launcher" /\ Apps!Tab!Next /\ (v1 \/ v2)' /\ UNCHANGED <<part, none3>>
  \/ /\ part = "staff"
     /\ v11 /\ ((v4 < MaxChanges /\ Accounts!Guard!Next) \/ \E p \in Procs : Accounts!Guard!Login(p))
     /\ UNCHANGED <<part, v7, v8, v9>>
  \/ /\ part = "support"
     /\ ((v11 /\ Accounts!Support!Next) \/ (~v11 /\ \E p \in Procs : Accounts!Support!Continue(p)))
     /\ UNCHANGED part
  \/ /\ part = "access"
     /\ ((v11 /\ Accounts!Next) \/ (~v11 /\ \E p \in Procs : Accounts!Continue(p)))
     /\ UNCHANGED part
  \/ /\ part = "e-mail"
     /\ ((v11 /\ Accounts!Email!Next) \/ (~v11 /\ \E p \in Procs : Accounts!Email!Continue(p)))
     /\ InOrder'
     /\ UNCHANGED <<part, v6, v7, v8, v9>>
  \/ /\ part = "profiles"
     /\ ((v11 /\ v1 = "active" /\ Accounts!Children!Next) \/ \E p \in Procs : Accounts!Children!Continue(p))
     /\ UNCHANGED <<part, v6, v7, v8>>
  \/ /\ part = "learner mode"
     /\ ((v11 /\ Accounts!Modes!Next) \/ (~v11 /\ \E p \in Procs : Accounts!Modes!Continue(p)))
     /\ UNCHANGED <<part, v8>>
  \/ /\ part = "requests"
     /\ \/ \E x \in Ids : (\E name \in Callable(x) : Gate!Arrive(x, name)) \/ Gate!Pass(x) \/ Gate!End(x)
        \/ (\E x \in Gate!MayHold[v1] : Gate!CallerChanges(x)) /\ FewRoles' /\ InBetween
     /\ UNCHANGED <<part, v5, none6>>
MCSpec == MCInit /\ [][MCNext]_<<part, v1, v2, none9>>

\* The types of the parts.
TypesOK ==
  /\ part = "pipeline" => Apps!Pipeline!TypeOK
  /\ part = "availability" => Apps!TypeOK
  /\ part = "registry" => Apps!Registry!TypeOK
  /\ part = "mails" => Apps!Mails!TypeOK
  /\ part = "reminders" => Apps!Reminders!TypeOK
  /\ part = "staff" => Accounts!Guard!TypeOK
  /\ part = "daily" => Apps!Daily!TypeOK
  /\ part = "launcher" => Apps!Tab!TypeOK
  /\ part = "learner mode" => Accounts!Modes!TypeOK
  /\ part = "e-mail" => Accounts!Email!TypeOK
  /\ part = "access" => Accounts!TypeOK
  /\ part = "profiles" => Accounts!Children!TypeOK
  /\ part = "support" => Accounts!Support!TypeOK
  /\ part = "requests" => Gate!TypeOK

\* The two pointers of the publication are of the deployments that say so, and a window promotes
\* one deployment (Deployment).
PublicationIsConsistent ==
  part = "pipeline" => Apps!Pipeline!PublicationIsConsistent /\ Apps!Pipeline!WindowsPromoteOnce

\* Maintenance never overlaps, a security block is lifted by security, and a session that may
\* start ends before the maintenance it knew of (AppAvailability).
MaintenanceIsRespected ==
  part = "availability" => Apps!MaintenanceIsRespected

\* An app becomes active only as a complete draft (AppRegistry).
ActivationIsChecked == [][part = "registry" => Apps!Registry!ActivationChecked]_<<part, v1, v2, none9>>

\* An e-mail is sent a bounded number of times and settled with its delivery (Notifications); a
\* reminder reaches the parent in one batch, mailed a bounded number of times (LearningReminders).
MailsAreSettled ==
  /\ part = "mails" => Apps!Mails!MailsAreSettled
  /\ part = "reminders" => Apps!Reminders!RemindedOnce

\* A live session has the account's roles; a revoked account and an administrator remain (StaffAccess).
StaffAccessHolds == part = "staff" => Accounts!Guard!StaffAccessHolds

\* The day's figures contain each contribution in time once (DailyRun).
CountedExactlyOnce == part = "daily" => Apps!Daily!CountedExactlyOnce

\* The tab keeps the launcher of the mounted context only (LauncherRefresh).
LauncherStaysInItsContext == part = "launcher" => Apps!Tab!LauncherStaysInItsContext

\* A browser is in learner mode by one challenge, one selection and a passkey that still is one
\* (LearnerMode); a handler has no effect without the authority its action asks for (RequestGate).
AuthorityIsHeld ==
  /\ part = "learner mode" => Accounts!Modes!LearnerModeIsHeld
  /\ part = "requests" => Gate!EffectsAreAuthorized

\* No address a parent had is lost (ParentEmail), no session from before a deletion gets in again
\* (ParentAccess), and a key makes one learner, whose acknowledged changes stay (LearnerProfile).
ParentAccountHolds ==
  /\ part = "e-mail" => Accounts!Email!AddressesAreKept
  /\ part = "access" => Accounts!AccessHolds
  /\ part = "profiles" => Accounts!Children!LearnersAreKept

\* A key changes a case once, and cases follow their workflow (SupportCases).
CasesAreOrderly == part = "support" => Accounts!Support!CasesAreOrderly

Symmetry == Permutations(Procs) \cup Permutations(Ids) \cup Permutations(Learners)
=================================================================================
