# Verification of the Babysteps platform

TLA+ models, TLC runs and TLAPS proofs of the platform in `src/src`: a Next.js service over one SQL
database (Postgres in production, SQLite in tests) where parents pay for learning apps, learners open
sessions of those apps, and the apps report back. Almost all of its state is rows, almost all of its
concurrency is two requests whose statements interleave, and most of what can go wrong is a request that
decides on a row it read earlier. That is what the modules are about.

Contents: 1 the system, 2 modules and how they correspond to the code, 3 what the runs show, 4 what is
proved, 5 assumptions and bounds, 6 what is not modelled, 7 what comes next.

## 1 The system

### How it executes

Every request runs handlers of `src/src/lib`. `db.transaction` (`db-client/postgres-adapter.ts:130-151`)
takes one connection, BEGINs at READ COMMITTED and COMMITs at the end; a nested transaction joins the
outer one. Nothing takes a row lock explicitly: `withLockedEndUserMutation`
(`authorization/locked-mutation.ts:15-32`) only opens a transaction. So a handler reads rows, often
before its transaction, decides, and then writes; unique indexes, CHECKs and the `where` of each UPDATE
are the only arbiters. A process can die between any two commits. Sweeps exist as functions, but
`.github/workflows` and the routes schedule only some of them; no schedule runs the session sweeps.

### Components

State is in tables of `lib/db/schema.sql` unless said otherwise.

| component | state | operations | what is hard | what makes it correct |
|---|---|---|---|---|
| learner sessions (`learning-session`, `session-finalization`, `session-exit`) | `learner_sessions`, `session_start_requests`, receipts | start, confirm usable launch, cancel, disconnect, resume, resume later, finish, finalize, sweeps, revoke | two requests on one row, UPDATE by id alone, retries, crashes between commits | one session per key, paid exactly when launched, a lapsed reservation heals |
| standard credits (`session-credit-standard`) | `learner_app_standard_credit_batches`, `learner_app_week_usage` | allocate a month, reserve, consume, release | reserved at Start, counted at launch, released by several actors | counts equal the sessions paid for, never overdrawn, weekly limit |
| technical credits (`session-credit`) | `learner_session_credits`, `technical_credit_claim_requests` | claim, expire, reserve, consume, restore | restore and reserve write by id after a read; expiry under a reservation | one credit per failed session, a credit pays once, none is stranded |
| session clock | time columns of `learner_sessions`, `analytics_daily_buffer` | report connected time, leave, return, finalize | reports out of order, contributions applied after the commit | counted time was measured, and is counted once; away at most 15 minutes |
| app launch and grants (`app-launch`, `app-authorization`) | `learner_session_launch_state`, `app_session_grants`, receipts, replays | dispatch, exchange, revoke, purge | an exchange that read an earlier attempt | a code and an assertion are spent once |
| billing (`billing/bi001`..`bi005`) | subscriptions, intents, payment events, agreements, refund cases, reassignments | checkout, payment event, renewal and grace, cancel and resume, refund, reassign | webhooks duplicated, late and out of order; sweeps racing events | a payment counts once; a grace keeps its deadline; a learner has one subscription of an app |
| entitlements (`entitlement-lifecycle`, `-access`, `-cycle`, `-integrity`) | periods, effective entitlements, lifecycle events, incidents | apply event, recompute, evaluate, paid cycle, repair, sweep | versions and event order; repair racing ordinary writes | an event has its effect once, the newest decision stands, a repair never grants twice |
| app progress, recovery and integrity | `learner_app_progress`, receipts, completions, incidents | checkpoint, complete lesson, summarise, recover capsule, migrate, validate, reconcile | optimistic versions, retries with a key, recovery after the session closed | no acknowledged write is lost, a version is written once |
| browser runtime (`session-runtime-sdk`) | IndexedDB records, BroadcastChannel | claim the tab, checkpoint, resume, save and load a capsule | two tabs, no server | not modelled: nothing imports it |
| deployments (`deployment-*`) | releases, deployments, publications, windows, operations | stage, publish, roll back, window, observe, retention | a provider's answer between two transactions; a window opening while sessions run | one published deployment, one promotion per window |
| app availability and registry | `app_registry`, availability states and schedules | create, edit, activate, delete, restore; schedule states | UPDATEs whose row count nobody looks at | no session runs into planned maintenance; only a complete draft becomes active |
| analytics (`db/analytics-*`, `analytics`) | buffer, receipts, runs, aggregates | contribute, claim and run a day, retry, purge | two runners, a run that dies, late contributions | each contribution in time is counted once |
| notifications, history, reminders | intents, attempts, batches, delivery runs, provider events | enqueue, deliver, reconcile, webhook, evaluate | retries, ambiguous provider answers, writes by id | sent a bounded number of times, settled with its delivery; one reminder |
| consistency, journey, achievements, celebrations | projections | project, backfill, rebuild, purge | out of order weeks, outboxes, retention | projections equal their source |
| learner home | the tab's storage and a refresh coordinator | refresh, invalidate | answers out of order, several pages | the launcher stays in its learner's context |
| staff identity, passkeys, governance | staff accounts, roles, invitations, challenges, recovery codes, receipts | sign in, invite, assign, suspend, recover | last administrator, single use | a session has its account's roles; an administrator remains |
| support cases | cases, notes, retention | create, transition, note, reopen, purge | versions checked, then written by id | a key changes a case once; closed stays closed |
| accounts, learners, selection | profiles, cookies, links, learners | sign in, reset, delete, restore, change the address, create and edit learners | deletion and restoration against sessions in cookies, links followed twice | no address is lost, nobody from before a deletion gets in, a key makes one learner |
| authorization modes and request gate | contexts of devices, sessions, grants, roles | enter and leave learner mode; decide on a request | authority that changes between check and effect | no effect without the authority its action asks for |
| database client | connections | transact | the grain of everything above | |
| retention, monitoring, recovery, parent views, pages, migrations | none of their own | delete by age, probe, render | | |

Interactions. A Start reads the account, the entitlement (`evaluateAccessFresh`), the schedule and the
registry, and writes the session together with its funding. `dispatchAppLaunch` and `exchangeAppLaunch`
give the app a provisional grant while the session is `starting`; `confirmUsableLaunch` flips session,
grant and credit in one transaction. Disconnect, resume, finish and finalize are calls of the app under
that grant. Billing events become entitlement lifecycle events, whose effect may revoke the sessions of
a learner and app; deleting an account revokes all of the parent's. Analytics contributions are made
after the commit that caused them, from memory.
Every request passes the gate first: the middleware finds the action its route declares, and the handler
asks for the authority of that action before it has effects.

## 2 Modules and how they correspond to the code

A handler that decides on a row it read is two kinds of step in every module: a `...Read` or `Begin...`
step, which copies what the handler read into `work[p]` (or `job[p]`) of the process `p` that serves it, and
one step per transaction (per statement, where there is no transaction), which acts on the tables as
they are by then. A conditional UPDATE is evaluated against the tables, an unconditional one is not; a unique
index or a CHECK that refuses disables the commit, and `Abandon` ends a request that throws, loses or dies,
between any two steps. Row ids are model values handed out once, as `randomUUID` does; times are either the
set of deadlines that have passed (`LearningSession`, `TechnicalCredit`, `AppLaunch`) or a small clock.

| module | models | state | actions |
|---|---|---|---|
| `LearningSession` | `learning-session/gateway.ts`, `session-finalization`, `session-credit-standard`, the lifecycle revocations | rows (`status`, `funding`, `terms`, `grant`), the batches, `funded` and `slots` of the weeks, `request` keys, the parent account and the entitlement | Start, exchange, confirm, cancel, the start sweep, disconnect, resume, interrupt, finalize, mark resumable, the session sweep, soft delete, end and revoke of an entitlement, the clock |
| `FundingLedger` | what a credit ledger promises: held, spent or returned, never more than granted | `credit`, `from` | `Hold`, `Spend`, `Return` |
| `SessionClock` | the time columns, in the same handlers, with the analytics contribution that follows the commit | `row`, `engaged`, `receipts` | disconnect, limit, resume, interrupt, mark, finalize, sweep, apply a contribution |
| `TechnicalCredit` | `session-credit/service.ts` and its callers | credits, their holder and source, claim receipts, the sessions they fund | claim, expire, start, confirm and consume, cancel, the release of a sweep |
| `AppLaunch` | `app-launch/service.ts`, the grants it makes and ends | launch state, grant, exchange receipts, replays | dispatch, exchange, confirm, finalize, end, purge |
| `Subscription` | `billing/bi002-service.ts`, `bi004-service.ts`, `grace-policy.ts`, `cancellation-policy.ts` for one subscription | the row, its checkout intent, the ledger of paid periods, the provider's events and their receipts | deliver, answer, activate, fail, overlap, renew, fail a renewal, cancel, disable, resume, the two cutoffs |
| `Assignment` | `billing/bi001-service.ts` for all subscriptions of a parent, and what a renewal makes of a due reassignment | subscriptions, reassignment cases | checkout, activate, correct at once or at the boundary, cancel a case, fall due, renew, lapse |
| `Entitlement` | `entitlement-lifecycle`, `entitlement-access`, the refunds and notices of `bi005` | the effective row, the ledger of lifecycle events, refund cases, notices | record, apply, replay by sweep and repair, recompute, request and confirm a refund, report |
| `PaidCycles` | `entitlement-cycle`, `entitlement-integrity` | cycles, roles of the periods, batches, incidents | apply a cycle, reassign, repair, act on an incident |
| `AppProgress` | `app-progress`, `progress-recovery`, `progress-integrity`, `progress-schema-registry` | the progress row, receipts, completions, summaries, incidents | checkpoint, complete, summarise, recover, migrate, classify, reconcile, act on an incident |
| `Journey` | `journey`, `achievements` | sources, outboxes, events, retention | earn, revoke, project, retain, purge |
| `Consistency` | `consistency` | weeks, queue, receipts, streak | complete, finalise, apply, rebuild |
| `Deployment` | the `deployment-*` services | releases, deployments, the publication, windows, operations, observations | stage, schedule, move, cancel, sweep, promote, roll back, observe, purge |
| `AppAvailability` | `app-availability/service.ts` | the row, its outages, events, the session that may start | transitions, scheduling, starting and ending maintenance, the security block, start |
| `AppRegistry` | `db/app-registry-repo.ts` | the app's status, version and completeness | edit, activate, soft-delete, restore |
| `Notifications` | `notifications/service.ts`, `webhook.ts` | intents, deliveries | enqueue, claim, send, record, callback, both reconciliations |
| `LearningReminders` | `learning-reminders/service.ts` | runs, batches, the item, deliveries | evaluate, place, mail, record, retry, change of preference |
| `DailyRun` | `db/analytics-run-repo.ts`, `analytics-contribution-repo.ts` | buffer, receipts, run, aggregates | contribute, claim, read, commit, purge, fail |
| `StaffAccess` | `staff-identity`, the recovery of `platform-governance` | accounts with roles and generation, sessions, codes | invite, accept, sign in, change status or roles, issue a recovery, recover |
| `SupportCases` | `support-cases/service.ts`, `retention.ts` | receipts, cases, notes, mutation receipts | create, update, note, reopen, purge |
| `ParentAccess` | `auth/session.ts`, `db/users.ts`, `platform-governance/restoration.ts` | the account, cookies, links, receipts | sign in and out, change and reset the password, delete, restore |
| `ParentEmail` | `db/account-security-repo.ts` and the callback route | the address, requests, archived addresses | request, resend, cancel, apply, finalize, expire |
| `LearnerProfile` | `db/learner-repo.ts` | the account's learners, request keys | create, rename, limit |
| `LearnerMode` | `authorization/modes.ts`, `webauthn/service.ts` | contexts of devices, selection, passkey, challenges | select, enter directly or by passkey, leave, sign out, revoke |
| `LauncherRefresh` | `learner-home/refresh-controller.ts` | pages, requests under way, the tab's storage | mount, invalidate, answer, hide, leave |
| `Permissions`, `RouteSteps`, `ParentRoutes`, `StaffRoutes`, `ServiceRoutes`, `RouteActions` | the registers: which action needs which authority, and every handler of `app/**/route.ts` as the list of its checks and effects | none | none |
| `RequestGate` | the way of a request of any of these routes past its checks, `authorization/api-guard.ts`, `locked-mutation.ts` and their callers | what is true of the caller, what each request still owes | arrive, pass a step, end, a change of the caller |
| `...Proofs` | the theorems (section 4) | | |
| `MCLearningSession`, `MCSubscription` | symmetry and constant functions for TLC; the former also states a comment's claim that the code does not keep, `FreshReservationBacked` | | |
| `MCRuntime`, `MCEntitlement`, `MCLearning`, `MCOperations` | several modules at once | | |

Where the pieces of one handler are: `startLearnerSession` (`gateway.ts:239-366`) is `StartRead`
(everything up to the transaction: receipt, live session, limits, the month's allocation) and `StartCommit`
(lazy cleanup of lapsed rows, funding, INSERT, request row). `confirmUsableLaunch` is `ConfirmRead` and
`ConfirmCommit`; its failure path continues as `relBatch`. `releaseStartReservation` outside a transaction
is the chain `ReleaseReadBatch`, `ReleaseDecrement`, `ReleaseRow`, `Purge`; inside one (cancel) it is
`CancelCommit`. `disconnectLearnerSession` is `DisconnectRead`/`DisconnectCommit`, and in `SessionClock`
also `LimitCommit` and `Apply`. `finalizeLearnerSession` is `FinalizeRead`/`FinalizeCommit` in both. In
`LearningSession`, `funding`, `status` and `grant` are functions over all sessions of one learner and app,
because a single live slot (`idx_learner_sessions_one_reserved`) is what makes them interact.

The same table appears in two modules only with a different grain: `LearningSession` keeps no seconds and
`SessionClock` no money, `TechnicalCredit` reduces a session to starting, active, ended or cancelled.

Several modules in one run. `MCRuntime`, `MCEntitlement`, `MCLearning` and `MCOperations` are each the sum of
modules that share no state but what the comment at their head says: a variable `part` says which of them a
behaviour is of, and the others stand still. A property of such a module is the conjunction of its parts'.
`MCOperations` has fourteen parts; `v1`, ..., `v11` stand for the variables of whichever it is, as the
`INSTANCE`s say. Parts about which there are theorems are instances of the module of their proofs, so that
the theorems can be cited of them.

History variables. Much of this code is right as long as requests follow each other, and nothing but the
parent's patience makes them. `calm` (`quiet` in `MCEntitlement`) is true until a request commits on a row another
has written since it was read, or dies where nothing resumes it; `overlapped` and `inTurn`, that two requests were
served at once; `ordered`, that weeks were handled in order; `rebuilt`, `revived`, `fresh`, `heard`, `late`, `away`,
`uses`, `taken`, `dispatched` each say one fact of the past. Properties read them and no guard of a module does;
only `MCNext` stops a part where nothing more is claimed.

## 3 What the runs show

Runs that pass:

| run | question | bounds |
|---|---|---|
| `SessionStandard` | do the credit books stay exact and one key start one session, whatever two requests do to each other, and do the tables implement `FundingLedger`? | 2 sessions, 2 requests, 2 keys, one credit per batch |
| `SessionNormal` | does the absolute UPDATE of `normal_sessions_started` lose a slot? | one slot a week, 2 months |
| `SelfHeal` | is an abandoned reservation gone in the end though nothing sweeps, and is a session that is confirmed after the week turned counted in the week it started in? | fairness of section 5; one request at a time, 2 weeks, 2 credits |
| `Runtime` | does an overlap ever invent connected time (`SessionClock`)? is a failed session replaced once, no reservation orphaned, no credit consumed without a launch, and, without overlap, does a credit pay once (`TechnicalCredit`)? can overlapping exchanges outnumber the dispatched codes (`AppLaunch`)? | window 1, limit 2, expiry 2, 2 episodes; 2 sessions, 2 credits; 3 attempts, 2 keys, 2 assertions |
| `Subscription` | does a payment ever buy two periods, or a day get paid twice? can a grace be moved or a cutoff be undone unseen? and, without overlap, is anybody closed for nonpayment in paid time? | 3 events, period 2, grace 1, clock to 4, parent asks up to version 3 |
| `Entitlement` | does a lifecycle event have its effect once, and is nothing marked done that was not (`Entitlement`)? is a cycle allocated once and an incident acted on once (`PaidCycles`)? does a learner have one subscription, a pending reassignment its case (`Assignment`)? | 2 reports, 1 notice, 1 refund case, `NothingNew`; 2 cycles; 2 subscriptions, 2 learners, `NobodyArrives` |
| `Learning` | is a write of progress lost or a version written twice (`AppProgress`)? does the journey show what its sources say, and nothing that was purged (`Journey`)? is the streak the one of the weeks (`Consistency`)? | 2 keys, 3 versions, 2 workers; 1 achievement, 1 milestone, and no lesson, because one projects as an achievement that is never revoked; 3 weeks |
| `Operations` | the parts of `MCOperations`, each with its property: publication and windows, maintenance, activation, mails and reminders, staff, figures, launcher, learner mode and request gate, the parent's account, support cases | 2 processes; 3 deployments, 1 window; 2 of most ids, 2 changes of address, 3 names, 4 case keys, clock to 2; every route of the register |

In `Operations` a part stops, or serves only what is under way, once `calm` or `heard` is false; so do two parts of
`Entitlement`: once requests have overlapped no new event becomes known to the ledger (`NothingNew`) and no request that
concerns an assignment begins (`NobodyArrives`), while those in flight end in every order. The gate takes
every route of `RouteActions`; a second request comes where an assertion can be shown twice, on the route of the
first; staff have no role, one of two, or all; and what is true of the caller changes while a request is under
way. Fewer cases would leave a disjunct of some handler unfired, and more of them repeat these with other names.

Runs that end in a counterexample. Each checks one sentence of the repository, and TLC shows how the code
departs from it.

| run | the sentence | what happens |
|---|---|---|
| `DoubleRelease` | correctness never depends on the sweep; it "just tidies up" | a sweep that read the row as starting decrements the batch again after the row was already released, and takes away the reservation of the next session |
| `EarlyCancellation` | cancellation "schedules only the paid-period end" | auto-renewal is turned off in grace, the payment is recovered, and the old cancellation date ends the subscription as its new period begins; no two requests overlap |
| `GapRestart` | "commercial gaps restart the current streak" | a reconciliation rebuilds the streak over week rows, of which a gap has none, and joins both sides |
| `RepeatedRollback` | a failed automated rollback is tried again at the next tick | its deterministic key answers the failure as a success, and the alert says it was triggered |

More departures, which the models contain and no run is spent on. They bound what the properties can say, and
each is why some property is stated of requests that follow each other.

*Sessions, credits and launch*

- a Start that read the account as active commits after the account was soft-deleted, and a resume re-activates
  a revoked session by id (`gateway.ts:739`, against 735-738, "must be revoked atomically");
- disconnect, resume, the overdue interruption and the revocation write `learner_sessions` by id alone, so one
  that read the row earlier brings an ended session back (`gateway.ts:588`);
- no sweep is scheduled and no handler a learner reaches finalizes the row once its token has expired, so a
  session past its hard expiry keeps the learner locked (`gateway.ts:775-777`);
- a cancel or a failed confirmation that read the session as starting purges its grant after another request
  confirmed it (`gateway.ts:427`, against 469-471);
- the weekly standard count is read at Start and raised at confirmation, so a Start that read it early passes
  the weekly limit (`session-credit-standard/service.ts:167`, against `schema.sql:1248-1249`);
- two overlapping disconnects of one row contribute the same seconds under two episode numbers
  (`gateway.ts:593`, against `analytics-contribution-repo.ts:49-51`), and a disconnect that read the row
  earlier writes back a smaller connected time (`gateway.ts:588`, against 551-553);
- a restore that read a technical credit as reserved commits after the confirmation consumed it, and the
  credit pays a second session (`session-credit/service.ts:69`);
- an exchange checked against one launch attempt spends the state of the next one (`app-launch/service.ts:192`).

*Billing and entitlements*

- a failed payment that was read before a renewal puts the renewed subscription into a grace counted from the
  old boundary (`bi002-service.ts:399`), and a failed and a settled event of one checkout that overlap leave a
  paid period with a cancelled subscription (`bi002-service.ts:254`);
- a `payment_recovered` event delivered before the failure it recovers from is rejected for good
  (`bi002-service.ts:448`), and the failure then starts a grace that runs out;
- a late recovery within grace revives an expired subscription without looking for an overlap, a renewal whose due
  reassignment is refused is rejected for good though it was paid (`bi002-service.ts:463`), and a crash
  between the due move and `applyLifecycleEvent` loses the reassignment's event;
- an audit-only event that overlaps a suspension undoes it, a pending older event is replayed after a newer one,
  a recompute overwrites terminal states, and a chargeback whose webhook dies after storing the notice is never
  applied; a second refund case always conflicts at version 2 though the provider has paid;
- two overlapping periods can both hold batches after a late paid cycle.

*Progress, journey, consistency*

- a fresh row on a release with a higher schema is classed "legacy" and blocked after its first checkpoint
  (`progress-integrity/service.ts:215-235`); a stale summary blocks every later write and opens no incident, against
  `reconcile.ts:33-35`; a migration writes without a version guard; a recovery keeps the old summary, so the check
  after its write throws although it is committed;
- a stale upsert that races a revocation leaves the event of a revoked achievement for ever; a purge deletes
  before its guarded UPDATE; nothing calls `replayDeletionObligations`, so a crash between purge and erasure is
  never made good (against the comment at `journey/service.ts:533-539`);
- a skipped full week resets nothing if the weekly job runs after the next session, a late session of the last week
  moves `current_week` back, and overlapping finalisations count a week twice.

*Deployments, availability, registry*

- the operation in flight is looked for and then inserted, so two promotions may overlap and a promotion may begin
  during a rollback; a crash leaves its row `processing` for ever; "a stale/reused window can never gate a second
  promotion" (`deployment-production/service.ts`, near 311) does not hold of interleaved requests; `extended_safe_block`
  does not extend the window's end; the error UPDATE of a sweep overwrites completed windows; late staging moves a
  promoted release back, which with a failed sweep lets the window promote it a second time although no two operations
  overlap: that takes three requests (two stagings of one release and the sweep), which two processes cannot reach;
  the proof led to it, and the claim now ends at a staging of a release that is no longer unstaged;
- no UPDATE of availability looks at its row count: the unique version of the events alone serialises them; editing can
  empty the metadata of an active app, and overlapped edits of the registry are acknowledged though nothing changed.

*Mails, reminders, figures*

- the intents a crashed worker had claimed are stuck, and the alert on the queue's age counts only `pending` ones; an
  `accepted` callback on a `sending` delivery strands its intent; a failure committed over a delivered mail queues it again;
- two principals that evaluate one run key at once delete each other's batch; a crash between send and record sends again;
- a contribution between the reading of the buffer and its purge is deleted uncounted, one repeated after the purge is
  applied again, and a run whose process dies stays `running` for ever.

*Staff, support, parents, authority*

- the last-administrator guard and the finality of a revocation are checked before the transaction and written by id
  (against `accounts-repo.ts:50`, `status-service.ts:45`); since whoever acts must himself be another active
  administrator, that guard is never what refuses a change when requests follow each other (the proof shows it); two
  live recovery sessions can be issued at once (against `recovery-sessions.ts:26-27`);
- a support case's version is checked and then written by id, so an overlapping update reopens a closed case; no unique
  index keeps two cases from one receipt; an update that omits `escalation_role` sets it to null, and the case becomes
  visible to nobody (against `schema.sql`, near 3213); a refund retried from a case opens a second refund case;
- overlapping resets with one link both succeed; the time of a deletion is taken before its transaction; two
  overlapping restorations are told the same version; a change of address that dies before it is finalized, followed by
  another, never archives the old one; a learner's UPDATE whose row count nobody looks at is acknowledged though nothing
  was written, and a duplicate name has another error text in Postgres than the one that is looked for;
- entering learner mode upserts the context whatever its status, so an entry that overlaps a logout or a revocation brings
  the context back; the contexts a suspected clone opened stay active; `withLockedEndUserMutation` takes no lock in
  Postgres (against its comment) and does not look at the session again;
- some handlers that mutate do not use it (`POST /v1/learners`, consents, passkey registration, entering learner mode);
  `PATCH` of deployment bindings asks for `bindings.read` although it declares `bindings.update`; a service assertion is
  spent before the body is parsed; the `sensitive` flag of an action is looked at by few handlers; sessions and
  roles of staff are two queries, between which a role may change;
- in a tab, an invalidation of equal or lower priority is dropped while a request is under way that was composed before it.

`CHECK_DEADLOCK FALSE` stands in every configuration because an instance has finitely many ids, keys and
ticks, and stops when they are used up.

Every property of a passing run has a mutant: a definition of the model changed the way a bug in the code
would (a dropped `where`, a missing CHECK or index, an interval computed from the wrong time), under which
TLC finds the property violated.

Observed while reading, and not a matter of a run: `app/v1/learners/[learnerId]/session-credits/route.ts:6`
and the learner selection's GET answer with a promise nothing awaits, so the answer is an empty object;
a confirmation and a cancel of one technical session take their two row locks in opposite orders, which
Postgres resolves by aborting one, which is `Abandon` in the model; and the actions `deployment.rollback`,
`learner.session.resume`, `parent.account.read`, `parent.account.security`, `parent.billing.read` and
`support.account.read` are declared by no route.

## 4 What is proved

For every value of the constants that the named assumptions admit. The listed property is the one TLC checks
on the instance of the run; where a module proves its component's own specification (`Spec`), TLC checks the
same formula through the run of section 3 that has the component as a part.

| module | theorem | statement |
|---|---|---|
| `LearningSessionProofs` | `TypeCorrect` | `Spec => []TypeOK`, the CHECKs of a batch included |
| | `PaidExactlyWhenLaunched` | `Spec => []PaidIffLaunched` |
| | `FullScopesOnlyWhenPaid` | `Spec => []FullScopesArePaid` |
| | `FundingNeverGoesBack` | `Spec => FundingIsOneWay` |
| | `BooksAreExact` | `Spec => []ConsumedMatchesSessions` |
| | `CreditsNeverOverdrawn` | `Spec => []NeverOverdrawn` |
| | `SessionsImplementLedger` | `Spec => ImplementsLedger`, the refinement of `FundingLedger` |
| | `KeysStartOnce` | `Spec => []OneSessionPerKey` |
| | `SlotsAreExact` | `Spec => []NormalSlotsExact` |
| | `WeeksAreExact` | `Spec => []WeekUsageMatchesSessions` |
| | `LedgerIsSafe` | the ledger gives out no more than it was granted |
| `SubscriptionProofs` | `ShapesHold` | `Spec => []TypeOK` |
| | `NothingPaidTwice` | `Spec => []PaymentsBuyDistinctTime` |
| | `DeadlineStands` | `Spec => GraceKeepsItsDeadline` |
| | `ReversalsSeeCutoffs` | `Spec => NoCutoffIsUndone` |
| | `BoundaryFollowsPayments` | `Spec => []RowFollowsLedger` |
| | `ClosedOnlyAfterGrace` | `Spec => []UnpaidOnlyAfterGrace` |
| `RuntimeProofs` | `TypesStay` | `MCSpec => []TypesOK` |
| | `CountedTimeStaysReal` | `MCSpec => []CountedTimeIsReal` |
| | `CreditsPayOnce` | `MCSpec => []CreditPaysOnce` |
| | `CodesAreSpent` | `MCSpec => []CodesAreSpentOnce` |
| | `TimeStaysReal`, `CreditsStaySafe`, `CodesStaySpent` | the last three of `SessionClock`, `TechnicalCredit`, `AppLaunch` alone |
| `MCOperationsProofs` | `TypesStay` | `MCSpec => []TypesOK` |
| | `PublicationHolds` | `MCSpec => []PublicationIsConsistent` |
| | `FiguresCountOnce` | `MCSpec => []CountedExactlyOnce` |
| | `StaffAccessRemains` | `MCSpec => []StaffAccessHolds` |
| | `LauncherIsTheContexts` | `MCSpec => []LauncherStaysInItsContext` |
| | `MaintenanceHolds` | `MCSpec => []MaintenanceIsRespected` |
| | `MailsStaySettled` | `MCSpec => []MailsAreSettled` |
| | `CasesStayInOrder` | `MCSpec => []CasesAreOrderly` |
| | `ParentAccountStays` | `MCSpec => []ParentAccountHolds` |
| | `AuthorityStaysHeld` | `MCSpec => []AuthorityIsHeld` |
| | `ActivationsAreChecked` | `MCSpec => ActivationIsChecked` |
| `AppProofs` | `MaintenanceRespected`, `ActivationStaysChecked`, `LauncherStays`, `PublicationStays` | the same of `AppAvailability`, `AppRegistry`, `LauncherRefresh`, `Deployment` alone |
| | `MailsSettle`, `ReminderStaysOne`, `FiguresAreExact` | of `Notifications`, `LearningReminders`, `DailyRun` |
| `AccountProofs` | `StaffKeepsAccess`, `CasesStayOrderly` | of `StaffAccess`, `SupportCases` |
| | `AccessStays`, `AddressesStay`, `LearnersStay`, `ModeIsHeld` | of `ParentAccess`, `ParentEmail`, `LearnerProfile`, `LearnerMode` |
| `EntitlementProofs` | `TypesStay` | `MCSpec => []TypesOK` of `MCEntitlement` |
| | `EffectsStayOnce` | `Spec => []EffectsHappenOnce` of `Entitlement` alone, whatever overlaps |
| | `NewestDecisionRemains` | `Spec => []NewestDecisionStands` of `Entitlement` alone |
| | `LearnersKeepOneSubscription` | `MCSpec => []OneSubscriptionPerLearner` |
| | `CyclesAreCreditedOnce` | `MCSpec => []AllocatedOnce`: no cycle has a second batch, bearing periods do not overlap and supporting ones start within them, an incident is acted on once |
| `LearningProofs` | `TypesStay` | `MCSpec => []TypesOK` of `MCLearning` |
| | `ProgressStays` | `Spec => []ProgressIsNeverForked` of `AppProgress` alone |
| | `JourneyStays` | `MCSpec => []JourneyFollowsItsSources` |
| | `StreakRemains` | `MCSpec => []StreakIsTheRecount` |
| | `SourcesStayShown`, `StreakStays` | the last two of `Journey`, `Consistency` alone |

The theorems about components say more than those about `MCOperations`, whose parts stop where overlaps begin: the
components go on, and what is claimed without a history variable holds of them whatever overlaps.

**Assumptions.** `ConstantsAssumption` (finitely many sessions, positive limits, a source for every key),
`SubscriptionAssumption` (an interval and a grace are positive, the bounds natural numbers, finitely many
events), `ClockAssumption` (positive limits, reports in natural numbers), and `OperationsAssumption`, which collects what the components' theorems have as hypotheses, each the name
of a formula of its proof module: durations and bounds are natural numbers (`Durations`, `SomeAttempts`, `SomeRetries`,
`SomeVersions`, `SomeEdits`, `SomeTime`, `SomeLinks`), the staff is founded by somebody (`Bootstrapped`: the
`bootstrap.ts` of the repository), and a name of a learner, a passkey or an address is none of the words the
code keeps for their absence (`Named`, `ModeNamed`, in `SomeLinks`); and there is room for the two deployments a
publication names (`SomeDeployments`). `EntitlementAssumption`: no event is two of a report, a notice and a refund case,
and `MaxEvents` is a natural number; `SomebodyAssumption`: no learner has the name that stands for none;
`PeriodsAssumption`: a period ends after it starts, and starts are ranks, so that of two periods that start at one instant
the one the code's sort puts first (`created_at`, then `id`) has the smaller. `ProgressAssumption` and `LearningAssumption`: the bounds
on versions, sessions, tries and generations are natural numbers, and there is a week. `RoutesAssumption` has no parameter at all: it says
that in the program of each of the routes every fact the action asks for is asked for before an effect, and TLC's
evaluation of it settles it completely.

**The argument of the sessions.** `PaidIffLaunched` is not inductive alone: a stale commit could break it unless what a
request *remembers* still constrains the row. `RowInv` adds that (`RowsOK`: status, funding and grant of a
row agree; `WorkOK`: what each request holds is a row whose status has at most moved forward since; `OneLive`:
the unique index). Its preservation has one lemma per action, most of which reduce to `Kept`: a row that
the action does not touch keeps its part of the invariant. `CreditInv` adds the counting: `consumed` of a
batch is the number of sessions it paid for, the sessions still holding fit in what is left
(`CreditLeft`), and unborn rows carry nothing (`BlankRows`). The surprise the invariant makes precise is
that `reserved_count` itself is *not* exact (run `DoubleRelease`), and that the books are exact anyway:
only the CHECK on the sum and the `status='starting'` guard of the confirmation are needed.
Action properties and the refinement follow from one step of the invariant; an action maps to a ledger
step for the one session whose funding it changes, and to a stutter otherwise. `StartInv` (`KeysOK`, `SlotsOK`,
`StartsOK` and the week's count) is about the Starts: a Start under way writes `slots` as an absolute value read
before, and it is exact anyway because the live-session index lets one of two overlapping Starts through.

**Of the subscription.** That paid periods are disjoint needs to know that the row is never behind the ledger when
something can renew it, and it *can* be behind: a failed and a settled event of one checkout that overlap
leave a paid period and a row that was never activated. `IInv` therefore splits: the subscription is `Fresh`
(nothing renews it: it never was active, no request that renews it is under way, no remembered row could put it
in grace, and there is at most the one opening period) or `Opened` (an opening period is there, so the
unique payment blocks a second activation, and every paid period ends by the boundary of the row, so a
renewal that still finds that boundary begins after all of them). `VersionNamesRow` says that a version read
and still current names the row that was read, which is all a reversal needs. `InTurn` is what holds
while requests follow each other. `TypeOK` bounds times by the number of events, for which `Reached` counts the
periods already paid.

**Of the parts of `MCRuntime`.** Its state is the sum of three components' and the shared `overlapped`, which every
step keeps true once it is (`ClockOverlaps`, ...). So a step of one part keeps the others' invariants, which say something
of it only while it is false (`AllParts`).

- `SessionClock`: neither a column nor what a request read of it is ahead of the clock, and a resume under way found
  an absence within the window (`Measured`); that needs no order of requests. In turn, a request computes from the row it will write, the time away
  is what the row says plus what passed since it was left, and a contribution that is still to be applied fits
  in what the row has that `engaged` has not (`Balanced`, `Accounted`).
- `TechnicalCredit`: all that a session has reserved by now it had when its row was read (`Remembers`), so a release
  that finds its row gives back everything and orphans nothing, whatever came between. In turn, nobody is about to
  reserve or restore a spent credit (`Unspent`), and what a credit launched spent it (`LaunchedOnce`).
- `AppLaunch`: a prepared code is one that no exchange was accepted for yet (`Paid`), whichever of the dispatched
  it is: that is why the count holds while a spent code can be accepted again. In turn, an exchange finds the code it
  has checked (`LaunchInTurn`).

**Of the parts of `MCOperations`.** No step leaves a part (`PartStays`), and a step of a part is one of its component
(`DailyStep`, ...), so each theorem is the component's invariant under `part = ...`. With `TypesStay` every property of
the run is a theorem. These invariants:

- `Deployment`: a request at work with the provider has the row of its key `processing`, and no other works for that key
  (`Owned`), whatever overlaps; in turn, one operation is processing (`Single`), what a rollback read of the publication
  is so and the window of a promotion unused (`CurrentFor`), and a used window is one deployment's (`UsedOnce`), whose
  release is `promoted` (`Spent`), so that neither the sweep nor an administrator finds it again. `Spent` is what a late
  staging breaks.
- `DailyRun`: the buffer has a contribution exactly when there is a receipt (`Receipted`), until the run is completed it
  keeps whatever was applied (`Kept`), one process at most reads for a run that is on (`OneReader`), and what it has
  read contains the contributions in time once (`ExactRead`).
- `Notifications`: a claimed e-mail is one process's until its answer is recorded (`OneClaim`), and every way to another
  attempt knows how many there have been (`Counted`).
- `LearningReminders`: in turn, one evaluates a run's key and one mails its batch (`Single`), only the batch with the
  week's item has a delivery (`Delivered`), and it was mailed as often as was recorded or, between sending and
  recording, once more (`Given`).
- `StaffAccess`: a generation is the account's own and a session of it has its roles (`Signed`); what a request read holds
  until another change is committed, in particular that whoever changes a colleague is an active administrator and
  another one, so one is left (`FreshOK`).
- `SupportCases`: a change that was made has its request's row (`MadeOnce`) and a closed case its date (`Dated`),
  whatever overlaps; in turn also, the versions that were changed are behind the case's own (`WonOnce`).
- `AppAvailability`: each version but the first has its event (`Logged`), so of two changes that read one version one is
  refused, and what the other has checked still holds (`CurrentHold`); what a session knew begins after it can have
  ended (`Ahead`).
- `AppRegistry`: what an activation has found ready is so as long as the version stays (`ReadyStill`).
- `LauncherRefresh`: the storage has nothing but what the mounted page shows (`Kept1`), and once learning mode was left
  no answer is under way for a context that is served again (`Left`).
- `LearnerMode`: an accepted challenge is consumed, and accepted once (`ModeCounted`); no generation is told before it
  begins (`Ahead`); an active passkey is not one the parent revoked (`ModeKeyed`).
- `ParentAccess`: the version counts the restorations and, in turn, each has a receipt of its own (`Counted`, `Numbered`,
  with `FS_Surjection`), and a cookie from before a deletion is no newer than `sessions_revoked_before` (`ShutOut`).
- `ParentEmail`: one request at most pends (`OnePends`), as the partial unique index says; in turn every address is kept
  and the request that pends is about the address of now, unless one is `Halfway` between its two statements.
- `LearnerProfile`: a learner is of one key (`Keyed`), names are apart (`NamesApart`), and what an update read of a
  learner still holds, in turn (`ChildReadsNow`).
- `RequestGate`: what a request owes has not been true since it came and is still to be asked for (`StillAsked`); after an
  effect nothing is left to ask (`InOrder` of each route, from `RoutesAssumption`); who passed the step that spends the assertion is
  the one who spent it (`SpentBy`).

**Of the parts of `MCEntitlement`.** A step of one part leaves the variables of the others alone (`EveryStep`).

- `Entitlement`: whatever overlaps, what a request has in hand is in the ledger as it says (`Serves`), a refund case and a
  notice are of their own kinds (`CasesAreTheirs`, `LedgerIsTheirs`), and an entry in the log of effects is recorded
  (`LogIsRecorded`): with that an effect is had once (`IInv`). In turn, what is being recorded is newer than all that was
  applied (`Latest`), and at most one event is pending, which its request still serves (`PendingIsServed`), so
  that the last effect is of the newest decision (`TInv`).
- `PaidCycles`: what an operator acted on is an earlier version of the incident (`ActsAreEarlier`), since each action
  raises it, and one incident of a cycle is open (`OneActive`); in turn, he acts on the incident as he read it. The walk
  that finds the bearing periods is stated by its result: a period bears when no bearing one before it ends after
  it starts. There is such a set (`BearingIs`: the walks up to each start, by a least start without one, agree and make
  one set), and a period that starts after all others leaves them their roles (`BearingOfEarlier`). In turn, the
  roles in the table are those of a walk over all periods of the learner (`RolesStand`); applied in order, only bearing ones
  have a batch (`BatchesStand`).
- `Assignment`: a subscription waits for a learner exactly while one scheduled case of it says so (`Waits`), and while the
  version a request has read stands, so does the case it is about (`Stands`), whatever overlaps. In turn, nobody but the
  subscription a request is about serves the learner it will have (`Looked`).

**Of the parts of `MCLearning`.** Again a step of one part leaves the others alone.

- `AppProgress`: whatever overlaps, a request carries the key it was sent with, composed on the version it has read
  (`Composed`), and what was sent in a session has the schema of its release (`OfItsSession`). In turn, who is at work has
  read the row as it is, in the live session (`Current`), the row agrees with its receipt and its hash (`Proven`), a
  version below the row's was accepted once (`OnePerVersion`), and no completion is ahead of the row (`Attached`).
- `Journey`: whatever overlaps, no event is of a generation to come and none of a purged source of the present one
  (`Generations`), because a projection under way shows a source only if its generation is over or the source was not
  purged (`Carried`). In turn, a source that is earned and not shown, or shown and revoked, still stands in its outbox
  without a receipt of this generation (`Owed`).
- `Consistency`: the state is what a count of the rows returns (`Orderly`). The count is a function by recursion over the
  weeks (`Tally`); a row that did not count may change, and no row counts after the week the state is at, so that
  completing or finalising that week, or a later one, continues the count by one step (`SetAside`, `CountsLast`). A
  reconciliation that finds all weeks closed changes this week's row alone (`ReconciledKeeps`), and over weeks that are
  all eligible `rebuildState` counts as the recount does (`RebuiltKeeps`); a week that is not fully covered
  breaks that, which is the run `GapRestart`.

What a recursion over the weeks returns is proved without the library's induction theorems, which take an operator:
`UpTo` says that a *set* with 0 in it that is closed under successor up to `n` has all of `0..n`, from a least number
outside of it (`WFMin`).

TLC checked each invariant on the run's instance before it was proved.

**Model-checked only.** Liveness (`LapsedStartHeals`) and what rests on ENABLED, which are out of the prover's reach.

## 5 Assumptions and bounds

Database. READ COMMITTED, statements atomic, a transaction's writes seen at its commit. A transaction is
one step; where Postgres would block a second writer on a row lock, the model orders the two steps either
way, which is what the second writer sees when it wakes. The one over-approximation is the first use of a
week, whose INSERT ... ON CONFLICT takes a lock that the model does not.

Providers. An event of `Subscription` says what its id says for ever; at most one event settles a checkout and
at most one fails it; a renewal may be charged at any time and reported by several events. `billing_periods`
refuses a payment it knows with an error that is not a billing error, so the request throws (`Abandon`). What the
deployment and mail providers answer, and whether an answer arrives, is a choice at each call.

Bounds. Two requests are enough for every interference that is a stale read followed by a write: each
counterexample of a run needs at most two, and the theorems, which have no such bound, settle what three could do (one more
was found that way, section 3). One credit per batch makes every reservation contend. `MaxWeek`,
`MaxMonth`, `MaxTime`, `MaxVersion`, `MaxEpisodes`, `MaxEvents`, `MaxIncidents`, `MaxSessions`, `MaxTries`,
`MaxGeneration`, `MaxDeployments`, `MaxChanges`, `MaxFailures`, `MaxLinks`, `MaxCodes` and `MaxContexts` cap what only
grows. The scaled constants keep the order of the real ones: maximum connected time below hard expiry, window below both.
In `MCOperations` `Ids` are two of whatever a part has two of, the names among them, changes of address are numbered
requests, and a support case has four keys. Symmetry permutes ids, learners, keys and requests, and is not used in the run that checks liveness. The proofs
have no bounds but those the modules' guards name.

Fairness. `FairSpec` of `LearningSession`: a request that arrived runs to its end or dies; the clock
advances; the learner keeps asking to start until one Start gets through (strong, since another
request can make it fail); the app of an open session keeps asking to resume. No fairness is given to a
sweep, because no schedule of the repository runs one: the scheduled workflows are the analytics day
(`an001`) and the deployment sweep (`ar002`).
`purgeExpiredLaunchData`, `purgeExpiredAppGrants` and `revokeAppGrant` have no caller outside tests, so they are not actions.

## 6 What is not modelled, and why

Every component of section 1 is in `PROJECT.json` with its status. What the modelled ones leave out:

- *Sessions.* The progress gates of a confirmation and a resume are an arbitrary yes or no; the receipts of
  confirmation, finalization and exit are left out, because a replay answers without a write; the journal of
  session events is write-only. `completeLearnerSession` and `establishUsableLaunch` are reached from tests only.
- *Credits.* Batches of entitlement periods do not fund sessions (a comment of the service says so); a claim
  for a session that itself ran on a technical credit is left out.
- *Launch.* Client assertions are ids: that a signature is checked is the library's matter.
- *Billing.* Calendar clamping of `addBillingInterval`, reminders, hosted mandate setup, and the provider's own view of the
  agreement; receipts of requests, because a replay answers without a write; `sweepDueSubscriptionReassignments` and
  `applyVerifiedCheckoutPayment`, which tests alone call.
- *Progress and journey.* The content of a state is the key of the request that wrote it; schemas, release contracts, icons.
- *Deployments.* Bindings, webhooks, manifests; whether sessions are reserved when a window opens is a choice.
- *Jobs.* The receipts of runs, retention by age, wording; `monitoring`, which only alerts.
- *Accounts.* Rate limits, consents, the ceremony of WebAuthn, the content of a profile.
- *Operations changes* (`operations-admin`): a thin wrapper; its outcome is written by id, so that it overwrites a change
  cancelled meanwhile, and overlapping creations make two.
- *Browser runtime* (`session-runtime-sdk`): nothing in the repository but tests imports it. A change recorded while
  `checkpointIfDue` awaits is overwritten, and two tabs' `prepareResume` both return the capsule although a comment says it is
  never returned twice.
- *External.* The database engine beyond the isolation of section 5, the payment provider beyond its events,
  the browser, and the libraries for WebAuthn, mail and deployments.

Not modelled at all, for want of a state machine: parent views, pages, serialisation, migrations,
administration wrappers, probes and deletes by age. A hazard none of the properties covers is in `PROJECT.json` with the reason.

## 7 What comes next

Proofs: all invariants the passing runs check are theorems; what could be added are those of the new compositions.

Compositions still apart: `Subscription` with `LearningSession` over the cutoff that cancels starting sessions;
`Entitlement` with `LearningSession` over revocation. Abstract specifications beyond `FundingLedger`: a ledger of paid
time that `Subscription` implements, a register with versions that `AppProgress` implements.

The number of TLC runs is kept near a dozen: a new module joins a run as a part of it.
