---------------------------- MODULE LearningSession ----------------------------
(****************************************************************************)
(* The learning sessions of ONE learner in ONE app: starting, confirming,   *)
(* cancelling, interrupting, ending and revoking them, and the standard     *)
(* credits and weekly slots that fund them.                                  *)
(*                                                                          *)
(* The database is Postgres under READ COMMITTED and no statement of these  *)
(* handlers takes an explicit row lock, so a handler is a READ step, which   *)
(* copies what it read into its process, and one or more COMMIT steps, which *)
(* act on the tables as they are by then: a conditional UPDATE is evaluated  *)
(* again, an unconditional one is not, and a unique index or a CHECK aborts  *)
(* the transaction.  A handler that runs outside a transaction has one       *)
(* commit step per statement.  Times are abstracted to the set of deadlines  *)
(* of a session that have passed.                                            *)
(****************************************************************************)
EXTENDS Naturals, FiniteSets

CONSTANTS
  Sessions,      \* row ids of learner_sessions, handed out by randomUUID
  Procs,         \* requests (or sweep iterations) the platform serves at once
  Keys,          \* idempotency keys of Start requests
  Source,        \* Source[k]: the funding source the request with key k asks for
  Granted,       \* credits of a monthly batch                      (8 in the code)
  PlainWeek,     \* standard sessions a week                        (2 in the code)
  CatchUpWeek,   \* standard sessions in a catch-up week            (3 in the code)
  NormalLimit,   \* normal sessions a week     (2, or weekly_session_limit_override)
  Unlimited,     \* the learner is exempt from the weekly limits  (an admin setting)
  MaxWeek,       \* bound: how many weeks the clock can enter
  MaxMonth       \* bound: how many months the clock can enter

Sources == {"normal", "standard_monthly"}
Weeks   == 1 .. MaxWeek
Months  == 0 .. MaxMonth     \* month 0 is the one before the first modelled month

ASSUME ConstantsAssumption ==
  /\ IsFiniteSet(Sessions)
  /\ Source \in [Keys -> Sources]
  /\ {Granted, PlainWeek, CatchUpWeek, NormalLimit} \subseteq Nat \ {0}
  /\ {MaxWeek, MaxMonth} \subseteq Nat \ {0}
  /\ Unlimited \in BOOLEAN

VARIABLES
  status,    \* learner_sessions.status; "none" before the row exists
  funding,   \* learner_sessions.funding_state
  terms,     \* what Start writes once: source, month of the batch, week, ordinal
  passed,    \* deadlines of the session that have passed
  grant,     \* status of the session's row in app_session_grants
  batch,     \* learner_app_standard_credit_batches, by allocation month
  funded,    \* learner_app_week_usage.standard_sessions_funded
  slots,     \* learner_app_week_usage.normal_sessions_started
  request,   \* session_start_requests: the session each key created
  account,   \* profiles.account_status of the parent
  entitled,  \* the effective entitlement of this learner and app
  week, month,
  work       \* the request each process is serving, with what it has read

rowVars  == <<status, funding, terms, passed, grant>>
fundVars == <<batch, funded, slots, request>>
envVars  == <<account, entitled, week, month>>
vars     == <<rowVars, fundVars, envVars, work>>

LiveStatuses     == {"starting", "active", "disconnected", "resumable"}
TerminalStatuses == {"completed", "interrupted", "revoked_by_admin",
                     "cancelled_before_launch"}
Statuses         == {"none"} \cup LiveStatuses \cup TerminalStatuses
Deadlines        == {"reservation", "window", "token", "hard"}
Terms == [source : Sources, month : Months, week : Weeks, ordinal : Nat]
Batch == [made : BOOLEAN, reserved : Nat, consumed : Nat]
Ops   == {"idle", "start", "confirm", "cancel", "relBatch", "relDecrement", "relRow",
          "relPurge", "disconnect", "resume", "interrupt", "interruptPurge",
          "finalize", "mark", "sweep", "softDelete", "endEntitlement",
          "revokeEntitlement"}
Lifecycle == {"softDelete", "endEntitlement", "revokeEntitlement"}
Work  == [op : Ops, rows : SUBSET Sessions, prior : SUBSET Sessions, key : SUBSET Keys,
          held : BOOLEAN, makes : SUBSET Months, saw : Statuses, terms : Terms]

NoTerms == [source |-> "normal", month |-> 0, week |-> 1, ordinal |-> 0]
Idle == [op |-> "idle", rows |-> {}, prior |-> {}, key |-> {}, held |-> FALSE,
         makes |-> {}, saw |-> "none", terms |-> NoTerms]
NoBatch == [made |-> FALSE, reserved |-> 0, consumed |-> 0]

\* A request on session s, about to run op's next statement.
On(op, s) == [Idle EXCEPT !.op = op, !.rows = {s}]
Busy(p, op) == work[p].op = op
Go(p, op)   == work' = [work EXCEPT ![p].op = op]
Done(p)     == work' = [work EXCEPT ![p] = Idle]

Live(s)       == status[s] \in LiveStatuses
Lapsed(s)     == "reservation" \in passed[s]
FromBatch(s)  == terms[s].source = "standard_monthly"

\* idx_learner_sessions_one_reserved: no live row of the learner besides s.
OnlyLive(s) == \A r \in Sessions \ {s} : ~Live(r)

\* assertLiveGrant: the app backend may call the platform on behalf of s.
AppMayCall(s) ==
  /\ grant[s] \in {"provisional", "active"}
  /\ Live(s)
  /\ grant[s] = "provisional" => status[s] = "starting"
  /\ "token" \notin passed[s]
  /\ account = "active"

-----------------------------------------------------------------------------
(* Standard credit batches. *)

Available(bt, m) == Granted - bt[m].reserved - bt[m].consumed
Credit(bt, m)    == bt[m].made /\ bt[m].reserved + bt[m].consumed < Granted

\* Whether releaseStandardReservation, reading the batch of row s, goes on to decrement.
Held(s) == FromBatch(s) /\ batch[terms[s].month].reserved > 0

\* The batches after releaseStartReservation released the rows R of a batch that
\* the request had read as holding a reservation.
Decrement(R, held, m) == IF held /\ \E r \in R : FromBatch(r) /\ terms[r].month = m
                         THEN 1 ELSE 0
Released(R, held) ==
  [m \in Months |-> [batch[m] EXCEPT !.reserved = @ - Decrement(R, held, m)]]
\* CHECK (reserved_count >= 0) refuses the decrement.
NoCheck(R, held) == FALSE   \* mutant: no CHECK (reserved_count >= 0)
ReleaseRefused(R, held) == \E m \in Months : batch[m].reserved < Decrement(R, held, m)

\* UPDATE ... SET status='cancelled_before_launch', funding_state='released' WHERE
\* id in R AND status='starting'.
Cancelled(st, R) == [s \in Sessions |-> IF s \in R /\ st[s] = "starting"
                                        THEN "cancelled_before_launch" ELSE st[s]]
\* mutant: the UPDATE without its status='starting'
UnfundedAnyway(R) == [s \in Sessions |-> IF s \in R THEN "released" ELSE funding[s]]
Unfunded(R) == [s \in Sessions |-> IF s \in R /\ status[s] = "starting"
                                   THEN "released" ELSE funding[s]]

\* purgeLaunchDataForSession deletes the grants of R whatever their status.
PurgedGrants(R) == [s \in Sessions |-> IF s \in R THEN "none" ELSE grant[s]]

\* fundStandardSession's choice among the live batches bt of the months m-1 and m,
\* earliest expiry first; empty when the weekly limit or the credits are exhausted.
CatchUp(bt, m) ==
  /\ Credit(bt, m - 1)
  /\ Available(bt, m - 1) + (IF Credit(bt, m) THEN Available(bt, m) ELSE 0) > Granted
BatchChoice(bt, m, used) ==
  IF ~Unlimited /\ (used >= CatchUpWeek \/ (used >= PlainWeek /\ ~CatchUp(bt, m))) THEN {}
  ELSE IF Credit(bt, m - 1) THEN {m - 1}
  ELSE IF Credit(bt, m) THEN {m} ELSE {}

\* buildStandardAllowance, read by the learner home outside any transaction, creates
\* the current month's batch on first use (ensureMonthlyStandardAllocation).
EnsureAllocation ==
  /\ ~batch[month].made
  /\ batch' = [batch EXCEPT ![month].made = TRUE]
  /\ UNCHANGED <<rowVars, funded, slots, request, envVars, work>>

-----------------------------------------------------------------------------
(* Start. *)

\* The terms a Start would write, given the batches bt it reads: none when refused.
StartTerms(k, bt) ==
  IF Source[k] = "standard_monthly"
  THEN {[source |-> "standard_monthly", month |-> m, week |-> week,
         ordinal |-> funded[week] + 1] :
          m \in BatchChoice([bt EXCEPT ![month].made = TRUE], month, funded[week])}
  ELSE {[source |-> "normal", month |-> 0, week |-> week, ordinal |-> slots[week] + 1] :
          x \in {y \in {slots[week]} : Unlimited \/ y < NormalLimit}}

\* A row that does not stand in the way of a Start: it is released on the spot.
NeverGivesWay(r) == FALSE    \* mutant: no lazy cleanup
GivesWay(r) == status[r] = "starting" /\ Lapsed(r)

\* startLearnerSession up to its writes: no receipt for the key, the account and the
\* entitlement are good, no live session but a lapsed reservation, and a way to fund.
StartRead(p, k, s) ==
  LET prior == {r \in Sessions : Live(r)}
      held  == \E r \in prior : Held(r)
  IN
  /\ Busy(p, "idle")
  /\ account = "active" /\ entitled
  /\ request[k] = {}
  /\ status[s] = "none" /\ \A q \in Procs : s \notin work[q].rows
  /\ \A r \in prior : GivesWay(r)
  /\ \E t \in StartTerms(k, Released(prior, held)) :
       work' = [work EXCEPT ![p] =
         [op |-> "start", rows |-> {s}, prior |-> prior, key |-> {k}, held |-> held,
          makes |-> {m \in {month} : Source[k] = "standard_monthly" /\ ~batch[m].made},
          saw |-> "none", terms |-> t]]
  /\ UNCHANGED <<rowVars, fundVars, envVars>>

\* What the indexes and CHECKs let the Start transaction w commit: one live row of the
\* learner, one row per key, one row per normal slot of a week, one batch per month,
\* and counters within bounds.
NoIndex(w) == TRUE           \* mutant: a unique index is missing
NoCreditCheck(w, bt) == TRUE \* mutant: no CHECK (reserved_count + consumed_count <= ...)
LearnerIsFree(w) == \A r \in Sessions : Live(r) => r \in w.prior /\ status[r] = "starting"
KeyIsNew(w)      == \A k \in w.key : request[k] = {}
SlotIsFree(w)    ==
  w.terms.source = "normal" =>
    ~\E r \in Sessions : /\ status[r] # "none"
                         /\ terms[r].source = "normal"
                         /\ terms[r].week = w.terms.week
                         /\ terms[r].ordinal = w.terms.ordinal
CreditIsLeft(w, bt) ==
  w.terms.source = "standard_monthly" =>
    bt[w.terms.month].reserved + bt[w.terms.month].consumed < Granted

\* A lost race for the month's batch also fails the transaction: after the refused
\* INSERT Postgres aborts it, so the SELECT of the catch block cannot answer.
StartAccepted(w, bt) ==
  /\ LearnerIsFree(w) /\ KeyIsNew(w) /\ SlotIsFree(w) /\ CreditIsLeft(w, bt)
  /\ \A m \in w.makes : ~batch[m].made
  /\ ~ReleaseRefused(w.prior, w.held)

StartCommit(p) ==
  LET w  == work[p]
      bt == Released(w.prior, w.held)
  IN
  /\ Busy(p, "start")
  /\ IF ~StartAccepted(w, bt) THEN UNCHANGED <<rowVars, fundVars>>
     ELSE \E s \in w.rows :
       /\ status' = [Cancelled(status, w.prior) EXCEPT ![s] = "starting"]
       /\ funding' = [Unfunded(w.prior) EXCEPT ![s] = "reserved"]
       /\ terms' = [terms EXCEPT ![s] = w.terms]
       /\ grant' = PurgedGrants(w.prior)
       /\ request' = [k \in Keys |-> IF k \in w.key THEN {s} ELSE request[k]]
       /\ batch' = [m \in Months |->
            [made     |-> bt[m].made \/ m \in w.makes,
             reserved |-> bt[m].reserved +
                            (IF w.terms.source = "standard_monthly" /\ m = w.terms.month
                             THEN 1 ELSE 0),
             consumed |-> bt[m].consumed]]
       /\ slots' = IF w.terms.source = "normal"
                   THEN [slots EXCEPT ![w.terms.week] = w.terms.ordinal] ELSE slots
       /\ UNCHANGED <<passed, funded>>
  /\ Done(p)
  /\ UNCHANGED envVars

-----------------------------------------------------------------------------
(* Usable launch.  The app exchanged its launch code and holds a grant (AppLaunch). *)

\* mutant: the full scopes from the start
ExchangeInFull(s) ==
  /\ status[s] = "starting" /\ grant[s] = "none"
  /\ account = "active" /\ entitled /\ "token" \notin passed[s]
  /\ grant' = [grant EXCEPT ![s] = "active"]
  /\ UNCHANGED <<status, funding, terms, passed, fundVars, envVars, work>>

\* issueInitialAppGrant, for a starting session of an entitled learner.
Exchange(s) ==
  /\ status[s] = "starting" /\ grant[s] = "none"
  /\ account = "active" /\ entitled /\ "token" \notin passed[s]
  /\ grant' = [grant EXCEPT ![s] = "provisional"]
  /\ UNCHANGED <<status, funding, terms, passed, fundVars, envVars, work>>

\* confirmUsableLaunch up to its transaction.  A lapsed reservation, or a learner no
\* longer entitled, is released on the spot, outside any transaction.
ConfirmRead(p, s) ==
  /\ Busy(p, "idle")
  /\ AppMayCall(s) /\ status[s] = "starting"
  /\ work' = [work EXCEPT ![p] =
       On(IF Lapsed(s) \/ ~entitled THEN "relBatch" ELSE "confirm", s)]
  /\ UNCHANGED <<rowVars, fundVars, envVars>>

\* The week a confirmed session counts in: the one its row was started in.
CurrentWeek(s) == week       \* mutant: the week of the confirmation
ChargedWeek(s) == terms[s].week

\* The transaction of confirmUsableLaunch: the guarded UPDATE, then the grant, then the
\* credit; a missing reservation (or a failed progress gate: Abandon) rolls it all back.
Confirmable(s) == status[s] = "starting"
Payable(s)     == FromBatch(s) => batch[terms[s].month].reserved > 0
\* mutant: the credit is released where it should be consumed
PayNothing(s) ==
  IF FromBatch(s)
  THEN /\ batch'  = [batch EXCEPT ![terms[s].month].reserved = @ - 1]
       /\ funded' = [funded EXCEPT ![ChargedWeek(s)] = @ + 1]
  ELSE UNCHANGED <<batch, funded>>
Pay(s) ==
  IF FromBatch(s)
  THEN /\ batch'  = [batch EXCEPT ![terms[s].month].reserved = @ - 1,
                                  ![terms[s].month].consumed = @ + 1]
       /\ funded' = [funded EXCEPT ![ChargedWeek(s)] = @ + 1]
  ELSE UNCHANGED <<batch, funded>>
ConfirmCommit(p) ==
  /\ Busy(p, "confirm")
  /\ \E s \in work[p].rows :
       IF Confirmable(s) /\ Payable(s)
       THEN /\ status'  = [status EXCEPT ![s] = "active"]
            /\ funding' = [funding EXCEPT ![s] = "consumed"]
            /\ grant'   = [grant EXCEPT ![s] = IF @ = "provisional" THEN "active" ELSE @]
            /\ Pay(s)
            /\ UNCHANGED <<terms, passed, slots, request>>
       ELSE UNCHANGED <<rowVars, fundVars>>
  /\ Done(p)
  /\ UNCHANGED envVars

-----------------------------------------------------------------------------
(* Releasing a reservation (releaseStartReservation). *)

\* cancelStartReservation, whose route runs it in one transaction.
CancelRead(p, s) ==
  /\ Busy(p, "idle")
  /\ account = "active" /\ status[s] = "starting"
  /\ work' = [work EXCEPT ![p] = [On("cancel", s) EXCEPT !.held = Held(s)]]
  /\ UNCHANGED <<rowVars, fundVars, envVars>>

CancelCommit(p) ==
  LET w == work[p] IN
  /\ Busy(p, "cancel")
  /\ IF ReleaseRefused(w.rows, w.held) THEN UNCHANGED <<rowVars, fundVars>>
     ELSE /\ batch'   = Released(w.rows, w.held)
          /\ status'  = Cancelled(status, w.rows)
          /\ funding' = Unfunded(w.rows)
          /\ grant'   = PurgedGrants(w.rows)
          /\ UNCHANGED <<terms, passed, funded, slots, request>>
  /\ Done(p)
  /\ UNCHANGED envVars

\* sweepExpiredStartReservations: the rows are read first, then released one by one,
\* statement by statement.
SweepStartsRead(p, s) ==
  /\ Busy(p, "idle")
  /\ status[s] = "starting" /\ Lapsed(s)
  /\ work' = [work EXCEPT ![p] = On("relBatch", s)]
  /\ UNCHANGED <<rowVars, fundVars, envVars>>

\* releaseStandardReservation reads the batch ...
ReleaseReadBatch(p) ==
  /\ Busy(p, "relBatch")
  /\ Go(p, IF \E s \in work[p].rows : Held(s) THEN "relDecrement" ELSE "relRow")
  /\ UNCHANGED <<rowVars, fundVars, envVars>>

\* ... and then decrements it; the CHECK turns a second decrement into an error.
ReleaseDecrement(p) ==
  LET R == work[p].rows IN
  /\ Busy(p, "relDecrement")
  /\ IF ReleaseRefused(R, TRUE)
     THEN Done(p) /\ UNCHANGED batch
     ELSE Go(p, "relRow") /\ batch' = Released(R, TRUE)
  /\ UNCHANGED <<rowVars, funded, slots, request, envVars>>

ReleaseRow(p) ==
  /\ Busy(p, "relRow")
  /\ status'  = Cancelled(status, work[p].rows)
  /\ funding' = Unfunded(work[p].rows)
  /\ Go(p, "relPurge")
  /\ UNCHANGED <<terms, passed, grant, fundVars, envVars>>

\* The purge that follows a release or an interruption, in a transaction of its own.
Purge(p) ==
  /\ Busy(p, "relPurge") \/ Busy(p, "interruptPurge")
  /\ grant' = PurgedGrants(work[p].rows)
  /\ Done(p)
  /\ UNCHANGED <<status, funding, terms, passed, fundVars, envVars>>

-----------------------------------------------------------------------------
(* A launched session: interruptions and ends. *)

\* The UPDATEs of disconnect, resume, revoke and of an overdue resume name the row by
\* id only: whatever the row has become, it gets the new status.
SetStatus(s, new) ==
  /\ status' = [status EXCEPT ![s] = new]
  /\ UNCHANGED <<funding, terms, grant, fundVars, envVars>>

\* disconnectLearnerSession.  With the connected time used up it hands over to
\* finalizeSessionAutomatically instead.
DisconnectRead(p, s) ==
  /\ Busy(p, "idle")
  /\ AppMayCall(s) /\ status[s] = "active"
  /\ \E op \in {"disconnect", "finalize"} : work' = [work EXCEPT ![p] = On(op, s)]
  /\ UNCHANGED <<rowVars, fundVars, envVars>>

DisconnectCommit(p) ==
  /\ Busy(p, "disconnect")
  /\ \E s \in work[p].rows :
       IF OnlyLive(s)
       THEN /\ SetStatus(s, "disconnected")
            /\ passed' = [passed EXCEPT ![s] = @ \ {"window"}]    \* a new resume_deadline
       ELSE UNCHANGED <<rowVars, fundVars, envVars>>
  /\ Done(p)

\* resumeLearnerSession: back to active, or interrupted when it comes too late.
ResumeRead(p, s) ==
  /\ Busy(p, "idle")
  /\ AppMayCall(s) /\ status[s] \in {"disconnected", "resumable"}
  /\ work' = [work EXCEPT ![p] =
       On(IF "hard" \in passed[s] \/ (status[s] = "disconnected" /\ "window" \in passed[s])
          THEN "interrupt" ELSE "resume", s)]
  /\ UNCHANGED <<rowVars, fundVars, envVars>>

ResumeCommit(p) ==
  /\ Busy(p, "resume")
  /\ \E s \in work[p].rows :
       IF OnlyLive(s)
       THEN /\ SetStatus(s, "active")
            /\ passed' = [passed EXCEPT ![s] = @ \ {"window"}]    \* resume_deadline = null
       ELSE UNCHANGED <<rowVars, fundVars, envVars>>
  /\ Done(p)

InterruptRow(p) ==
  /\ Busy(p, "interrupt")
  /\ \E s \in work[p].rows : SetStatus(s, "interrupted")
  /\ Go(p, "interruptPurge")
  /\ UNCHANGED passed

\* UPDATE ... WHERE status IN ('active','disconnected','resumable'), or as given.
SetStatusIf(s, from, new) ==
  status' = [status EXCEPT ![s] = IF @ \in from THEN new ELSE @]

\* finalizeLearnerSession, also reached from finishSessionIntentionally; the grant is
\* revoked whether or not the guarded UPDATE found the row.
FinalizeRead(p, s) ==
  /\ Busy(p, "idle")
  /\ AppMayCall(s) /\ status[s] \in {"active", "disconnected", "resumable"}
  /\ work' = [work EXCEPT ![p] = On("finalize", s)]
  /\ UNCHANGED <<rowVars, fundVars, envVars>>

FinalizeCommit(p) ==
  /\ Busy(p, "finalize")
  /\ \E s \in work[p].rows :
       /\ SetStatusIf(s, {"active", "disconnected", "resumable"}, "completed")
       /\ grant' = [grant EXCEPT ![s] = IF @ = "active" THEN "revoked" ELSE @]
  /\ Done(p)
  /\ UNCHANGED <<funding, terms, passed, fundVars, envVars>>

\* markSessionResumable: the learner leaves and intends to come back.
MarkRead(p, s) ==
  /\ Busy(p, "idle")
  /\ AppMayCall(s) /\ status[s] = "active" /\ "hard" \notin passed[s]
  /\ work' = [work EXCEPT ![p] = On("mark", s)]
  /\ UNCHANGED <<rowVars, fundVars, envVars>>

MarkCommit(p) ==
  /\ Busy(p, "mark")
  /\ \E s \in work[p].rows : SetStatusIf(s, {"active"}, "resumable")
  /\ Done(p)
  /\ UNCHANGED <<funding, terms, passed, grant, fundVars, envVars>>

\* sweepExpiredLearnerSessions: past the resume window or past hard expiry.
SweepSessionsRead(p, s) ==
  /\ Busy(p, "idle")
  /\ \/ status[s] = "disconnected" /\ "window" \in passed[s]
     \/ status[s] \in {"active", "disconnected", "resumable"} /\ "hard" \in passed[s]
  /\ work' = [work EXCEPT ![p] = On("sweep", s)]
  /\ UNCHANGED <<rowVars, fundVars, envVars>>

SweepSessionsCommit(p) ==
  /\ Busy(p, "sweep")
  /\ \E s \in work[p].rows :
       SetStatusIf(s, {"active", "disconnected", "resumable"}, "interrupted")
  /\ grant' = PurgedGrants(work[p].rows)
  /\ Done(p)
  /\ UNCHANGED <<funding, terms, passed, fundVars, envVars>>

-----------------------------------------------------------------------------
(* The account is soft-deleted, or the entitlement ends commercially (a starting *)
(* session is released, a launched one kept) or for a security reason (revoked).  *)

LifecycleRead(p, op) ==
  LET rows == {s \in Sessions : IF op = "endEntitlement" THEN status[s] = "starting"
                                                         ELSE Live(s)}
  IN
  /\ Busy(p, "idle")
  /\ IF op = "softDelete" THEN account = "active" ELSE entitled
  /\ \E saw \in Statuses :
       /\ \A s \in rows : status[s] = saw
       /\ rows = {} => saw = "none"
       /\ work' = [work EXCEPT ![p] =
            [Idle EXCEPT !.op = op, !.rows = rows, !.saw = saw,
                         !.held = \E s \in rows : status[s] = "starting" /\ Held(s)]]
  /\ UNCHANGED <<rowVars, fundVars, envVars>>

LifecycleCommit(p) ==
  LET w == work[p] IN
  /\ w.op \in Lifecycle
  /\ IF ReleaseRefused(w.rows, w.held)
     THEN UNCHANGED <<rowVars, fundVars, envVars>>
     ELSE /\ IF w.saw = "starting"
             THEN status' = Cancelled(status, w.rows) /\ funding' = Unfunded(w.rows)
             ELSE /\ status' = [s \in Sessions |-> IF s \in w.rows THEN "revoked_by_admin"
                                                                   ELSE status[s]]
                  /\ UNCHANGED funding
          /\ batch' = Released(w.rows, w.held)
          /\ grant' = PurgedGrants(w.rows)
          /\ IF w.op = "softDelete"
             THEN account' = "deleted" /\ UNCHANGED entitled
             ELSE entitled' = FALSE /\ UNCHANGED account
          /\ UNCHANGED <<terms, passed, funded, slots, request, week, month>>
  /\ Done(p)

-----------------------------------------------------------------------------
(* Time, failures and the whole. *)

\* A deadline of s passes: 300s to launch, 900s to resume, the token an hour after
\* Start and hard expiry an hour after launch.
DeadlinePasses(s, d) ==
  /\ d \notin passed[s]
  /\ CASE d = "reservation" -> status[s] = "starting"
       [] d = "window"      -> status[s] = "disconnected"
       [] d = "token"       -> /\ Live(s)
                               /\ status[s] = "starting" => Lapsed(s)
       [] d = "hard"        -> /\ "token" \in passed[s]
                               /\ Live(s) /\ status[s] # "starting"
  /\ passed' = [passed EXCEPT ![s] = @ \cup {d}]
  /\ UNCHANGED <<status, funding, terms, grant, fundVars, envVars, work>>

NextWeek ==
  /\ week < MaxWeek
  /\ week' = week + 1
  /\ UNCHANGED <<rowVars, fundVars, account, entitled, month, work>>

NextMonth ==
  /\ month < MaxMonth
  /\ month' = month + 1
  /\ UNCHANGED <<rowVars, fundVars, account, entitled, week, work>>

\* A request dies (a crash, a timeout, a deadlock, a gate that refuses): its
\* transaction rolls back, the statements it committed on their own stay.
Abandon(p) ==
  /\ ~Busy(p, "idle")
  /\ Done(p)
  /\ UNCHANGED <<rowVars, fundVars, envVars>>

Init ==
  /\ status   = [s \in Sessions |-> "none"]
  /\ funding  = [s \in Sessions |-> "none"]
  /\ terms    = [s \in Sessions |-> NoTerms]
  /\ passed   = [s \in Sessions |-> {}]
  /\ grant    = [s \in Sessions |-> "none"]
  /\ batch    \in [Months -> {NoBatch, [NoBatch EXCEPT !.made = TRUE]}]
  /\ \A m \in Months \ {0} : batch[m] = NoBatch
  /\ funded   = [w \in Weeks |-> 0]
  /\ slots    = [w \in Weeks |-> 0]
  /\ request  = [k \in Keys |-> {}]
  /\ account  = "active"
  /\ entitled = TRUE
  /\ week = 1 /\ month = 1
  /\ work = [p \in Procs |-> Idle]

\* A request arrives and reads.
Read(p) ==
  \/ \E k \in Keys, s \in Sessions : StartRead(p, k, s)
  \/ \E s \in Sessions : \/ ConfirmRead(p, s)    \/ CancelRead(p, s)
                         \/ SweepStartsRead(p, s) \/ DisconnectRead(p, s)
                         \/ ResumeRead(p, s)     \/ FinalizeRead(p, s)
                         \/ MarkRead(p, s)       \/ SweepSessionsRead(p, s)
  \/ \E op \in Lifecycle : LifecycleRead(p, op)

\* A request carries on to its next commit.
Step(p) ==
  \/ StartCommit(p)      \/ ConfirmCommit(p)    \/ CancelCommit(p)
  \/ ReleaseReadBatch(p) \/ ReleaseDecrement(p) \/ ReleaseRow(p)  \/ Purge(p)
  \/ DisconnectCommit(p) \/ ResumeCommit(p)     \/ InterruptRow(p)
  \/ FinalizeCommit(p)   \/ MarkCommit(p)       \/ SweepSessionsCommit(p)
  \/ LifecycleCommit(p)

Environment ==
  \/ \E s \in Sessions : Exchange(s) \/ \E d \in Deadlines : DeadlinePasses(s, d)
  \/ EnsureAllocation \/ NextWeek \/ NextMonth

Next == (\E p \in Procs : Read(p) \/ Step(p) \/ Abandon(p)) \/ Environment

Spec == Init /\ [][Next]_vars

\* What the deployment guarantees: a request that arrived runs to its end or dies, the
\* clock advances, a learner who wants to learn keeps asking to start until one request
\* gets through, and the app of an open session keeps asking to resume it.  Nothing
\* schedules the sweeps.
Fairness ==
  /\ \A p \in Procs : WF_vars(Step(p)) /\ SF_vars(StartCommit(p))
  /\ \A s \in Sessions, d \in Deadlines : WF_vars(DeadlinePasses(s, d))
  /\ SF_vars(\E p \in Procs, k \in Keys, s \in Sessions : StartRead(p, k, s))
  /\ SF_vars(\E p \in Procs, s \in Sessions : ResumeRead(p, s))
FairSpec == Spec /\ Fairness

-----------------------------------------------------------------------------
(* Properties *)

\* Every column holds a value of its type, counters within the CHECKs of the schema.
TypeOK ==
  /\ status   \in [Sessions -> Statuses]
  /\ funding  \in [Sessions -> {"none", "reserved", "consumed", "released"}]
  /\ terms    \in [Sessions -> Terms]
  /\ passed   \in [Sessions -> SUBSET Deadlines]
  /\ grant    \in [Sessions -> {"none", "provisional", "active", "revoked"}]
  /\ batch    \in [Months -> Batch]
  /\ \A m \in Months : batch[m].reserved + batch[m].consumed <= Granted
  /\ funded   \in [Weeks -> Nat]
  /\ slots    \in [Weeks -> Nat]
  /\ request  \in [Keys -> SUBSET Sessions]
  /\ account  \in {"active", "deleted"}
  /\ entitled \in BOOLEAN
  /\ week \in Weeks /\ month \in Months \ {0}
  /\ work     \in [Procs -> Work]

\* The sessions that a batch, and a week, have paid for.
Spent(m)       == {s \in Sessions : funding[s] = "consumed" /\ FromBatch(s)
                                    /\ terms[s].month = m}
SpentInWeek(w) == {s \in Sessions : funding[s] = "consumed" /\ FromBatch(s)
                                    /\ terms[s].week = w}
Holding(m)     == {s \in Sessions : status[s] = "starting" /\ FromBatch(s)
                                    /\ terms[s].month = m}

\* A batch's consumed_count is exactly the number of sessions it paid for, whatever
\* confirmations, releases, retries and crashes interleaved.
ConsumedMatchesSessions ==
  \A m \in Months : batch[m].consumed = Cardinality(Spent(m))

\* So is the week's count, in the week the session was started, not confirmed.
WeekUsageMatchesSessions ==
  \A w \in Weeks : funded[w] = Cardinality(SpentInWeek(w))

\* Credits are never overdrawn: the sessions paid for and those still holding a
\* reservation fit in the batch even when reserved_count has drifted.
NeverOverdrawn ==
  \A m \in Months : Cardinality(Spent(m)) + Cardinality(Holding(m)) <= Granted

\* The absolute UPDATE of normal_sessions_started never loses a slot: the counter is
\* the number of normal sessions of the week, and stays within the limit.
NormalSlotsExact ==
  \A w \in Weeks :
    /\ slots[w] = Cardinality({s \in Sessions : /\ status[s] # "none"
                                                /\ terms[s].source = "normal"
                                                /\ terms[s].week = w})
    /\ ~Unlimited => slots[w] <= NormalLimit

\* A Start key creates at most one session, and no session without a key: retries,
\* simultaneous or late, never start twice.
OneSessionPerKey ==
  /\ \A k \in Keys : Cardinality(request[k]) <= 1
  /\ \A s \in Sessions : status[s] # "none" =>
       Cardinality({k \in Keys : s \in request[k]}) = 1

\* A session is paid for exactly when its launch was confirmed.
PaidIffLaunched ==
  \A s \in Sessions :
    funding[s] = "consumed" <=> status[s] \notin {"none", "starting", "cancelled_before_launch"}

\* The app gets the full scopes only for a session that was paid for (GAP-048/051).
FullScopesArePaid ==
  \A s \in Sessions : grant[s] = "active" => funding[s] = "consumed"

\* A reservation is consumed or released, once and for good, and a session cancelled
\* before launch never comes back.
FundingIsOneWay ==
  [][\A s \in Sessions :
       /\ funding[s] \in {"consumed", "released"} => funding'[s] = funding[s]
       /\ funding'[s] = "none" => funding[s] = "none"
       /\ status[s] = "cancelled_before_launch" => status'[s] = status[s]]_vars

\* A reservation that lapsed is gone in the end although nothing sweeps it, because the
\* learner's next Start releases it; unless no Start can be served any more (the
\* account, the entitlement, the credits or the instance's keys and ids are used up).
CanStart ==
  /\ account = "active" /\ entitled
  /\ \E k \in Keys : request[k] = {} /\ StartTerms(k, batch) # {}
  /\ \E s \in Sessions : status[s] = "none"
LapsedStartHeals ==
  \A s \in Sessions :
    status[s] = "starting" /\ Lapsed(s) ~> status[s] # "starting" \/ ~CanStart

\* The tables implement the ledger of credits that FundingLedger promises: what a
\* standard session's funding_state says is its credit.
Ledger == INSTANCE FundingLedger WITH
  Batches <- Months,
  credit  <- [s \in Sessions |->
               IF ~FromBatch(s) THEN "none"
               ELSE CASE funding[s] = "none"     -> "none"
                      [] funding[s] = "reserved" -> "held"
                      [] funding[s] = "consumed" -> "spent"
                      [] OTHER                   -> "returned"],
  from    <- [s \in Sessions |-> IF FromBatch(s) THEN {terms[s].month} ELSE {}]
ImplementsLedger == Ledger!Spec
=============================================================================
