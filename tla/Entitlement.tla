----------------------------- MODULE Entitlement -----------------------------
(****************************************************************************)
(* The effective entitlement of one learner to one app, and the ledger of    *)
(* lifecycle events (grace, refunds, chargebacks, security) that override    *)
(* the state its paid periods give it. PaidCycles has those periods.         *)
(*                                                                          *)
(* An event is recorded as pending in a statement of its own and applied in  *)
(* a transaction; a request that dies in between leaves it to the sweep and  *)
(* the repair, which replay it without looking at its version again.         *)
(****************************************************************************)
EXTENDS Integers, FiniteSets, SequencesExt

CONSTANTS
  Reports,     \* ids of events that billing reports itself
  Notices,     \* ids of the provider's dispute and chargeback events
  RefundCases, \* ids of refund cases
  Offered,     \* the kinds of events that arrive
  Procs,       \* processes that serve requests and run jobs
  MaxEvents    \* bound on the number of different events

\* An event's id names its source as well.
ASSUME EntitlementAssumption ==
  /\ MaxEvents \in Nat
  /\ Reports \cap Notices = {} /\ Reports \cap RefundCases = {} /\ Notices \cap RefundCases = {}

VARIABLES
  row,      \* learner_app_effective_entitlements: none, or its state and lifecycle_version
  ledger,   \* entitlement_lifecycle_events
  log,      \* entitlement_state_transitions: the events that changed the row, in order
  case,     \* the stored notice or refund case
  work,     \* the request each process serves
  calm,     \* no two requests have overlapped and none has died (history)
  decided,  \* the state last decided by an event or by the periods while calm (history)
  missed    \* events applied while there was no row (history)

history == <<calm, decided, missed>>
vars == <<row, ledger, log, case, work, history>>

------------------------------------------------------------------------------
Events == Reports \cup Notices \cup RefundCases

\* resolveTransitionEffect: the kinds that decide a state; the others are audit-only.
Decision == [refund |-> "inactive_refunded", chargeback |-> "suspended_financial",
             fraud |-> "suspended_security", reversal |-> "active",
             grace |-> "approved_grace", recovered |-> "active"]
AuditOnly == {"partial", "grace_expired"}
StateAfter(kind, state) == IF kind \in DOMAIN Decision THEN Decision[kind] ELSE state

Kinds    == (DOMAIN Decision \cup AuditOnly) \cap Offered
Disputes == Kinds \cap {"chargeback", "fraud", "reversal"}
Refunds  == Kinds \cap {"refund", "partial"}
Reported == Kinds \ (Disputes \cup Refunds)   \* by billing itself, with a version of its own

SourceOf(kind) == CASE kind \in Refunds    -> "billing_refund"
                    [] kind = "reversal"   -> "reconciliation"
                    [] kind \in Disputes   -> "billing_chargeback"
                    [] OTHER               -> "billing_grace"

States   == {"active", "inactive"} \cup {Decision[k] : k \in DOMAIN Decision}
Versions == Nat
Rows     == [state : States \cup {"none"}, version : Versions]
NoRow    == [state |-> "none", version |-> 0]
NoEvent  == [status |-> "none", kind |-> "none", version |-> 0]
NoCase   == [kind |-> "none", status |-> "none"]

Pending       == {e \in Events : ledger[e].status = "pending"}
OfSources(S)  == {e \in Events : ledger[e] # NoEvent /\ SourceOf(ledger[e].kind) \in S}
Newest(S)     == Max({0} \cup {ledger[e].version : e \in S})
LatestApplied(kind) == Newest({e \in OfSources({SourceOf(kind)}) : ledger[e].status = "applied"})

Work == [op : {"idle", "version", "decide", "quarantine", "record", "rebuild", "effect", "write",
               "finish", "settle", "refund", "confirm"},
         from : {"none", "report", "provider", "sweep", "repair"},
         id : SUBSET Events, kind : Kinds \cup {"none"}, version : Versions,
         rest : SUBSET Events, row : Rows]
Idle == [op |-> "idle", from |-> "none", id |-> {}, kind |-> "none", version |-> 0, rest |-> {},
         row |-> NoRow]

Busy(p, op) == work[p].op = op
IdOf(p) == CHOOSE e \in Events : e \in work[p].id
Goes(p, w) == work' = [work EXCEPT ![p] = w]
Arrive(p, w) ==
  /\ Busy(p, "idle")
  /\ Goes(p, w)
  /\ calm' = (calm /\ \A q \in Procs : Busy(q, "idle"))
  /\ decided' = IF calm' THEN decided ELSE "none"

Known == {e \in Events : ledger[e] # NoEvent \/ case[e] # NoCase \/ \E p \in Procs : e \in work[p].id}
Room(e) == Cardinality(Known \cup {e}) <= MaxEvents

Decides(state) == decided' = IF calm THEN state ELSE "none"

\* The events a request still has to apply; applyRecordedEvent takes one after the other.
ToApply(from, rest) == IF rest = {} THEN Idle
                       ELSE [Idle EXCEPT !.op = "effect", !.from = from, !.rest = rest]
GoesOn(p) == Goes(p, ToApply(work[p].from, work[p].rest \ work[p].id))

------------------------------------------------------------------------------
\* applyLifecycleEvent, reported by billing with the version of its own record.
Report(p, e, kind, v) ==
  /\ Room(e)
  /\ Arrive(p, [Idle EXCEPT !.op = "decide", !.from = "report", !.id = {e}, !.kind = kind,
                  !.version = v])
  /\ UNCHANGED <<row, ledger, log, case, missed>>

\* ingestFinancialEventWebhook: a repeated event is refused, whatever became of the first.
\* A reversal is only recorded.
Webhook(p, e, kind) ==
  /\ case[e] = NoCase /\ Room(e)
  /\ case' = [case EXCEPT ![e] = [kind |-> kind, status |-> "received"]]
  /\ Arrive(p, IF kind = "reversal" THEN Idle
               ELSE [Idle EXCEPT !.op = "version", !.from = "provider", !.id = {e}, !.kind = kind])
  /\ UNCHANGED <<row, ledger, log, missed>>

\* reconcileEntitlementLifecycle: a reversal restores only what a paid period still covers.
Reconcile(p, e, covered) ==
  /\ case[e] = [kind |-> "reversal", status |-> "received"]
  /\ IF covered
       THEN /\ Arrive(p, [Idle EXCEPT !.op = "version", !.from = "provider", !.id = {e},
                            !.kind = "reversal"])
            /\ UNCHANGED case
       ELSE /\ case' = [case EXCEPT ![e].status = "lapsed"]
            /\ Arrive(p, Idle)
  /\ UNCHANGED <<row, ledger, log, missed>>

\* Both take the version after the newest recorded one.
Numbered(kind) == IF kind = "reversal" THEN {"billing_chargeback", "reconciliation"}
                                       ELSE {"billing_chargeback"}
NextVersion(p) ==
  /\ Busy(p, "version")
  /\ Goes(p, [work[p] EXCEPT !.op = "decide",
                !.version = Newest(OfSources(Numbered(work[p].kind))) + 1])
  /\ UNCHANGED <<row, ledger, log, case, history>>

\* A known event is replayed if it is the same; a new one is compared with the newest applied.
NeverStale(kind, v) == FALSE
IsStale(kind, v)    == v < LatestApplied(kind)
Conflicts(kind, v)  == v = LatestApplied(kind)
IsRepeat(p, e)      == ledger[e].kind = work[p].kind /\ ledger[e].version = work[p].version
Decide(p) ==
  LET e == IdOf(p)
  IN  /\ Busy(p, "decide")
      /\ Goes(p, IF ledger[e] # NoEvent
                 THEN IF IsRepeat(p, e) /\ ledger[e].status = "pending"
                      THEN ToApply(work[p].from, {e}) ELSE Idle
                 ELSE IF IsStale(work[p].kind, work[p].version) THEN Idle
                 ELSE [work[p] EXCEPT !.op = IF Conflicts(work[p].kind, work[p].version)
                                             THEN "quarantine" ELSE "record"])
      /\ UNCHANGED <<row, ledger, log, case, history>>

\* The INSERT commits alone; unique(source, event_id) refuses the second of two.
Record(p) ==
  LET e == IdOf(p)
      status == IF Busy(p, "record") THEN "pending" ELSE "quarantined"
  IN  /\ Busy(p, "record") \/ Busy(p, "quarantine")
      /\ IF ledger[e] # NoEvent
           THEN Goes(p, Idle) /\ UNCHANGED ledger
           ELSE /\ ledger' = [ledger EXCEPT ![e] =
                     [status |-> status, kind |-> work[p].kind, version |-> work[p].version]]
                /\ Goes(p, IF status = "pending" THEN ToApply(work[p].from, {e}) ELSE Idle)
      /\ UNCHANGED <<row, log, case, history>>

------------------------------------------------------------------------------
\* sweepDueLifecycleTransitions replays what is pending.
Sweep(p) ==
  /\ Pending # {}
  /\ Arrive(p, ToApply("sweep", Pending))
  /\ UNCHANGED <<row, ledger, log, case, missed>>

\* recomputeEffectiveEntitlement, for a new paid cycle or by reconcileLearnerApp: it reads the
\* periods, which cover the present or do not, and writes that over whatever the state was.
RebuildRead(p, covered) ==
  /\ Arrive(p, [Idle EXCEPT !.op = "rebuild",
                  !.row.state = IF covered THEN "active" ELSE "inactive"])
  /\ UNCHANGED <<row, ledger, log, case, missed>>

Overwrites(state) == row' = [row EXCEPT !.state = state]
RebuildCommit(p) ==
  /\ Busy(p, "rebuild")
  /\ Overwrites(work[p].row.state)
  /\ Decides(work[p].row.state)
  /\ \/ Goes(p, Idle)                          \* the end of applyPaidCycle's transaction, or
     \/ Goes(p, ToApply("repair", Pending))    \* reconcileLearnerApp goes on to replay
  /\ UNCHANGED <<ledger, log, case, calm, missed>>

\* applyRecordedEvent: its transaction reads the row and the log, ... The repair looks first
\* whether the event is still pending; the sweep does not.
Skips(p, e) == work[p].from = "repair" /\ ledger[e].status # "pending"
EffectRead(p) ==
  /\ Busy(p, "effect")
  /\ \E e \in work[p].rest :
       IF Skips(p, e)
         THEN Goes(p, ToApply("repair", work[p].rest \ {e})) /\ UNCHANGED missed
         ELSE IF row = NoRow \/ Contains(log, e)
           THEN /\ Goes(p, [work[p] EXCEPT !.id = {e}, !.op = "finish"])
                /\ missed' = IF row = NoRow THEN missed \cup {e} ELSE missed
           ELSE /\ Goes(p, [work[p] EXCEPT !.id = {e}, !.op = "write", !.row = row])
                /\ UNCHANGED missed
  /\ UNCHANGED <<row, ledger, log, case, calm, decided>>

\* ... and writes the state it computed from that; the unique pair of row and event rolls
\* back the second of two. A sweep goes on to its next event.
AnyEvent(e) == TRUE
Unlogged(e) == ~Contains(log, e)
WrittenByKind(kind, read) == [state |-> kind, version |-> read.version + 1]
Written(kind, read) == [state |-> StateAfter(kind, read.state), version |-> read.version + 1]
EffectWrite(p) ==
  LET e == IdOf(p)
      kind == ledger[e].kind
  IN  /\ Busy(p, "write")
      /\ IF Unlogged(e)
           THEN /\ row' = Written(kind, work[p].row)
                /\ log' = Append(log, e)
                /\ Decides(StateAfter(kind, decided))
                /\ Goes(p, [work[p] EXCEPT !.op = "finish", !.row = NoRow])
           ELSE GoesOn(p) /\ UNCHANGED <<row, log, decided>>
      /\ UNCHANGED <<ledger, case, calm, missed>>

Marked(entry) == [entry EXCEPT !.status = "applied"]

\* The event is marked applied after the transaction, and then the notice as processed.
Finish(p) ==
  LET e == IdOf(p)
  IN  /\ Busy(p, "finish")
      /\ ledger' = [ledger EXCEPT ![e] = Marked(@)]
      /\ IF work[p].from = "provider" THEN Goes(p, [work[p] EXCEPT !.op = "settle"]) ELSE GoesOn(p)
      /\ UNCHANGED <<row, log, case, history>>

Settle(p) ==
  /\ Busy(p, "settle")
  /\ case' = [case EXCEPT ![IdOf(p)].status = "processed"]
  /\ Goes(p, Idle)
  /\ UNCHANGED <<row, ledger, log, history>>

------------------------------------------------------------------------------
\* createRefundCase, and confirmProviderRefund: the provider pays first, then one transaction
\* confirms the case, records its event under version 2 and applies it.
OpenRefund(p, e, kind) ==
  /\ Busy(p, "idle")
  /\ case[e] = NoCase /\ Room(e)
  /\ case' = [case EXCEPT ![e] = [kind |-> kind, status |-> "unconfirmed"]]
  /\ UNCHANGED <<row, ledger, log, work, history>>

RefundPay(p, e) ==
  /\ case[e].status = "unconfirmed"
  /\ Arrive(p, [Idle EXCEPT !.op = "refund", !.id = {e}, !.kind = case[e].kind])
  /\ UNCHANGED <<row, ledger, log, case, missed>>

RefundRead(p) ==
  /\ Busy(p, "refund")
  /\ Goes(p, [work[p] EXCEPT !.op = "confirm", !.row = row])
  /\ UNCHANGED <<row, ledger, log, case, history>>

RefundVersion == 2
Confirmed(c) == [c EXCEPT !.status = "confirmed"]
RefundRefused(e, kind) == case[e].status # "unconfirmed" \/ Conflicts(kind, RefundVersion)
RefundCommit(p) ==
  LET e == IdOf(p)
      kind == work[p].kind
  IN  /\ Busy(p, "confirm")
      /\ IF RefundRefused(e, kind)
           THEN UNCHANGED <<case, ledger, row, log, decided, missed>>
           ELSE /\ case' = [case EXCEPT ![e] = Confirmed(@)]
                /\ ledger' = [ledger EXCEPT ![e] =
                     [status |-> "applied", kind |-> kind, version |-> RefundVersion]]
                /\ IF work[p].row = NoRow
                     THEN missed' = missed \cup {e} /\ UNCHANGED <<row, log, decided>>
                     ELSE /\ row' = Written(kind, work[p].row)
                          /\ log' = Append(log, e)
                          /\ Decides(StateAfter(kind, decided))
                          /\ UNCHANGED missed
      /\ Goes(p, Idle)
      /\ UNCHANGED calm

\* A request dies, or its answer is an error of the database.
Abandon(p) ==
  /\ ~Busy(p, "idle")
  /\ Goes(p, Idle)
  /\ calm' = FALSE /\ decided' = "none"
  /\ UNCHANGED <<row, ledger, log, case, missed>>

Init ==
  /\ row = NoRow
  /\ ledger = [e \in Events |-> NoEvent]
  /\ log = << >>
  /\ case = [e \in Events |-> NoCase]
  /\ work = [p \in Procs |-> Idle]
  /\ calm = TRUE /\ decided = "none" /\ missed = {}

Next == \E p \in Procs :
  \/ \E e \in Reports, kind \in Reported, v \in 1 .. 2 : Report(p, e, kind, v)
  \/ \E e \in Notices, kind \in Disputes : Webhook(p, e, kind)
  \/ \E e \in Notices, covered \in BOOLEAN : Reconcile(p, e, covered)
  \/ NextVersion(p) \/ Decide(p) \/ Record(p)
  \/ Sweep(p)
  \/ \E covered \in BOOLEAN : RebuildRead(p, covered)
  \/ RebuildCommit(p)
  \/ EffectRead(p) \/ EffectWrite(p) \/ Finish(p) \/ Settle(p)
  \/ \E e \in RefundCases, kind \in Refunds : OpenRefund(p, e, kind)
  \/ \E e \in RefundCases : RefundPay(p, e)
  \/ RefundRead(p) \/ RefundCommit(p)
  \/ Abandon(p)

Spec == Init /\ [][Next]_vars

------------------------------------------------------------------------------
\* Every column keeps its type, and the case of an event says what its ledger entry says.
TypeOK ==
  /\ row \in Rows
  /\ ledger \in [Events -> [status : {"none", "pending", "applied", "quarantined"},
                            kind : Kinds \cup {"none"}, version : Versions]]
  /\ log \in Seq(Events)
  /\ case \in [Events -> [kind : Kinds \cup {"none"},
                          status : {"none", "received", "processed", "lapsed",
                                    "unconfirmed", "confirmed"}]]
  /\ \A e \in Events : NoCase # case[e] /\ NoEvent # ledger[e] => case[e].kind = ledger[e].kind
  /\ work \in [Procs -> Work]

\* However many of the caller's retries, sweeps and repairs replay an event, it changes the row
\* once, and what is marked as done was done: no event is marked applied whose transaction did not
\* commit, no notice processed without its event, and a refund case is confirmed exactly when the
\* event that takes its access away is applied.
EffectsHappenOnce ==
  /\ IsInjective(log)
  /\ \A e \in Events : ledger[e].status = "applied" => Contains(log, e) \/ e \in missed
  /\ \A e \in Events : case[e].status = "processed" => ledger[e].status = "applied"
  /\ \A e \in Events : case[e].kind \in Refunds =>
       (case[e].status = "confirmed" <=> ledger[e].status = "applied")

\* While no request overlaps another and none dies, the events of one source change the row in
\* the order of their versions, so that an older decision never overrides a newer one; the row
\* says what was last decided, by an event or by the periods, and its lifecycle_version counts
\* the transitions: an audit-only event leaves the state alone.
NewestDecisionStands ==
  calm =>
    /\ row.state = decided /\ row.version = Len(log)
    /\ \A i, j \in DOMAIN log :
         i < j /\ SourceOf(ledger[log[i]].kind) = SourceOf(ledger[log[j]].kind)
           => ledger[log[i]].version < ledger[log[j]].version
==============================================================================
