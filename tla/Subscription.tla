---------------------------- MODULE Subscription ----------------------------
(****************************************************************************)
(* One subscription from its checkout on: payment events of the provider,    *)
(* renewal, the week of grace after a failed renewal, the parent's           *)
(* cancellation and its reversal, and the lazy cutoffs.                      *)
(*                                                                          *)
(* The provider delivers events late, out of order and more than once.       *)
(* Every handler reads the subscription before its transaction; cancel,      *)
(* disable and resume compare `version` when they write, renewal compares    *)
(* the boundary it extends, and a failed payment compares next to nothing.   *)
(****************************************************************************)
EXTENDS Integers, FiniteSets, FiniteSetsExt

CONSTANTS
  Events,        \* ids of provider events; an event's payment has the same id
  Procs,         \* processes that serve requests
  Period,        \* length of a billing interval
  Grace,         \* BILLING_GRACE_DURATION_MS
  CheckoutEnds,  \* expires_at of the checkout intent
  MaxTime,       \* bound on the clock
  MaxVersion     \* bound on the version from which the parent still asks

ASSUME SubscriptionAssumption ==
  /\ Period \in Nat \ {0} /\ Grace \in Nat \ {0}
  /\ IsFiniteSet(Events)
  /\ CheckoutEnds \in Nat /\ MaxTime \in Nat /\ MaxVersion \in Nat

VARIABLES
  sub,         \* the row of subscriptions
  intent,      \* the checkout intent: its status, and auto_renew_enabled
  periods,     \* billing_periods: what was paid for
  sent,        \* what each provider event says
  receipt,     \* payment_provider_events.status of each event
  now,         \* the clock
  overlapped,  \* a request has arrived while another was served (history)
  work         \* the request each process serves

vars == <<sub, intent, periods, sent, receipt, now, overlapped, work>>

Unset == -1
Times == 0 .. (MaxTime + (Cardinality(Events) + 1) * Period + Grace)

Row == [status : {"pending_payment", "active", "past_due", "cancelled", "expired"},
        pay : {"pending", "paid", "renewal_failed", "past_due_grace", "inactive_nonpayment",
               "failed", "overlap_resolution_required"},
        renews : BOOLEAN,          \* auto_renew_enabled
        cancelling : BOOLEAN,      \* cancel_at_period_end
        effective : Times \cup {Unset},    \* cancellation_effective_at
        cancelled : BOOLEAN,       \* cancelled_at is set
        ends : Times,              \* current_period_end
        graceEnds : Times \cup {Unset},
        version : Nat]

InitialKinds == {"initial", "initial_failed"}
SettledRenewals == {"renewal", "recovery"}
Message == [kind : InitialKinds \cup SettledRenewals \cup {"failed"}, pay : Events, settled : 0 .. MaxTime]
NotSent == [kind |-> "none"]

Ops  == {"idle", "reject", "ignore", "activate", "overlap", "fail_initial", "renew", "fail_renewal",
         "cancel", "disable", "resume"}
Work == [op : Ops, event : SUBSET Events, row : Row, at : 0 .. MaxTime]

NewRow == [status |-> "pending_payment", pay |-> "pending", renews |-> FALSE, cancelling |-> FALSE,
           effective |-> Unset, cancelled |-> FALSE, ends |-> 0, graceEnds |-> Unset, version |-> 1]
Idle   == [op |-> "idle", event |-> {}, row |-> NewRow, at |-> 0]

Busy(p, op) == work[p].op = op
Done(p)     == work' = [work EXCEPT ![p] = Idle]
EventOf(p)  == CHOOSE e \in Events : e \in work[p].event

\* What of the row and the clock the rest of the request still uses.
Remembered(op, of) ==
  IF op \in {"renew", "fail_renewal", "cancel", "disable", "resume"}
    THEN [op |-> op, event |-> of, row |-> sub, at |-> now]
    ELSE [Idle EXCEPT !.op = op, !.event = of]

\* A request whose checks passed goes on to its transaction.
Arrive(p, op, of) ==
  /\ Busy(p, "idle")
  /\ work' = [work EXCEPT ![p] = Remembered(op, of)]
  /\ overlapped' = (overlapped \/ \E q \in Procs : ~Busy(q, "idle"))

\* Every UPDATE of the row raises its version.
Update(row) == sub' = [row EXCEPT !.version = @ + 1]

Mark(p, status) ==
  /\ receipt' = [receipt EXCEPT ![EventOf(p)] = status]
  /\ Done(p)

-----------------------------------------------------------------------------
(* The arrival of an event: processVerifiedPaymentEvent writes a receipt     *)
(* once, and what it does is decided on the rows as they are now.            *)

\* What an event can say: a payment of its own that was made by now, at most one of which
\* settles the checkout and at most one of which fails it; or a settled renewal, told again.
\* When a failure was attempted is stored and shown, and decides nothing.
Sendable(e) ==
  { m \in Message : /\ m.pay = e /\ m.settled <= now /\ (m.kind = "failed" => m.settled = 0)
                    /\ m.kind \in InitialKinds => \A d \in Events : sent[d].kind # m.kind }
  \cup { [sent[d] EXCEPT !.kind = kind] : kind \in SettledRenewals,
           d \in { d \in Events : sent[d].kind \in SettledRenewals } }

CheckoutIsOpen(m) ==
  /\ sub.status = "pending_payment"
  /\ intent.status = "pending_provider"
  /\ m.settled <= CheckoutEnds

Recovering(m) == sub.pay \in {"past_due_grace", "inactive_nonpayment"} \/ m.kind = "recovery"
InTime(m)     == sub.graceEnds # Unset /\ m.settled <= sub.graceEnds
Renewing      == sub.status = "active" /\ sub.renews /\ ~sub.cancelling

Plan(m, op) ==
  \/ /\ m.kind \in InitialKinds
     /\ \/ ~CheckoutIsOpen(m) /\ op = "reject"
        \/ CheckoutIsOpen(m) /\ m.kind = "initial_failed" /\ op = "fail_initial"
        \* "overlap" when another subscription of the learner covers the product
        \/ CheckoutIsOpen(m) /\ m.kind = "initial" /\ op \in {"activate", "overlap"}
  \/ m.kind = "failed" /\ op = "fail_renewal"
  \/ /\ m.kind \in SettledRenewals
     /\ \/ Recovering(m) /\ InTime(m) /\ op = "renew"
        \/ Recovering(m) /\ ~InTime(m) /\ op = "reject"
        \/ ~Recovering(m) /\ Renewing /\ op = "renew"
        \/ ~Recovering(m) /\ ~Renewing /\ op = "ignore"

Unanswered(e) == receipt[e] \in {"none", "received"}

Deliver(p, e) ==
  /\ Unanswered(e)
  /\ \E m \in (IF receipt[e] = "none" THEN Sendable(e) ELSE {sent[e]}) :
       /\ sent' = [sent EXCEPT ![e] = m]
       /\ \E op \in Ops : Plan(m, op) /\ Arrive(p, op, {e})
  /\ receipt' = [receipt EXCEPT ![e] = "received"]
  /\ UNCHANGED <<sub, intent, periods, now>>

\* markProviderEventRejected, and the result of a renewal that is ignored.
Answer(p) ==
  /\ \/ Busy(p, "reject") /\ Mark(p, "rejected")
     \/ Busy(p, "ignore") /\ Mark(p, "processed")
  /\ UNCHANGED <<sub, intent, periods, sent, now, overlapped>>

-----------------------------------------------------------------------------
(* activateInitialPayment *)

\* The two UNIQUE constraints of billing_periods; a refusal is not a billing error, so the
\* request throws and the receipt stays as it is (Abandon).
AnyPeriod(q) == q.from <= q.to

Insertable(q) ==
  \A r \in periods : r.pay # q.pay /\ ~(r.from = q.from /\ r.to = q.to)

PaidPeriod(m, from) == [pay |-> m.pay, from |-> from, to |-> from + Period]

\* The UPDATE names status 'pending_payment', and nobody asks whether it found the row.
Activated(q) ==
  IF sub.status = "pending_payment"
    THEN Update([sub EXCEPT !.status = "active", !.pay = "paid", !.renews = intent.renews,
                            !.cancelling = FALSE, !.ends = q.to])
    ELSE UNCHANGED sub

Activate(p) ==
  LET m == sent[EventOf(p)]
      q == PaidPeriod(m, m.settled)
  IN /\ Busy(p, "activate")
     /\ Insertable(q)
     /\ periods' = periods \cup {q}
     /\ Activated(q)
     /\ intent' = [intent EXCEPT !.status = "activated"]
     /\ Mark(p, "processed")
     /\ UNCHANGED <<sent, now, overlapped>>

FailInitial(p) ==
  /\ Busy(p, "fail_initial")
  /\ Update([sub EXCEPT !.status = "cancelled", !.pay = "failed"])
  /\ intent' = [intent EXCEPT !.status = "payment_failed"]
  /\ Mark(p, "processed")
  /\ UNCHANGED <<periods, sent, now, overlapped>>

Overlap(p) ==
  /\ Busy(p, "overlap")
  /\ Update([sub EXCEPT !.pay = "overlap_resolution_required"])
  /\ Mark(p, "processed")
  /\ UNCHANGED <<intent, periods, sent, now, overlapped>>

-----------------------------------------------------------------------------
(* applyRenewal and applyFailedRenewal *)

\* The condition of the UPDATE: the boundary that was read is still the boundary.
StillAt(boundary) ==
  /\ sub.ends = boundary
  /\ sub.pay \in {"paid", "renewal_failed", "past_due_grace", "inactive_nonpayment"}

RenewedFromToday(to) ==
  Update([sub EXCEPT !.status = "active", !.pay = "paid", !.ends = now + Period, !.graceEnds = Unset])

\* cancel_at_period_end and cancellation_effective_at are left as they are.
Renewed(to) ==
  Update([sub EXCEPT !.status = "active", !.pay = "paid", !.ends = to, !.graceEnds = Unset])

Renew(p) ==
  LET q == PaidPeriod(sent[EventOf(p)], work[p].row.ends)
  IN /\ Busy(p, "renew")
     /\ Insertable(q)
     /\ IF StillAt(q.from)
          THEN Renewed(q.to) /\ periods' = periods \cup {q} /\ Mark(p, "processed")
          ELSE UNCHANGED <<sub, periods>> /\ Mark(p, "rejected")
     /\ UNCHANGED <<intent, sent, now, overlapped>>

Eligible(row) == row.renews /\ ~row.cancelling /\ row.status \in {"active", "past_due"}

AnyRow == sub.version > 0

\* A row that is in grace already keeps its deadline.
MayEnterGrace == sub.pay # "past_due_grace"

GraceFrom(row) ==
  Update([sub EXCEPT !.status = "past_due", !.pay = "past_due_grace", !.graceEnds = row.ends + Grace])

FailRenewal(p) ==
  LET row == work[p].row
      wasInGrace == row.pay = "past_due_grace" /\ row.graceEnds # Unset
  IN /\ Busy(p, "fail_renewal")
     /\ CASE wasInGrace -> UNCHANGED sub
          [] ~wasInGrace /\ (~Eligible(row) \/ work[p].at < row.ends) ->
               Update([sub EXCEPT !.pay = "renewal_failed"])
          [] OTHER -> IF MayEnterGrace THEN GraceFrom(row) ELSE UNCHANGED sub
     /\ Mark(p, "processed")
     /\ UNCHANGED <<intent, periods, sent, now, overlapped>>

-----------------------------------------------------------------------------
(* The parent: cancel at period end, turn auto-renewal off, resume it. *)

ParentAsks(p, op) ==
  /\ sub.version <= MaxVersion
  /\ Arrive(p, op, {})
  /\ UNCHANGED <<sub, intent, periods, sent, receipt, now>>

CancelRead(p) ==
  /\ ~sub.cancelling
  /\ sub.status = "active" /\ sub.pay = "paid"
  /\ now < sub.ends
  /\ ParentAsks(p, "cancel")

DisableRead(p) ==
  /\ sub.status \in {"active", "past_due"}
  /\ sub.renews
  /\ ParentAsks(p, "disable")

ResumeRead(p) ==
  /\ sub.cancelling
  /\ now < sub.ends
  /\ ParentAsks(p, "resume")

AnyVersion(p) == p \in Procs

SameVersion(p) == sub.version = work[p].row.version

EndingSomeTime ==
  [sub EXCEPT !.renews = FALSE, !.cancelling = TRUE]

EndingAtPeriodEnd ==
  [sub EXCEPT !.renews = FALSE, !.cancelling = TRUE, !.effective = sub.ends]

ScheduleEnd(p) ==
  /\ \/ Busy(p, "cancel") /\ ~sub.cancelling
     \/ Busy(p, "disable") /\ sub.renews
  /\ SameVersion(p)
  /\ Update(EndingAtPeriodEnd)
  /\ Done(p)
  /\ UNCHANGED <<intent, periods, sent, receipt, now, overlapped>>

Resume(p) ==
  /\ Busy(p, "resume")
  /\ SameVersion(p)
  /\ sub.cancelling
  /\ work[p].at < sub.ends
  /\ Update([sub EXCEPT !.renews = TRUE, !.cancelling = FALSE, !.effective = Unset])
  /\ Done(p)
  /\ UNCHANGED <<intent, periods, sent, receipt, now, overlapped>>

-----------------------------------------------------------------------------
(* The cutoffs, which accesses, billing pages, a late resume and the sweep    *)
(* make when they find them due.  Each reads and writes in one transaction.   *)

CancellationIsDue ==
  /\ sub.cancelling /\ sub.effective # Unset /\ sub.effective <= now
  /\ sub.status \in {"active", "past_due"}

ExpireCancellation ==
  /\ CancellationIsDue
  /\ Update([sub EXCEPT !.status = "cancelled", !.renews = FALSE, !.cancelled = TRUE])
  /\ UNCHANGED <<intent, periods, sent, receipt, now, overlapped, work>>

InGrace == sub.pay = "past_due_grace" /\ sub.graceEnds # Unset

GraceIsOver == sub.pay = "past_due_grace" /\ sub.graceEnds # Unset /\ sub.graceEnds <= now

ExpireGrace ==
  /\ GraceIsOver
  /\ Update([sub EXCEPT !.status = "expired", !.pay = "inactive_nonpayment"])
  /\ UNCHANGED <<intent, periods, sent, receipt, now, overlapped, work>>

Tick ==
  /\ now < MaxTime
  /\ now' = now + 1
  /\ UNCHANGED <<sub, intent, periods, sent, receipt, overlapped, work>>

\* A request throws, loses or dies.
Abandon(p) ==
  /\ ~Busy(p, "idle")
  /\ Done(p)
  /\ UNCHANGED <<sub, intent, periods, sent, receipt, now, overlapped>>

-----------------------------------------------------------------------------

\* createCheckoutIntent
Init ==
  /\ intent \in [status : {"pending_provider"}, renews : BOOLEAN]
  /\ sub = [NewRow EXCEPT !.renews = intent.renews]
  /\ periods = {}
  /\ sent = [e \in Events |-> NotSent]
  /\ receipt = [e \in Events |-> "none"]
  /\ now = 0
  /\ overlapped = FALSE
  /\ work = [p \in Procs |-> Idle]

Next ==
  \/ \E p \in Procs :
       \/ \E e \in Events : Deliver(p, e)
       \/ Answer(p) \/ Activate(p) \/ FailInitial(p) \/ Overlap(p) \/ Renew(p) \/ FailRenewal(p)
       \/ CancelRead(p) \/ DisableRead(p) \/ ResumeRead(p) \/ ScheduleEnd(p) \/ Resume(p)
       \/ Abandon(p)
  \/ ExpireCancellation \/ ExpireGrace \/ Tick

Spec == Init /\ [][Next]_vars

-----------------------------------------------------------------------------
(* The row, the receipts and what requests remember have the shape of their tables; a
   subscription that ends at the period end says when. *)
TypeOK ==
  /\ sub \in Row
  /\ sub.cancelling => sub.effective # Unset
  /\ intent \in [status : {"pending_provider", "payment_failed", "activated"}, renews : BOOLEAN]
  /\ \A q \in periods : q.pay \in Events /\ q.from \in Times /\ q.to = q.from + Period
  /\ \A e \in Events : sent[e] \in Message \cup {NotSent}
  /\ receipt \in [Events -> {"none", "received", "processed", "rejected"}]
  /\ now \in 0 .. MaxTime /\ overlapped \in BOOLEAN
  /\ work \in [Procs -> Work]

(* A payment buys one period, under however many events it is reported and however
   their deliveries overlap; and no two periods that were paid for share time, so
   nobody pays twice for a day. *)
PaymentsBuyDistinctTime ==
  \A q, r \in periods : q # r => q.pay # r.pay /\ (q.to <= r.from \/ r.to <= q.from)

(* Within a grace, its deadline never moves: not by further failed retries, by a
   cancellation, or by a failure that was read before an earlier recovery. *)
GraceKeepsItsDeadline ==
  [][sub.pay = "past_due_grace" /\ sub'.pay = "past_due_grace" => sub'.graceEnds = sub.graceEnds]_vars

(* A reversal never undoes, unseen, a cutoff that was made while it was under way: when a
   cancelled subscription is told to renew, the request had read it as cancelled. *)
NoCutoffIsUndone ==
  [][(sub.status = "cancelled" /\ ~sub.renews /\ sub'.renews)
       => \E p \in Procs : Busy(p, "resume") /\ work[p].row.status = "cancelled"]_vars

(* Requests that follow each other, whatever the order of the events, keep the row at the
   end of the last period that was paid for. *)
RowFollowsLedger ==
  ~overlapped /\ periods # {} => sub.ends = Max({q.to : q \in periods})

(* Requests that follow each other never close a subscription for nonpayment before the
   time that was paid for, and its grace, are over. *)
UnpaidOnlyAfterGrace ==
  ~overlapped /\ sub.pay = "inactive_nonpayment" => \A q \in periods : q.to + Grace <= now

-----------------------------------------------------------------------------
(* What the tests say of the program and the code does not keep. *)

(* Cancellation ends a subscription at the end of paid time: requests that follow each
   other leave no paid period to one that was ended by cancellation. *)
CancelledAfterPaidTime ==
  ~overlapped /\ sub.status = "cancelled" /\ sub.cancelled => \A q \in periods : q.to <= now
=============================================================================
