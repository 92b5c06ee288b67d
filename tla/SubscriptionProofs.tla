------------------------- MODULE SubscriptionProofs -------------------------
(* What Subscription promises, for every number of events and processes, every *)
(* interval and every grace.                                                   *)
EXTENDS Subscription, FiniteSetTheorems, TLAPS

\* The shapes of the rows, with times that nothing bounds.
RowType == [status : {"pending_payment", "active", "past_due", "cancelled", "expired"},
            pay : {"pending", "paid", "renewal_failed", "past_due_grace", "inactive_nonpayment",
                   "failed", "overlap_resolution_required"},
            renews : BOOLEAN, cancelling : BOOLEAN, effective : Int, cancelled : BOOLEAN,
            ends : Int, graceEnds : Int, version : Nat]
Intents    == [status : {"pending_provider", "payment_failed", "activated"}, renews : BOOLEAN]
PeriodType == {q \in [pay : Events, from : Int, to : Int] : q.to = q.from + Period}
WorkType   == [op : Ops, event : SUBSET Events, row : RowType, at : 0 .. MaxTime]
Statuses   == {"none", "received", "processed", "rejected"}

Shapes ==
  /\ sub \in RowType /\ intent \in Intents /\ periods \subseteq PeriodType
  /\ sent \in [Events -> Message \cup {NotSent}] /\ receipt \in [Events -> Statuses]
  /\ now \in 0 .. MaxTime /\ overlapped \in BOOLEAN
  /\ work \in [Procs -> WorkType]

\* An event has a receipt once it was sent, and one event settles the checkout.
Told ==
  /\ \A e \in Events : receipt[e] = "none" <=> sent[e].kind = "none"
  /\ \A d, e \in Events : sent[d].kind = "initial" /\ sent[e].kind = "initial" => d = e

\* What a request serves was sent.
EventOps == Ops \ {"idle", "cancel", "disable", "resume"}
Serves(w, e) == w.event = {e} /\ receipt[e] # "none" /\ (w.op = "activate" => sent[e].kind = "initial")
Served == \A p \in Procs : work[p].op \in EventOps => \E e \in Events : Serves(work[p], e)

\* The version names the row: what was read at the version of now is the row of now.
ParentOps == {"cancel", "disable", "resume"}
VersionNamesRow ==
  \A p \in Procs : work[p].op \in ParentOps =>
    work[p].row.version <= sub.version /\ (work[p].row.version = sub.version => work[p].row = sub)

\* Until it is activated, nothing can renew the subscription or put it in grace; it may have
\* been paid for and cancelled at once.  From then on every paid period ends by its boundary.
Unopened(row) == row.status \in {"pending_payment", "cancelled"}
Opening(q) == \E e \in Events : sent[e].kind = "initial" /\ sent[e].pay = q.pay
Fresh ==
  /\ Unopened(sub) /\ sub.pay \notin {"past_due_grace", "inactive_nonpayment"} /\ sub.graceEnds = Unset
  /\ \A p \in Procs : work[p].op # "renew" /\ (work[p].op = "fail_renewal" => Unopened(work[p].row))
  /\ sub.status = "pending_payment" => periods = {}
  /\ \A q, r \in periods : q = r
  /\ \A q \in periods : Opening(q)
Opened ==
  /\ sub.status # "pending_payment"
  /\ \E q \in periods : Opening(q)
  /\ \A q \in periods : q.to <= sub.ends

\* Requests that follow each other: one at a time, and what it read is the row but for a cutoff.
OneAtATime == \A p, q \in Procs : ~Busy(p, "idle") /\ ~Busy(q, "idle") => p = q
ReadsNow == \A p \in Procs : /\ Busy(p, "activate") => sub.status = "pending_payment"
                             /\ Busy(p, "fail_renewal") => work[p].row.ends = sub.ends
EndsAtBoundary ==
  periods = {} \/ (/\ sub.status # "pending_payment"
                   /\ \E q \in periods : q.to = sub.ends
                   /\ \A q \in periods : q.to <= sub.ends)
GraceFollowsBoundary ==
  /\ sub.pay = "past_due_grace" => sub.graceEnds = sub.ends + Grace
  /\ sub.pay = "inactive_nonpayment" => sub.ends + Grace <= now
InTurn == ~overlapped => OneAtATime /\ ReadsNow /\ EndsAtBoundary /\ GraceFollowsBoundary

IInv == Shapes /\ Told /\ Served /\ VersionNamesRow /\ (Fresh \/ Opened)
          /\ PaymentsBuyDistinctTime /\ InTurn

\* What a step does to the row besides keeping IInv.
GraceKept == sub.pay = "past_due_grace" /\ sub'.pay = "past_due_grace" => sub'.graceEnds = sub.graceEnds
Reversal ==
  sub.status = "cancelled" /\ ~sub.renews /\ sub'.renews
    => \E p \in Procs : Busy(p, "resume") /\ work[p].row.status = "cancelled"
Kept == IInv' /\ GraceKept /\ Reversal

-----------------------------------------------------------------------------
(* What rows, requests and receipts become. *)

LEMMA IdleShape == Idle \in WorkType /\ Idle.op = "idle"
BY SubscriptionAssumption DEF Idle, NewRow, WorkType, RowType, Ops, Unset

LEMMA UpdateMakes ==
  ASSUME NEW row \in RowType, Update(row)
  PROVE  /\ sub' \in RowType /\ sub'.version = row.version + 1
         /\ sub'.status = row.status /\ sub'.pay = row.pay /\ sub'.renews = row.renews
         /\ sub'.ends = row.ends /\ sub'.graceEnds = row.graceEnds
BY DEF Update, RowType

LEMMA Finishes ==
  ASSUME IInv, NEW p \in Procs, ~Busy(p, "idle"), Done(p)
  PROVE  /\ work' \in [Procs -> WorkType]
         /\ \A q \in Procs : work'[q] = work[q] \/ work'[q].op = "idle"
         /\ ~overlapped => \A q \in Procs : work'[q].op = "idle"
<1>1. work \in [Procs -> WorkType] /\ work' = [work EXCEPT ![p] = Idle]
  BY DEF IInv, Shapes, Done
<1>2. work' \in [Procs -> WorkType] /\ \A q \in Procs : work'[q] = IF q = p THEN Idle ELSE work[q]
  BY <1>1, IdleShape
<1>3. ~overlapped => \A q \in Procs : q # p => work[q].op = "idle"
  BY DEF IInv, InTurn, OneAtATime, Busy
<1> QED
  BY <1>2, <1>3, IdleShape

LEMMA Serving ==
  ASSUME IInv, NEW p \in Procs, work[p].op \in EventOps
  PROVE  /\ EventOf(p) \in Events /\ receipt[EventOf(p)] # "none"
         /\ work[p].op = "activate" => sent[EventOf(p)].kind = "initial"
         /\ sent[EventOf(p)] \in Message
<1>1. PICK e \in Events : Serves(work[p], e)
  BY DEF IInv, Served
<1>2. EventOf(p) = e
  BY <1>1 DEF EventOf, Serves
<1>3. sent[e].kind # "none" /\ sent[e] \in Message \cup {NotSent}
  BY <1>1 DEF IInv, Told, Shapes, Serves
<1> QED
  BY <1>1, <1>2, <1>3 DEF Serves, NotSent

LEMMA Marked ==
  ASSUME IInv, NEW p \in Procs, work[p].op \in EventOps, NEW status \in {"processed", "rejected"},
         Mark(p, status)
  PROVE  /\ receipt' \in [Events -> Statuses]
         /\ \A e \in Events : receipt'[e] = "none" <=> receipt[e] = "none"
         /\ Done(p) /\ ~Busy(p, "idle")
<1>1. receipt \in [Events -> Statuses] /\ receipt' = [receipt EXCEPT ![EventOf(p)] = status] /\ Done(p)
  BY DEF IInv, Shapes, Mark
<1>2. EventOf(p) \in Events /\ receipt[EventOf(p)] # "none"
  BY Serving
<1> QED
  BY <1>1, <1>2 DEF Statuses, EventOps, Busy

-----------------------------------------------------------------------------
(* A step that adds no period and lets no request begin. *)

\* The row keeps its boundary, and an unopened one stays out of grace.
RowKeeps ==
  /\ sub' \in RowType /\ (sub' = sub \/ sub'.version = sub.version + 1)
  /\ sub'.ends = sub.ends
  /\ sub'.status = "pending_payment" => sub.status = "pending_payment"
  /\ Fresh => /\ Unopened(sub') /\ sub'.graceEnds = Unset
              /\ sub'.pay \notin {"past_due_grace", "inactive_nonpayment"}

LEMMA NoPayment ==
  ASSUME IInv, UNCHANGED <<periods, sent, overlapped>>, intent' \in Intents,
         now' \in 0 .. MaxTime, RowKeeps,
         receipt' \in [Events -> Statuses],
         \A e \in Events : receipt'[e] = "none" <=> receipt[e] = "none",
         work' \in [Procs -> WorkType],
         \A p \in Procs : work'[p] = work[p] \/ work'[p].op = "idle",
         ~overlapped => /\ GraceFollowsBoundary'
                        /\ \/ \A p \in Procs : work'[p].op = "idle"
                           \/ sub.status = "pending_payment" => sub'.status = "pending_payment"
  PROVE  IInv'
<1>1. Shapes'
  BY DEF IInv, Shapes, RowKeeps
<1>2. Told'
  BY DEF IInv, Told
<1>3. Served'
  BY DEF IInv, Served, Serves, EventOps
<1>4. VersionNamesRow'
  <2> SUFFICES ASSUME NEW p \in Procs, work'[p].op \in ParentOps
               PROVE  /\ work'[p].row.version <= sub'.version
                      /\ work'[p].row.version = sub'.version => work'[p].row = sub'
    BY DEF VersionNamesRow
  <2>1. work'[p] = work[p]
    BY DEF ParentOps
  <2>2. /\ work[p].row.version <= sub.version
        /\ work[p].row.version = sub.version => work[p].row = sub
    BY <2>1 DEF IInv, VersionNamesRow
  <2>3. sub.version \in Nat /\ work[p].row.version \in Nat
    BY DEF IInv, Shapes, RowType, WorkType
  <2> QED
    BY <2>1, <2>2, <2>3 DEF RowKeeps
<1>5. Fresh => Fresh'
  BY DEF Fresh, RowKeeps, Unopened, Opening
<1>6. Opened => Opened'
  BY DEF Opened, RowKeeps, Opening
<1>7. PaymentsBuyDistinctTime'
  BY DEF IInv, PaymentsBuyDistinctTime
<1>8. InTurn'
  <2> SUFFICES ASSUME ~overlapped
               PROVE  OneAtATime' /\ ReadsNow' /\ EndsAtBoundary' /\ GraceFollowsBoundary'
    BY DEF InTurn
  <2>1. OneAtATime /\ ReadsNow /\ EndsAtBoundary
    BY DEF IInv, InTurn
  <2>2. OneAtATime'
    BY <2>1 DEF OneAtATime, Busy
  <2>3. ReadsNow'
    BY <2>1 DEF ReadsNow, Busy, RowKeeps
  <2>4. EndsAtBoundary'
    BY <2>1 DEF EndsAtBoundary, RowKeeps
  <2> QED
    BY <2>2, <2>3, <2>4
<1> QED
  BY <1>1, <1>2, <1>3, <1>4, <1>5, <1>6, <1>7, <1>8 DEF IInv

-----------------------------------------------------------------------------
(* The actions that pay for nothing. *)

LEMMA AnswerStep ==
  ASSUME IInv, NEW p \in Procs, Answer(p)
  PROVE  Kept
<1>1. PICK status \in {"processed", "rejected"} : Mark(p, status) /\ work[p].op \in EventOps
  BY DEF Answer, Busy, EventOps, Ops
<1>2. UNCHANGED <<sub, intent, periods, sent, now, overlapped>>
  BY DEF Answer
<1>3. IInv'
  BY <1>1, <1>2, Marked, Finishes, NoPayment
     DEF RowKeeps, Fresh, IInv, Shapes, InTurn, GraceFollowsBoundary
<1> QED
  BY <1>2, <1>3 DEF Kept, GraceKept, Reversal

\* What the writes of an unpaid request have in common.
LEMMA RowStep ==
  ASSUME IInv, NEW p \in Procs, ~Busy(p, "idle"), Done(p), RowKeeps,
         UNCHANGED <<periods, sent, overlapped, now>>, intent' \in Intents,
         receipt' \in [Events -> Statuses],
         \A e \in Events : receipt'[e] = "none" <=> receipt[e] = "none",
         ~overlapped => GraceFollowsBoundary'
  PROVE  IInv'
<1>1. now' \in 0 .. MaxTime
  BY DEF IInv, Shapes
<1> QED
  BY <1>1, Finishes, NoPayment

LEMMA FailInitialStep ==
  ASSUME IInv, NEW p \in Procs, FailInitial(p)
  PROVE  Kept
<1> DEFINE row == [sub EXCEPT !.status = "cancelled", !.pay = "failed"]
<1>1. row \in RowType /\ row.version = sub.version /\ row.ends = sub.ends /\ row.graceEnds = sub.graceEnds
      /\ row.status = "cancelled" /\ row.pay = "failed" /\ row.renews = sub.renews
  BY DEF IInv, Shapes, RowType
<1>2. Update(row) /\ Mark(p, "processed") /\ work[p].op \in EventOps
      /\ UNCHANGED <<periods, sent, now, overlapped>>
  BY DEF FailInitial, Busy, EventOps, Ops
<1> HIDE DEF row
<1>3. /\ sub' \in RowType /\ sub'.version = sub.version + 1 /\ sub'.ends = sub.ends
      /\ sub'.graceEnds = sub.graceEnds /\ sub'.status = "cancelled" /\ sub'.pay = "failed"
      /\ sub'.renews = sub.renews
  BY <1>1, <1>2, UpdateMakes
<1>4. intent' \in Intents
  BY DEF FailInitial, IInv, Shapes, Intents
<1>5. RowKeeps /\ GraceFollowsBoundary'
  BY <1>3 DEF RowKeeps, GraceFollowsBoundary, Fresh, Unopened
<1>6. IInv'
  BY <1>2, <1>4, <1>5, Marked, RowStep
<1> QED
  BY <1>3, <1>6 DEF Kept, GraceKept, Reversal

LEMMA OverlapStep ==
  ASSUME IInv, NEW p \in Procs, Overlap(p)
  PROVE  Kept
<1> DEFINE row == [sub EXCEPT !.pay = "overlap_resolution_required"]
<1>1. row \in RowType /\ row.version = sub.version /\ row.ends = sub.ends /\ row.graceEnds = sub.graceEnds
      /\ row.status = sub.status /\ row.pay = "overlap_resolution_required" /\ row.renews = sub.renews
  BY DEF IInv, Shapes, RowType
<1>2. Update(row) /\ Mark(p, "processed") /\ work[p].op \in EventOps
      /\ UNCHANGED <<intent, periods, sent, now, overlapped>>
  BY DEF Overlap, Busy, EventOps, Ops
<1> HIDE DEF row
<1>3. /\ sub' \in RowType /\ sub'.version = sub.version + 1 /\ sub'.ends = sub.ends
      /\ sub'.graceEnds = sub.graceEnds /\ sub'.status = sub.status
      /\ sub'.pay = "overlap_resolution_required" /\ sub'.renews = sub.renews
  BY <1>1, <1>2, UpdateMakes
<1>4. intent' \in Intents
  BY <1>2 DEF IInv, Shapes
<1>5. RowKeeps /\ GraceFollowsBoundary'
  BY <1>3 DEF RowKeeps, GraceFollowsBoundary, Fresh, Unopened
<1>6. IInv'
  BY <1>2, <1>4, <1>5, Marked, RowStep
<1> QED
  BY <1>3, <1>6 DEF Kept, GraceKept, Reversal

\* The parent's writes leave the status, the payment state and both deadlines alone.
LEMMA ParentRow ==
  ASSUME IInv, NEW p \in Procs, work[p].op \in ParentOps, Done(p),
         NEW row \in RowType, Update(row), row.version = sub.version, row.ends = sub.ends,
         row.status = sub.status, row.pay = sub.pay, row.graceEnds = sub.graceEnds,
         UNCHANGED <<intent, periods, sent, receipt, now, overlapped>>
  PROVE  IInv' /\ GraceKept
<1>1. /\ sub' \in RowType /\ sub'.version = sub.version + 1 /\ sub'.ends = sub.ends
      /\ sub'.graceEnds = sub.graceEnds /\ sub'.status = sub.status /\ sub'.pay = sub.pay
  BY UpdateMakes
<1>2. RowKeeps
  BY <1>1 DEF RowKeeps, Fresh, Unopened
<1>3. ~overlapped => GraceFollowsBoundary'
  BY <1>1 DEF IInv, InTurn, GraceFollowsBoundary
<1>4. IInv'
  BY <1>2, <1>3, RowStep DEF IInv, Shapes, ParentOps, Busy
<1> QED
  BY <1>1, <1>4 DEF GraceKept

LEMMA ScheduleEndStep ==
  ASSUME IInv, NEW p \in Procs, ScheduleEnd(p)
  PROVE  Kept
<1> DEFINE row == EndingAtPeriodEnd
<1>1. row \in RowType /\ row.version = sub.version /\ row.ends = sub.ends /\ row.graceEnds = sub.graceEnds
      /\ row.status = sub.status /\ row.pay = sub.pay /\ row.renews = FALSE
  BY DEF IInv, Shapes, RowType, EndingAtPeriodEnd
<1>2. Update(row) /\ Done(p) /\ work[p].op \in ParentOps
      /\ UNCHANGED <<intent, periods, sent, receipt, now, overlapped>>
  BY DEF ScheduleEnd, Busy, ParentOps
<1> HIDE DEF row
<1>3. IInv' /\ GraceKept
  BY <1>1, <1>2, ParentRow
<1>4. sub'.renews = FALSE
  BY <1>1, <1>2, UpdateMakes
<1> QED
  BY <1>3, <1>4 DEF Kept, Reversal

\* The version compared is what makes a reversal see the row it writes.
LEMMA ResumeStep ==
  ASSUME IInv, NEW p \in Procs, Resume(p)
  PROVE  Kept
<1> DEFINE row == [sub EXCEPT !.renews = TRUE, !.cancelling = FALSE, !.effective = Unset]
<1>1. row \in RowType /\ row.version = sub.version /\ row.ends = sub.ends /\ row.graceEnds = sub.graceEnds
      /\ row.status = sub.status /\ row.pay = sub.pay
  <2>1. Unset \in Int
    BY DEF Unset
  <2> QED
    BY <2>1 DEF IInv, Shapes, RowType
<1>2. Update(row) /\ Done(p) /\ Busy(p, "resume") /\ SameVersion(p)
      /\ UNCHANGED <<intent, periods, sent, receipt, now, overlapped>>
  BY DEF Resume
<1>3. work[p].op \in ParentOps
  BY <1>2 DEF Busy, ParentOps
<1> HIDE DEF row
<1>4. IInv' /\ GraceKept
  BY <1>1, <1>2, <1>3, ParentRow
<1>5. work[p].row = sub
  BY <1>2, <1>3 DEF IInv, VersionNamesRow, SameVersion
<1> QED
  BY <1>2, <1>4, <1>5 DEF Kept, Reversal

LEMMA FailRenewalStep ==
  ASSUME IInv, NEW p \in Procs, FailRenewal(p)
  PROVE  Kept
<1> DEFINE read == work[p].row
           failed == [sub EXCEPT !.pay = "renewal_failed"]
<1>1. /\ sub \in RowType /\ read \in RowType /\ work[p].op = "fail_renewal"
      /\ intent \in Intents /\ Mark(p, "processed") /\ work[p].op \in EventOps
      /\ UNCHANGED <<intent, periods, sent, now, overlapped>>
  BY DEF FailRenewal, Busy, EventOps, Ops, IInv, Shapes, WorkType
<1>2. Grace \in Nat
  BY SubscriptionAssumption
<1>3. CASE UNCHANGED sub
  <2>1. RowKeeps /\ (~overlapped => GraceFollowsBoundary')
    BY <1>1, <1>3 DEF RowKeeps, Fresh, IInv, InTurn, GraceFollowsBoundary
  <2>2. IInv'
    BY <1>1, <2>1, Marked, RowStep
  <2> QED
    BY <1>3, <2>2 DEF Kept, GraceKept, Reversal
<1>4. CASE Update(failed)
  <2>1. failed \in RowType /\ failed.version = sub.version /\ failed.ends = sub.ends
        /\ failed.graceEnds = sub.graceEnds /\ failed.status = sub.status
        /\ failed.pay = "renewal_failed" /\ failed.renews = sub.renews
    BY <1>1 DEF RowType
  <2> HIDE DEF failed
  <2>2. /\ sub' \in RowType /\ sub'.version = sub.version + 1 /\ sub'.ends = sub.ends
        /\ sub'.graceEnds = sub.graceEnds /\ sub'.status = sub.status
        /\ sub'.pay = "renewal_failed" /\ sub'.renews = sub.renews
    BY <1>4, <2>1, UpdateMakes
  <2>3. RowKeeps /\ GraceFollowsBoundary'
    BY <2>2 DEF RowKeeps, GraceFollowsBoundary, Fresh, Unopened
  <2>4. IInv'
    BY <1>1, <2>3, Marked, RowStep
  <2> QED
    BY <2>2, <2>4 DEF Kept, GraceKept, Reversal
<1>5. CASE Eligible(read) /\ MayEnterGrace /\ GraceFrom(read)
  <2>1. PICK until \in Int : until = read.ends + Grace
    BY <1>1, <1>2 DEF RowType
  <2> DEFINE grace == [sub EXCEPT !.status = "past_due", !.pay = "past_due_grace", !.graceEnds = until]
  <2>2. /\ Update(grace)
        /\ grace \in RowType /\ grace.version = sub.version /\ grace.ends = sub.ends
        /\ grace.graceEnds = until /\ grace.status = "past_due"
        /\ grace.pay = "past_due_grace" /\ grace.renews = sub.renews
    <3>1. Update(grace)
      BY <1>5, <2>1 DEF GraceFrom
    <3>2. sub \in RowType
      BY <1>1
    <3> QED
      BY <3>1, <3>2 DEF RowType
  <2> HIDE DEF grace
  <2>3. /\ sub' \in RowType /\ sub'.version = sub.version + 1 /\ sub'.ends = sub.ends
        /\ sub'.graceEnds = read.ends + Grace /\ sub'.status = "past_due"
        /\ sub'.pay = "past_due_grace" /\ sub'.renews = sub.renews
    BY <2>1, <2>2, UpdateMakes
  \* An unopened subscription was read unopened, and is not eligible.
  <2>4. ~Fresh
    BY <1>1, <1>5 DEF Fresh, Unopened, Eligible
  <2>5. RowKeeps
    BY <2>3, <2>4 DEF RowKeeps
  <2>6. ~overlapped => GraceFollowsBoundary'
    BY <1>1, <2>3 DEF IInv, InTurn, ReadsNow, Busy, GraceFollowsBoundary
  <2>7. IInv'
    BY <1>1, <2>5, <2>6, Marked, RowStep
  <2> QED
    BY <1>5, <2>3, <2>7 DEF Kept, GraceKept, Reversal, MayEnterGrace
<1> QED
  BY <1>3, <1>4, <1>5 DEF FailRenewal

LEMMA ExpireCancellationStep ==
  ASSUME IInv, ExpireCancellation
  PROVE  Kept
<1> DEFINE row == [sub EXCEPT !.status = "cancelled", !.renews = FALSE, !.cancelled = TRUE]
<1>1. row \in RowType /\ row.version = sub.version /\ row.ends = sub.ends /\ row.graceEnds = sub.graceEnds
      /\ row.status = "cancelled" /\ row.pay = sub.pay /\ row.renews = FALSE
  BY DEF IInv, Shapes, RowType
<1>2. Update(row) /\ sub.status \in {"active", "past_due"}
      /\ UNCHANGED <<intent, periods, sent, receipt, now, overlapped, work>>
  BY DEF ExpireCancellation, CancellationIsDue
<1> HIDE DEF row
<1>3. /\ sub' \in RowType /\ sub'.version = sub.version + 1 /\ sub'.ends = sub.ends
      /\ sub'.graceEnds = sub.graceEnds /\ sub'.status = "cancelled" /\ sub'.pay = sub.pay
      /\ sub'.renews = FALSE
  BY <1>1, <1>2, UpdateMakes
<1>4. RowKeeps
  BY <1>2, <1>3 DEF RowKeeps, Fresh, Unopened
<1>5. ~overlapped => GraceFollowsBoundary'
  BY <1>2, <1>3 DEF IInv, InTurn, GraceFollowsBoundary
<1>6. IInv'
  BY <1>2, <1>4, <1>5, NoPayment DEF IInv, Shapes
<1> QED
  BY <1>3, <1>6 DEF Kept, GraceKept, Reversal

LEMMA ExpireGraceStep ==
  ASSUME IInv, ExpireGrace
  PROVE  Kept
<1> DEFINE row == [sub EXCEPT !.status = "expired", !.pay = "inactive_nonpayment"]
<1>1. row \in RowType /\ row.version = sub.version /\ row.ends = sub.ends /\ row.graceEnds = sub.graceEnds
      /\ row.status = "expired" /\ row.pay = "inactive_nonpayment" /\ row.renews = sub.renews
  BY DEF IInv, Shapes, RowType
<1>2. Update(row) /\ sub.pay = "past_due_grace" /\ sub.graceEnds <= now
      /\ UNCHANGED <<intent, periods, sent, receipt, now, overlapped, work>>
  BY DEF ExpireGrace, GraceIsOver
<1> HIDE DEF row
<1>3. /\ sub' \in RowType /\ sub'.version = sub.version + 1 /\ sub'.ends = sub.ends
      /\ sub'.graceEnds = sub.graceEnds /\ sub'.status = "expired"
      /\ sub'.pay = "inactive_nonpayment" /\ sub'.renews = sub.renews
  BY <1>1, <1>2, UpdateMakes
<1>4. ~Fresh
  BY <1>2 DEF Fresh
<1>5. RowKeeps
  BY <1>3, <1>4 DEF RowKeeps
<1>6. ~overlapped => GraceFollowsBoundary' /\ sub.status # "pending_payment"
  BY <1>2, <1>3, <1>4 DEF IInv, InTurn, GraceFollowsBoundary, Opened
<1>7. IInv'
  BY <1>2, <1>5, <1>6, NoPayment DEF IInv, Shapes
<1> QED
  BY <1>3, <1>7 DEF Kept, GraceKept, Reversal

LEMMA TickStep ==
  ASSUME IInv, Tick
  PROVE  Kept
<1>1. now \in 0 .. MaxTime /\ MaxTime \in Nat /\ now' = now + 1 /\ now' \in 0 .. MaxTime
      /\ sub.ends \in Int /\ Grace \in Nat
  BY SubscriptionAssumption DEF Tick, IInv, Shapes, RowType
<1>2. UNCHANGED <<sub, intent, periods, sent, receipt, overlapped, work>>
  BY DEF Tick
<1>3. RowKeeps
  BY <1>2 DEF RowKeeps, Fresh, IInv, Shapes
<1>4. ~overlapped => GraceFollowsBoundary'
  BY <1>1, <1>2 DEF IInv, InTurn, GraceFollowsBoundary
<1>5. IInv'
  BY <1>1, <1>2, <1>3, <1>4, NoPayment DEF IInv, Shapes
<1> QED
  BY <1>2, <1>5 DEF Kept, GraceKept, Reversal

LEMMA AbandonStep ==
  ASSUME IInv, NEW p \in Procs, Abandon(p)
  PROVE  Kept
<1>1. UNCHANGED <<sub, intent, periods, sent, receipt, now, overlapped>> /\ ~Busy(p, "idle") /\ Done(p)
  BY DEF Abandon
<1>2. RowKeeps /\ (~overlapped => GraceFollowsBoundary')
  BY <1>1 DEF RowKeeps, Fresh, IInv, Shapes, InTurn, GraceFollowsBoundary
<1>3. IInv'
  BY <1>1, <1>2, RowStep DEF IInv, Shapes
<1> QED
  BY <1>1, <1>3 DEF Kept, GraceKept, Reversal

-----------------------------------------------------------------------------
(* The arrival of a request. *)

LEMMA Arrives ==
  ASSUME IInv, NEW p \in Procs, NEW op \in Ops, NEW of \in SUBSET Events, Arrive(p, op, of)
  PROVE  /\ work' \in [Procs -> WorkType]
         /\ work'[p].op = op /\ work'[p].event = of
         /\ op \in {"renew", "fail_renewal", "cancel", "disable", "resume"} => work'[p].row = sub
         /\ \A q \in Procs : q # p => work'[q] = work[q]
         /\ overlapped' \in BOOLEAN
         /\ ~overlapped' => ~overlapped /\ \A q \in Procs : work[q].op = "idle"
<1> DEFINE w == Remembered(op, of)
<1>1. /\ w \in WorkType /\ w.op = op /\ w.event = of
      /\ op \in {"renew", "fail_renewal", "cancel", "disable", "resume"} => w.row = sub
  <2>1. CASE op \in {"renew", "fail_renewal", "cancel", "disable", "resume"}
    BY <2>1 DEF Remembered, WorkType, IInv, Shapes
  <2>2. CASE op \notin {"renew", "fail_renewal", "cancel", "disable", "resume"}
    <3>1. w = [Idle EXCEPT !.op = op, !.event = of]
      BY <2>2 DEF Remembered
    <3> QED
      BY <2>2, <3>1, IdleShape DEF WorkType
  <2> QED
    BY <2>1, <2>2
<1>2. work \in [Procs -> WorkType] /\ work' = [work EXCEPT ![p] = w]
  BY DEF IInv, Shapes, Arrive
<1> HIDE DEF w
<1>3. overlapped \in BOOLEAN /\ overlapped' = (overlapped \/ \E q \in Procs : ~Busy(q, "idle"))
  BY DEF IInv, Shapes, Arrive
<1>4. \A q \in Procs : work'[q] = IF q = p THEN w ELSE work[q]
  BY <1>1, <1>2
<1>5. work' \in [Procs -> WorkType]
  BY <1>1, <1>2
<1>6. overlapped' \in BOOLEAN
  BY <1>3
<1>7. ~overlapped' => ~overlapped /\ \A q \in Procs : work[q].op = "idle"
  BY <1>3 DEF Busy
<1> QED
  BY <1>1, <1>4, <1>5, <1>6, <1>7

LEMMA Begins ==
  ASSUME IInv, UNCHANGED <<sub, intent, periods, now>>,
         sent' \in [Events -> Message \cup {NotSent}], receipt' \in [Events -> Statuses], Told',
         \A d \in Events : /\ sent[d].kind # "none" => sent'[d] = sent[d]
                           /\ receipt[d] # "none" => receipt'[d] # "none",
         NEW p \in Procs, NEW op \in Ops \ {"idle"}, NEW of \in SUBSET Events, Arrive(p, op, of),
         op \in EventOps => \E e \in Events : /\ of = {e} /\ receipt'[e] # "none"
                                              /\ op = "activate" => sent'[e].kind = "initial",
         op = "activate" => sub.status = "pending_payment",
         op = "renew" => sub.graceEnds # Unset \/ sub.status = "active"
  PROVE  Kept
<1>1. /\ work' \in [Procs -> WorkType] /\ work'[p].op = op /\ work'[p].event = of
      /\ op \in {"renew", "fail_renewal", "cancel", "disable", "resume"} => work'[p].row = sub
      /\ \A q \in Procs : q # p => work'[q] = work[q]
      /\ overlapped' \in BOOLEAN
      /\ ~overlapped' => ~overlapped /\ \A q \in Procs : work[q].op = "idle"
  BY Arrives
<1>2. Shapes'
  BY <1>1 DEF IInv, Shapes
<1>3. Served'
  <2> SUFFICES ASSUME NEW q \in Procs, work'[q].op \in EventOps
               PROVE  \E e \in Events : Serves(work[q], e)'
    BY DEF Served
  <2>1. CASE q = p
    BY <1>1, <2>1 DEF Serves
  <2>2. CASE q # p
    <3>1. PICK e \in Events : Serves(work[q], e)
      BY <1>1, <2>2 DEF IInv, Served
    <3>2. sent'[e] = sent[e]
      BY <3>1 DEF Serves, IInv, Told
    <3> QED
      BY <1>1, <2>2, <3>1, <3>2 DEF Serves
  <2> QED
    BY <2>1, <2>2
<1>4. VersionNamesRow'
  <2>1. sub.version \in Nat
    BY DEF IInv, Shapes, RowType
  <2> QED
    BY <1>1, <2>1 DEF IInv, VersionNamesRow, ParentOps
<1>5. Fresh => Fresh'
  <2> SUFFICES ASSUME Fresh
               PROVE  Fresh'
    OBVIOUS
  <2>1. op # "renew"
    BY DEF Fresh, Unopened
  <2>2. \A q \in Procs : work'[q].op # "renew" /\ (work'[q].op = "fail_renewal" => Unopened(work'[q].row))
    BY <1>1, <2>1 DEF Fresh
  <2>3. \A q \in periods : Opening(q)'
    BY DEF Fresh, Opening
  <2> QED
    BY <2>2, <2>3 DEF Fresh, Unopened
<1>6. Opened => Opened'
  <2>1. \A q \in periods : Opening(q) => Opening(q)'
    BY DEF Opening
  <2> QED
    BY <2>1 DEF Opened
<1>7. PaymentsBuyDistinctTime'
  BY DEF IInv, PaymentsBuyDistinctTime
<1>8. InTurn'
  <2> SUFFICES ASSUME ~overlapped'
               PROVE  OneAtATime' /\ ReadsNow' /\ EndsAtBoundary' /\ GraceFollowsBoundary'
    BY DEF InTurn
  <2>1. ~overlapped /\ \A q \in Procs : q # p => work'[q].op = "idle"
    BY <1>1
  <2>2. OneAtATime' /\ ReadsNow'
    BY <1>1, <2>1 DEF OneAtATime, ReadsNow, Busy
  <2> QED
    BY <2>1, <2>2 DEF IInv, InTurn, EndsAtBoundary, GraceFollowsBoundary
<1>9. IInv'
  BY <1>2, <1>3, <1>4, <1>5, <1>6, <1>7, <1>8 DEF IInv
<1> QED
  BY <1>9 DEF Kept, GraceKept, Reversal

LEMMA ParentStep ==
  ASSUME IInv, NEW p \in Procs, NEW op \in ParentOps, ParentAsks(p, op)
  PROVE  Kept
<1>1. op \in Ops \ {"idle"} /\ op \notin EventOps /\ op # "activate" /\ op # "renew"
  BY DEF ParentOps, Ops, EventOps
<1>2. Arrive(p, op, {}) /\ UNCHANGED <<sub, intent, periods, sent, receipt, now>>
  BY DEF ParentAsks
<1>3. Told' /\ sent' \in [Events -> Message \cup {NotSent}] /\ receipt' \in [Events -> Statuses]
  BY <1>2 DEF IInv, Told, Shapes
<1> QED
  BY <1>1, <1>2, <1>3, Begins

\* What an event says when it is first heard.
LEMMA Said ==
  ASSUME IInv, NEW e \in Events, NEW m \in Sendable(e)
  PROVE  m \in Message /\ (m.kind = "initial" => \A d \in Events : sent[d].kind # "initial")
<1>1. CASE /\ m \in Message
           /\ m.kind \in InitialKinds => \A d \in Events : sent[d].kind # m.kind
  BY <1>1 DEF InitialKinds
<1>2. CASE \E kind \in SettledRenewals, d \in Events :
             sent[d].kind \in SettledRenewals /\ m = [sent[d] EXCEPT !.kind = kind]
  <2>1. PICK kind \in SettledRenewals, d \in Events :
               sent[d].kind \in SettledRenewals /\ m = [sent[d] EXCEPT !.kind = kind]
    BY <1>2
  <2>2. sent[d] \in Message
    BY <2>1 DEF IInv, Shapes, NotSent, SettledRenewals
  <2>3. m \in Message /\ m.kind = kind
    BY <2>1, <2>2 DEF Message
  <2> QED
    BY <2>3 DEF SettledRenewals
<1> QED
  BY <1>1, <1>2 DEF Sendable

LEMMA DeliverStep ==
  ASSUME IInv, NEW p \in Procs, NEW e \in Events, Deliver(p, e)
  PROVE  Kept
<1>1. PICK m \in (IF receipt[e] = "none" THEN Sendable(e) ELSE {sent[e]}) :
         /\ sent' = [sent EXCEPT ![e] = m]
         /\ \E op \in Ops : Plan(m, op) /\ Arrive(p, op, {e})
  BY DEF Deliver
<1>2. PICK op \in Ops : Plan(m, op) /\ Arrive(p, op, {e})
  BY <1>1
<1>3. /\ receipt' = [receipt EXCEPT ![e] = "received"] /\ receipt \in [Events -> Statuses]
      /\ sent \in [Events -> Message \cup {NotSent}]
      /\ UNCHANGED <<sub, intent, periods, now>>
  BY DEF Deliver, IInv, Shapes
<1>4. m \in Message /\ (receipt[e] # "none" => m = sent[e])
      /\ (receipt[e] = "none" /\ m.kind = "initial" => \A d \in Events : sent[d].kind # "initial")
  <2>1. CASE receipt[e] = "none"
    BY <1>1, <2>1, Said
  <2>2. CASE receipt[e] # "none"
    BY <1>1, <1>3, <2>2 DEF IInv, Told, NotSent
  <2> QED
    BY <2>1, <2>2
<1>5. m.kind # "none"
  BY <1>4 DEF Message, InitialKinds, SettledRenewals
<1>6. /\ op \in EventOps /\ op # "idle"
      /\ op = "activate" => m.kind = "initial" /\ sub.status = "pending_payment"
      /\ op = "renew" => sub.graceEnds # Unset \/ sub.status = "active"
  BY <1>2 DEF Plan, EventOps, Ops, CheckoutIsOpen, InTime, Renewing
<1>7. /\ sent' \in [Events -> Message \cup {NotSent}] /\ receipt' \in [Events -> Statuses]
      /\ \A d \in Events : sent'[d] = IF d = e THEN m ELSE sent[d]
      /\ \A d \in Events : receipt'[d] = IF d = e THEN "received" ELSE receipt[d]
  BY <1>1, <1>3, <1>4 DEF Statuses
<1>8. \A d \in Events : /\ sent[d].kind # "none" => sent'[d] = sent[d]
                        /\ receipt[d] # "none" => receipt'[d] # "none"
  BY <1>4, <1>7 DEF IInv, Told
<1>9. Told'
  <2>1. \A d \in Events : receipt'[d] = "none" <=> sent'[d].kind = "none"
    BY <1>5, <1>7 DEF IInv, Told
  <2>2. \A c, d \in Events : sent'[c].kind = "initial" /\ sent'[d].kind = "initial" => c = d
    BY <1>4, <1>7 DEF IInv, Told
  <2> QED
    BY <2>1, <2>2 DEF Told
<1> QED
  BY <1>2, <1>3, <1>6, <1>7, <1>8, <1>9, Begins

-----------------------------------------------------------------------------
(* The steps that pay. *)

\* A period is added after all others, by a request that ends with it.
LEMMA Pays ==
  ASSUME IInv, NEW p \in Procs, work[p].op \in EventOps, Mark(p, "processed"),
         NEW q \in PeriodType, periods' = periods \cup {q}, Insertable(q),
         \A r \in periods : r.to <= q.from,
         sub' \in RowType, sub' = sub \/ sub'.version = sub.version + 1, intent' \in Intents,
         UNCHANGED <<sent, now, overlapped>>, Fresh' \/ Opened',
         ~overlapped => EndsAtBoundary' /\ GraceFollowsBoundary'
  PROVE  IInv'
<1>1. /\ receipt' \in [Events -> Statuses]
      /\ \A e \in Events : receipt'[e] = "none" <=> receipt[e] = "none"
      /\ work' \in [Procs -> WorkType]
      /\ \A r \in Procs : work'[r] = work[r] \/ work'[r].op = "idle"
      /\ ~overlapped => \A r \in Procs : work'[r].op = "idle"
  BY Marked, Finishes
<1>2. Shapes'
  BY <1>1 DEF IInv, Shapes
<1>3. Told'
  BY <1>1 DEF IInv, Told
<1>4. Served'
  BY <1>1 DEF IInv, Served, Serves, EventOps
<1>5. VersionNamesRow'
  <2> SUFFICES ASSUME NEW r \in Procs, work'[r].op \in ParentOps
               PROVE  /\ work'[r].row.version <= sub'.version
                      /\ work'[r].row.version = sub'.version => work'[r].row = sub'
    BY DEF VersionNamesRow
  <2>1. work'[r] = work[r]
    BY <1>1 DEF ParentOps
  <2>2. /\ work[r].row.version <= sub.version
        /\ work[r].row.version = sub.version => work[r].row = sub
    BY <2>1 DEF IInv, VersionNamesRow
  <2>3. sub.version \in Nat /\ work[r].row.version \in Nat
    BY DEF IInv, Shapes, RowType, WorkType
  <2> QED
    BY <2>1, <2>2, <2>3
<1>6. PaymentsBuyDistinctTime'
  BY DEF IInv, PaymentsBuyDistinctTime, Insertable
<1>7. InTurn'
  BY <1>1 DEF InTurn, OneAtATime, ReadsNow, Busy
<1> QED
  BY <1>2, <1>3, <1>4, <1>5, <1>6, <1>7 DEF IInv

LEMMA ActivateStep ==
  ASSUME IInv, NEW p \in Procs, Activate(p)
  PROVE  Kept
<1>1. /\ Busy(p, "activate") /\ work[p].op \in EventOps /\ Mark(p, "processed")
      /\ UNCHANGED <<sent, now, overlapped>>
  BY DEF Activate, Busy, EventOps, Ops
<1>2. PICK e \in Events : e = EventOf(p) /\ sent[e].kind = "initial" /\ sent[e] \in Message
  BY <1>1, Serving DEF Busy
<1>3. PICK q \in PeriodType : q = PaidPeriod(sent[e], sent[e].settled) /\ q.pay = sent[e].pay /\ q.to \in Int
  <2> DEFINE made == PaidPeriod(sent[e], sent[e].settled)
  <2>1. sent[e].pay \in Events /\ sent[e].settled \in Int /\ sent[e].settled + Period \in Int
    BY <1>2, SubscriptionAssumption DEF Message
  <2>2. made \in PeriodType /\ made.pay = sent[e].pay /\ made.to \in Int
    BY <2>1 DEF PaidPeriod, PeriodType
  <2> QED
    BY <2>2
<1>0. Insertable(q) /\ periods' = periods \cup {q} /\ Activated(q)
  BY <1>2, <1>3 DEF Activate
<1>4. \A r \in periods : ~Opening(r)
  BY <1>0, <1>2, <1>3 DEF Opening, IInv, Told, Insertable
<1>5. Fresh /\ periods = {} /\ periods' = {q}
  BY <1>0, <1>4 DEF IInv, Fresh, Opened
<1>6. Opening(q)'
  BY <1>1, <1>2, <1>3 DEF Opening
<1>7. intent' \in Intents /\ intent.renews \in BOOLEAN
  BY DEF Activate, IInv, Shapes, Intents
<1>8. ~overlapped => sub.status = "pending_payment"
  BY <1>1 DEF IInv, InTurn, ReadsNow
<1>9. CASE sub.status = "pending_payment"
  <2> DEFINE row == [sub EXCEPT !.status = "active", !.pay = "paid", !.renews = intent.renews,
                                !.cancelling = FALSE, !.ends = q.to]
  <2>1. Update(row)
    BY <1>0, <1>9 DEF Activated
  <2>2. PICK to \in Int, b \in BOOLEAN : to = q.to /\ b = intent.renews
    BY <1>3, <1>7
  <2>3. sub \in RowType
    BY DEF IInv, Shapes
  <2>4. row = [sub EXCEPT !.status = "active", !.pay = "paid", !.renews = b,
                          !.cancelling = FALSE, !.ends = to]
    BY <2>2
  <2> HIDE DEF row
  <2>5. /\ row \in RowType /\ row.status = "active" /\ row.pay = "paid"
        /\ row.ends = to /\ row.version = sub.version
    BY <2>3, <2>4 DEF RowType
  <2>6. /\ sub' \in RowType /\ sub'.version = sub.version + 1 /\ sub'.status = "active"
        /\ sub'.pay = "paid" /\ sub'.ends = q.to
    BY <2>1, <2>2, <2>5, UpdateMakes
  <2>7. Opened'
    BY <1>3, <1>5, <1>6, <2>6 DEF Opened
  <2>8. EndsAtBoundary' /\ GraceFollowsBoundary'
    BY <1>3, <1>5, <2>6 DEF EndsAtBoundary, GraceFollowsBoundary
  <2>9. IInv'
    BY <1>0, <1>1, <1>3, <1>5, <1>7, <2>6, <2>7, <2>8, Pays
  <2> QED
    BY <1>9, <2>6, <2>9 DEF Kept, GraceKept, Reversal
<1>10. CASE sub.status # "pending_payment"
  <2>1. UNCHANGED sub /\ sub \in RowType
    BY <1>0, <1>10 DEF Activated, IInv, Shapes
  <2>2. /\ work' \in [Procs -> WorkType]
        /\ \A r \in Procs : work'[r] = work[r] \/ work'[r].op = "idle"
    BY <1>1, Marked, Finishes
  <2>3. Fresh'
    BY <1>5, <1>6, <1>10, <2>1, <2>2 DEF Fresh, Unopened
  <2>4. IInv'
    BY <1>0, <1>1, <1>3, <1>5, <1>7, <1>8, <1>10, <2>1, <2>3, Pays
  <2> QED
    BY <2>1, <2>4 DEF Kept, GraceKept, Reversal
<1> QED
  BY <1>9, <1>10

\* The boundary that is compared is where the last paid period ends.
LEMMA RenewStep ==
  ASSUME IInv, NEW p \in Procs, Renew(p)
  PROVE  Kept
<1> DEFINE e == EventOf(p)
           q == PaidPeriod(sent[e], work[p].row.ends)
           row == [sub EXCEPT !.status = "active", !.pay = "paid", !.ends = q.to, !.graceEnds = Unset]
<1>1. /\ work[p].op = "renew" /\ work[p].op \in EventOps /\ Insertable(q)
      /\ \/ /\ StillAt(q.from) /\ Update(row)
            /\ periods' = periods \cup {q} /\ Mark(p, "processed")
         \/ UNCHANGED <<sub, periods>> /\ Mark(p, "rejected")
      /\ UNCHANGED <<intent, sent, now, overlapped>>
  BY DEF Renew, Busy, EventOps, Ops, Renewed
<1>2. e \in Events /\ sent[e] \in Message
  BY <1>1, Serving
<1>3. /\ q \in PeriodType /\ q.to \in Int /\ q.from \in Int /\ q.from <= q.to
  <2>1. sent[e].pay \in Events /\ work[p].row.ends \in Int /\ work[p].row.ends + Period \in Int
        /\ work[p].row.ends <= work[p].row.ends + Period
    BY <1>2, SubscriptionAssumption DEF Message, IInv, Shapes, WorkType, RowType
  <2> QED
    BY <2>1 DEF PaidPeriod, PeriodType
<1>4. PICK to \in Int : to = q.to
  BY <1>3
<1>5. row = [sub EXCEPT !.status = "active", !.pay = "paid", !.ends = to, !.graceEnds = Unset]
  BY <1>4
<1> HIDE DEF e, q, row
<1>6. /\ sub \in RowType /\ intent' \in Intents
  BY <1>1 DEF IInv, Shapes
<1>7. Opened
  BY <1>1 DEF IInv, Fresh
<1>8. CASE UNCHANGED <<sub, periods>> /\ Mark(p, "rejected")
  <2>1. RowKeeps /\ (~overlapped => GraceFollowsBoundary')
    BY <1>1, <1>6, <1>8 DEF RowKeeps, Fresh, IInv, InTurn, GraceFollowsBoundary
  <2>2. IInv'
    BY <1>1, <1>6, <1>8, <2>1, Marked, RowStep
  <2> QED
    BY <1>8, <2>2 DEF Kept, GraceKept, Reversal
<1>9. CASE /\ StillAt(q.from) /\ Update(row)
           /\ periods' = periods \cup {q} /\ Mark(p, "processed")
  <2>1. Unset \in Int
    BY DEF Unset
  <2>2. /\ row \in RowType /\ row.status = "active" /\ row.pay = "paid" /\ row.renews = sub.renews
        /\ row.ends = to /\ row.version = sub.version
    BY <1>5, <1>6, <2>1 DEF RowType
  <2>3. /\ sub' \in RowType /\ sub'.version = sub.version + 1 /\ sub'.status = "active"
        /\ sub'.pay = "paid" /\ sub'.ends = q.to /\ sub'.renews = sub.renews
    BY <1>4, <1>9, <2>2, UpdateMakes
  <2>4. \A r \in periods : r.to \in Int /\ r.to <= q.from
    BY <1>7, <1>9 DEF Opened, StillAt, IInv, Shapes, PeriodType
  <2>5. \A r \in periods' : r.to <= sub'.ends
    BY <1>3, <1>9, <2>3, <2>4
  <2>6. \A r \in periods : Opening(r) => Opening(r)'
    BY <1>1 DEF Opening
  <2>7. Opened'
    BY <1>7, <1>9, <2>3, <2>5, <2>6 DEF Opened
  <2>8. EndsAtBoundary' /\ GraceFollowsBoundary'
    BY <1>9, <2>3, <2>5 DEF EndsAtBoundary, GraceFollowsBoundary
  <2>9. IInv'
    BY <1>1, <1>3, <1>6, <1>9, <2>3, <2>4, <2>7, <2>8, Pays
  <2> QED
    BY <2>3, <2>9 DEF Kept, GraceKept, Reversal
<1> QED
  BY <1>1, <1>8, <1>9

-----------------------------------------------------------------------------

LEMMA Start == Init => IInv
<1> SUFFICES ASSUME Init
             PROVE  IInv
  OBVIOUS
<1>1. PICK b \in BOOLEAN : intent = [status |-> "pending_provider", renews |-> b]
  BY DEF Init
<1>2. NewRow \in RowType /\ sub = [NewRow EXCEPT !.renews = b]
  BY <1>1 DEF Init, NewRow, RowType, Unset
<1>3. /\ sub \in RowType /\ sub.status = "pending_payment" /\ sub.pay = "pending" /\ sub.graceEnds = Unset
  BY <1>2 DEF NewRow, RowType
<1>4. /\ periods = {} /\ now = 0 /\ overlapped = FALSE /\ work = [p \in Procs |-> Idle]
      /\ sent = [e \in Events |-> NotSent] /\ receipt = [e \in Events |-> "none"]
  BY DEF Init
<1>5. work \in [Procs -> WorkType] /\ \A p \in Procs : work[p].op = "idle"
  BY <1>4, IdleShape
<1>6. Shapes
  <2>1. intent \in Intents
    BY <1>1 DEF Intents
  <2>2. now \in 0 .. MaxTime
    BY <1>4, SubscriptionAssumption
  <2>3. sent \in [Events -> Message \cup {NotSent}] /\ receipt \in [Events -> Statuses]
    BY <1>4 DEF Statuses
  <2> QED
    BY <1>3, <1>4, <1>5, <2>1, <2>2, <2>3 DEF Shapes
<1>7. Told /\ Served /\ VersionNamesRow
  BY <1>4, <1>5 DEF Told, Served, VersionNamesRow, NotSent, EventOps, ParentOps
<1>8. Fresh /\ PaymentsBuyDistinctTime
  BY <1>3, <1>4, <1>5 DEF Fresh, Unopened, PaymentsBuyDistinctTime
<1>9. InTurn
  BY <1>3, <1>4, <1>5 DEF InTurn, OneAtATime, ReadsNow, Busy, EndsAtBoundary, GraceFollowsBoundary
<1> QED
  BY <1>6, <1>7, <1>8, <1>9 DEF IInv

LEMMA Stuttering ==
  ASSUME IInv, UNCHANGED vars
  PROVE  Kept
<1>1. UNCHANGED <<sub, intent, periods, sent, receipt, now, overlapped, work>>
  BY DEF vars
<1>2. RowKeeps /\ (~overlapped => GraceFollowsBoundary')
  BY <1>1 DEF RowKeeps, Fresh, IInv, Shapes, InTurn, GraceFollowsBoundary
<1>3. IInv'
  BY <1>1, <1>2, NoPayment DEF IInv, Shapes
<1> QED
  BY <1>1, <1>3 DEF Kept, GraceKept, Reversal

LEMMA StepKeeps == IInv /\ [Next]_vars => Kept
<1> SUFFICES ASSUME IInv, [Next]_vars
             PROVE  Kept
  OBVIOUS
<1>1. ASSUME NEW p \in Procs, NEW e \in Events, Deliver(p, e)
      PROVE  Kept
  BY <1>1, DeliverStep
<1>2. ASSUME NEW p \in Procs, Answer(p) \/ Activate(p) \/ FailInitial(p) \/ Overlap(p)
      PROVE  Kept
  BY <1>2, AnswerStep, ActivateStep, FailInitialStep, OverlapStep
<1>3. ASSUME NEW p \in Procs, Renew(p) \/ FailRenewal(p)
      PROVE  Kept
  BY <1>3, RenewStep, FailRenewalStep
<1>4. ASSUME NEW p \in Procs, CancelRead(p) \/ DisableRead(p) \/ ResumeRead(p)
      PROVE  Kept
  <2>1. PICK op \in ParentOps : ParentAsks(p, op)
    BY <1>4 DEF CancelRead, DisableRead, ResumeRead, ParentOps
  <2> QED
    BY <2>1, ParentStep
<1>5. ASSUME NEW p \in Procs, ScheduleEnd(p) \/ Resume(p) \/ Abandon(p)
      PROVE  Kept
  BY <1>5, ScheduleEndStep, ResumeStep, AbandonStep
<1>6. CASE ExpireCancellation \/ ExpireGrace \/ Tick
  BY <1>6, ExpireCancellationStep, ExpireGraceStep, TickStep
<1>7. CASE UNCHANGED vars
  BY <1>7, Stuttering
<1> QED
  BY <1>1, <1>2, <1>3, <1>4, <1>5, <1>6, <1>7 DEF Next

\* The invariant of the subscription: what rows, requests and receipts can be together.
THEOREM Invariant == Spec => []IInv
<1>1. IInv /\ [Next]_vars => IInv'
  BY StepKeeps DEF Kept
<1> QED
  BY <1>1, Start, PTL DEF Spec

\* Whatever is delivered twice, late or at once, no payment buys two periods
\* (activateInitialPayment, applyRenewal) and no day is paid for twice.
THEOREM NothingPaidTwice == Spec => []PaymentsBuyDistinctTime
<1>1. IInv => PaymentsBuyDistinctTime
  BY DEF IInv
<1> QED
  BY <1>1, Invariant, PTL

\* No failed retry, cancellation or stale failure moves the deadline of a grace
\* (applyFailedRenewal).
THEOREM DeadlineStands == Spec => GraceKeepsItsDeadline
<1>1. IInv /\ [Next]_vars
        => [sub.pay = "past_due_grace" /\ sub'.pay = "past_due_grace" => sub'.graceEnds = sub.graceEnds]_vars
  BY StepKeeps DEF Kept, GraceKept
<1> QED
  BY <1>1, Invariant, PTL DEF Spec, GraceKeepsItsDeadline

\* The version a resume compares keeps it from undoing a cutoff it has not read
\* (completeResumptionSync).
THEOREM ReversalsSeeCutoffs == Spec => NoCutoffIsUndone
<1>1. IInv /\ [Next]_vars
        => [(sub.status = "cancelled" /\ ~sub.renews /\ sub'.renews)
              => \E p \in Procs : Busy(p, "resume") /\ work[p].row.status = "cancelled"]_vars
  BY StepKeeps DEF Kept, Reversal
<1> QED
  BY <1>1, Invariant, PTL DEF Spec, NoCutoffIsUndone

LEMMA LastIsMax ==
  ASSUME NEW S \in SUBSET Int, NEW x \in S, \A y \in S : y <= x
  PROVE  Max(S) = x
<1>1. \A y \in S : x >= y
  BY SMT
<1>2. PICK m \in S : m = Max(S) /\ \A y \in S : m >= y
  BY <1>1, Zenon DEF Max
<1>3. m \in Int /\ x \in Int /\ m <= x /\ m >= x
  BY <1>2
<1> QED
  BY <1>2, <1>3

\* Of requests that follow each other, every renewal starts where the last paid period
\* ends (applyRenewal), whatever the order of the events.
THEOREM BoundaryFollowsPayments == Spec => []RowFollowsLedger
<1>1. IInv => RowFollowsLedger
  <2> SUFFICES ASSUME IInv, ~overlapped, periods # {}
               PROVE  sub.ends = Max({q.to : q \in periods})
    BY DEF RowFollowsLedger
  <2>1. PICK r \in periods : r.to = sub.ends /\ \A q \in periods : q.to <= sub.ends
    BY DEF IInv, InTurn, EndsAtBoundary
  <2>2. \A q \in periods : q.to \in Int
    BY DEF IInv, Shapes, PeriodType
  <2> DEFINE S == {q.to : q \in periods}
  <2>3. S \in SUBSET Int /\ sub.ends \in S /\ \A y \in S : y <= sub.ends
    BY <2>1, <2>2
  <2> HIDE DEF S
  <2>4. Max(S) = sub.ends
    BY <2>3, LastIsMax
  <2> QED
    BY <2>4 DEF S
<1> QED
  BY <1>1, Invariant, PTL

\* Of requests that follow each other, none closes a subscription for nonpayment
\* (expireGraceSubscriptionState) before what was paid for and the grace are over.
THEOREM ClosedOnlyAfterGrace == Spec => []UnpaidOnlyAfterGrace
<1>1. IInv => UnpaidOnlyAfterGrace
  <2> SUFFICES ASSUME IInv, ~overlapped, sub.pay = "inactive_nonpayment", NEW q \in periods
               PROVE  q.to + Grace <= now
    BY DEF UnpaidOnlyAfterGrace
  <2>1. sub.ends + Grace <= now /\ q.to <= sub.ends
    BY DEF IInv, InTurn, EndsAtBoundary, GraceFollowsBoundary
  <2>2. q.to \in Int /\ sub.ends \in Int /\ now \in Int /\ Grace \in Int
    BY SubscriptionAssumption DEF IInv, Shapes, PeriodType, RowType
  <2> QED
    BY <2>1, <2>2
<1> QED
  BY <1>1, Invariant, PTL
-----------------------------------------------------------------------------
(* How far the boundaries reach: a period more for each payment. *)

PaidBy == {q.pay : q \in periods}
Reach  == MaxTime + Cardinality(PaidBy) * Period
Within(row) ==
  /\ row.ends \in 0 .. Reach
  /\ row.effective \in 0 .. Reach \cup {Unset}
  /\ row.graceEnds \in 0 .. Reach + Grace \cup {Unset}
Reached ==
  /\ Within(sub) /\ (sub.cancelling => sub.effective # Unset)
  /\ \A q \in periods : q.from \in 0 .. Reach
  /\ \A p \in Procs : Within(work[p].row)

LEMMA PaidByFinite ==
  ASSUME Shapes
  PROVE  /\ IsFiniteSet(PaidBy) /\ Cardinality(PaidBy) \in Nat
         /\ Cardinality(PaidBy) <= Cardinality(Events) /\ Cardinality(Events) \in Nat
<1>1. PaidBy \subseteq Events /\ IsFiniteSet(Events)
  BY SubscriptionAssumption DEF PaidBy, Shapes, PeriodType
<1> QED  BY <1>1, FS_Subset, FS_CardinalityType

LEMMA ReachBounded ==
  ASSUME Shapes
  PROVE  Reach \in Nat /\ Reach <= MaxTime + (Cardinality(Events) + 1) * Period
<1>1. PICK c \in Nat, e \in Nat : c = Cardinality(PaidBy) /\ e = Cardinality(Events) /\ c <= e
  BY PaidByFinite
<1>2. Period \in Nat /\ MaxTime \in Nat
  BY SubscriptionAssumption
<1>3. c * Period <= e * Period /\ c * Period \in Nat /\ e * Period \in Nat
  BY <1>1, <1>2
<1>4. (e + 1) * Period = e * Period + Period
  BY <1>1, <1>2
<1> QED  BY <1>1, <1>2, <1>3, <1>4 DEF Reach

LEMMA ReachGrows ==
  ASSUME Shapes, NEW q \in PeriodType, Insertable(q), periods' = periods \cup {q}
  PROVE  Reach' = Reach + Period
<1>1. PaidBy' = PaidBy \cup {q.pay} /\ q.pay \notin PaidBy
  BY DEF PaidBy, Insertable
<1>2. Cardinality(PaidBy') = Cardinality(PaidBy) + 1
  BY <1>1, PaidByFinite, FS_AddElement
<1>3. PICK c \in Nat : c = Cardinality(PaidBy)
  BY PaidByFinite
<1>4. (c + 1) * Period = c * Period + Period /\ c * Period \in Nat /\ MaxTime \in Nat /\ Period \in Nat
  BY SubscriptionAssumption
<1> QED  BY <1>2, <1>3, <1>4 DEF Reach

\* What a step does to the row's boundaries, once the ledger reaches as far as it then does.
Further ==
  /\ Reach \in Nat /\ Reach' \in Nat /\ Reach <= Reach'
  /\ sub'.ends = sub.ends \/ sub'.ends \in 0 .. Reach'
  /\ sub'.effective \in {sub.effective, sub.ends, Unset}
  /\ sub'.cancelling => sub'.effective # Unset
  /\ sub'.graceEnds \in {sub.graceEnds, Unset} \/ sub'.graceEnds \in 0 .. Reach' + Grace
  /\ \A q \in periods' : q \in periods \/ q.from \in 0 .. Reach'
  /\ \A p \in Procs : work'[p].row \in {work[p].row, sub, NewRow}

LEMMA FurtherReaches ==
  ASSUME Reached, Further
  PROVE  Reached'
<1>1. Grace \in Nat /\ Unset = -1
  BY SubscriptionAssumption DEF Unset
<1>2. Within(sub)'
  BY <1>1 DEF Reached, Further, Within
<1>3. \A q \in periods' : q.from \in 0 .. Reach'
  BY DEF Reached, Further
<1>4. ASSUME NEW p \in Procs
      PROVE  Within(work[p].row)'
  <2>1. CASE work'[p].row = work[p].row
    BY <1>1, <2>1 DEF Reached, Further, Within
  <2>2. CASE work'[p].row = sub
    BY <1>1, <2>2 DEF Reached, Further, Within
  <2>3. CASE work'[p].row = NewRow
    BY <1>1, <2>3 DEF Further, Within, NewRow
  <2> QED  BY <2>1, <2>2, <2>3 DEF Further
<1> QED  BY <1>2, <1>3, <1>4 DEF Reached, Further

\* The row keeps its boundaries, or one of the parent's writes sets when it ends.
Settled ==
  /\ sub'.ends = sub.ends /\ sub'.graceEnds \in {sub.graceEnds, Unset}
  /\ sub'.effective \in {sub.effective, sub.ends, Unset}
  /\ sub'.cancelling => sub'.effective # Unset

\* A row that a write without a payment makes of the row.
Bounded(row) ==
  /\ row.ends = sub.ends /\ row.graceEnds = sub.graceEnds
  /\ \/ row.effective = sub.effective /\ row.cancelling = sub.cancelling
     \/ row.effective = sub.ends
     \/ row.effective = Unset /\ ~row.cancelling

LEMMA NoPaymentReaches ==
  ASSUME Shapes, Reached, Settled, UNCHANGED periods,
         \A p \in Procs : work'[p].row \in {work[p].row, sub, NewRow}
  PROVE  Reached'
<1>1. Reach \in Nat /\ Reach' = Reach
  BY ReachBounded DEF Reach, PaidBy
<1> QED  BY <1>1, FurtherReaches DEF Further, Settled

LEMMA DoneRows ==
  ASSUME Shapes, NEW p \in Procs, Done(p)
  PROVE  \A r \in Procs : work'[r].row \in {work[r].row, sub, NewRow}
BY DEF Shapes, Done, Idle

LEMMA ArriveRows ==
  ASSUME Shapes, NEW p \in Procs, NEW op, NEW of, Arrive(p, op, of)
  PROVE  \A r \in Procs : work'[r].row \in {work[r].row, sub, NewRow}
<1>1. Remembered(op, of).row \in {sub, NewRow}
  BY DEF Remembered, Idle
<1> QED  BY <1>1 DEF Shapes, Arrive

LEMMA EndingIsSet ==
  ASSUME Reached
  PROVE  sub.ends # Unset /\ (sub.cancelling => sub.effective # Unset)
BY ReachBounded DEF Reached, Within, Unset

LEMMA StartReaches == Init => Reached
<1> SUFFICES ASSUME Init
             PROVE  Reached
  OBVIOUS
<1>1. Shapes
  BY Start DEF IInv
<1>2. Reach \in Nat /\ Grace \in Nat
  BY <1>1, ReachBounded, SubscriptionAssumption
<1>3. Within(NewRow) /\ ~NewRow.cancelling
  BY <1>2 DEF Within, NewRow, Unset
<1>4. \E b \in BOOLEAN : sub = [NewRow EXCEPT !.renews = b]
  BY DEF Init
<1>5. Within(sub) /\ ~sub.cancelling
  BY <1>3, <1>4 DEF Within, NewRow
<1>6. periods = {} /\ \A p \in Procs : work[p].row = NewRow
  BY DEF Init, Idle
<1> QED  BY <1>3, <1>5, <1>6 DEF Reached

\* A payment reaches a period beyond the row or the clock it starts from.
LEMMA PaymentReaches ==
  ASSUME IInv, Reached, NEW p \in Procs, Activate(p) \/ Renew(p)
  PROVE  Reached'
<1>1. Shapes /\ work[p].op \in EventOps /\ Period \in Nat /\ Grace \in Nat /\ Reach \in Nat /\ MaxTime \in Nat
  BY ReachBounded, SubscriptionAssumption DEF IInv, Activate, Renew, Busy, EventOps, Ops
<1>2. PICK e \in Events : e = EventOf(p) /\ sent[e] \in Message
  BY <1>1, Serving
<1>3. PICK from \in Int : from = IF work[p].op = "activate" THEN sent[e].settled ELSE work[p].row.ends
  BY <1>1, <1>2, SubscriptionAssumption DEF Message, Shapes, WorkType, RowType
<1>4. from \in 0 .. Reach
  BY <1>1, <1>2, <1>3, ReachBounded, PaidByFinite, SubscriptionAssumption DEF Message, Reached, Within, Reach
<1> DEFINE q == PaidPeriod(sent[e], from)
<1>5. q \in PeriodType /\ q.from = from /\ q.to = from + Period
  BY <1>1, <1>2, <1>3 DEF PaidPeriod, PeriodType, Message
<1>6. /\ \A r \in Procs : work'[r].row \in {work[r].row, sub, NewRow}
      /\ Insertable(q)
      /\ \/ periods' = periods \cup {q} /\ (Activated(q) \/ Renewed(q.to))
         \/ UNCHANGED <<sub, periods>>
  <2>1. CASE Activate(p)
    <3>1. work[p].op = "activate" /\ q = PaidPeriod(sent[e], sent[e].settled)
      BY <2>1, <1>3 DEF Activate, Busy
    <3> QED  BY <2>1, <3>1, <1>1, <1>2, DoneRows DEF Activate, Mark
  <2>2. CASE Renew(p)
    <3>1. work[p].op = "renew" /\ q = PaidPeriod(sent[e], work[p].row.ends)
      BY <2>2, <1>3 DEF Renew, Busy
    <3> HIDE DEF q
    <3> QED  BY <2>2, <3>1, <1>1, <1>2, DoneRows DEF Renew, Mark
  <2> QED  BY <2>1, <2>2
<1> HIDE DEF q
<1>7. CASE UNCHANGED <<sub, periods>>
  <2>1. Settled
    BY <1>7 DEF Settled, Reached
  <2> QED  BY <2>1, <1>1, <1>6, <1>7, NoPaymentReaches
<1>8. CASE periods' = periods \cup {q} /\ (Activated(q) \/ Renewed(q.to))
  <2>1. Reach' = Reach + Period
    BY <1>1, <1>5, <1>6, <1>8, ReachGrows
  <2>2. /\ sub'.ends = sub.ends \/ sub'.ends = q.to
        /\ sub'.effective = sub.effective
        /\ sub'.cancelling => sub.cancelling
        /\ sub'.graceEnds \in {sub.graceEnds, Unset}
    BY <1>1, <1>8 DEF Activated, Renewed, Update, Shapes, RowType
  <2>3. Further
    BY <2>1, <2>2, <1>1, <1>4, <1>5, <1>6, <1>8 DEF Further, Reached
  <2> QED  BY <2>3, FurtherReaches
<1> QED  BY <1>6, <1>7, <1>8

\* A failed renewal may set the end of a grace by the boundary it read.
LEMMA FailureReaches ==
  ASSUME IInv, Reached, NEW p \in Procs, FailRenewal(p)
  PROVE  Reached'
<1>1. Shapes /\ Period \in Nat /\ Grace \in Nat /\ Reach \in Nat /\ Reach' = Reach /\ UNCHANGED periods
  BY ReachBounded, SubscriptionAssumption DEF IInv, FailRenewal, Reach, PaidBy
<1>2. \A r \in Procs : work'[r].row \in {work[r].row, sub, NewRow}
  BY <1>1, DoneRows DEF FailRenewal, Mark
<1>3. sub' = sub \/ Update([sub EXCEPT !.pay = "renewal_failed"]) \/ GraceFrom(work[p].row)
  BY DEF FailRenewal
<1>4. /\ sub'.ends = sub.ends /\ sub'.effective = sub.effective /\ sub'.cancelling = sub.cancelling
      /\ sub'.graceEnds = sub.graceEnds \/ sub'.graceEnds = work[p].row.ends + Grace
  BY <1>1, <1>3 DEF GraceFrom, Update, Shapes, RowType
<1>5. work[p].row.ends \in 0 .. Reach
  BY DEF Reached, Within
<1>6. Further
  BY <1>1, <1>2, <1>4, <1>5 DEF Further, Reached
<1> QED  BY <1>6, FurtherReaches

LEMMA RestReaches ==
  ASSUME IInv, Reached, NEW p \in Procs,
         \/ \E e \in Events : Deliver(p, e)
         \/ Answer(p) \/ FailInitial(p) \/ Overlap(p)
         \/ CancelRead(p) \/ DisableRead(p) \/ ResumeRead(p) \/ ScheduleEnd(p) \/ Resume(p)
         \/ Abandon(p) \/ ExpireCancellation \/ ExpireGrace \/ Tick \/ UNCHANGED vars
  PROVE  Reached'
<1>1. Shapes /\ UNCHANGED periods
  BY DEF IInv, Deliver, Answer, FailInitial, Overlap, CancelRead, DisableRead, ResumeRead, ParentAsks,
         ScheduleEnd, Resume, Abandon, ExpireCancellation, ExpireGrace, Tick, vars
<1>2. \A r \in Procs : work'[r].row \in {work[r].row, sub, NewRow}
  <2>1. CASE \/ \E e \in Events : Deliver(p, e)
             \/ CancelRead(p) \/ DisableRead(p) \/ ResumeRead(p)
    <3>1. PICK op \in Ops, of \in SUBSET Events : Arrive(p, op, of)
      BY <2>1 DEF Deliver, CancelRead, DisableRead, ResumeRead, ParentAsks, Ops
    <3> QED  BY <3>1, <1>1, ArriveRows
  <2>2. CASE \/ Answer(p) \/ FailInitial(p) \/ Overlap(p) \/ ScheduleEnd(p) \/ Resume(p) \/ Abandon(p)
    <3>1. Done(p)
      BY <2>2 DEF Answer, FailInitial, Overlap, ScheduleEnd, Resume, Abandon, Mark
    <3> QED  BY <3>1, <1>1, DoneRows
  <2>3. CASE ExpireCancellation \/ ExpireGrace \/ Tick \/ UNCHANGED vars
    BY <2>3 DEF ExpireCancellation, ExpireGrace, Tick, vars
  <2> QED  BY <2>1, <2>2, <2>3
<1>3. \/ sub' = sub
      \/ \E row \in {[sub EXCEPT !.status = "cancelled", !.pay = "failed"],
                     [sub EXCEPT !.pay = "overlap_resolution_required"],
                     EndingAtPeriodEnd,
                     [sub EXCEPT !.renews = TRUE, !.cancelling = FALSE, !.effective = Unset],
                     [sub EXCEPT !.status = "cancelled", !.renews = FALSE, !.cancelled = TRUE],
                     [sub EXCEPT !.status = "expired", !.pay = "inactive_nonpayment"]} : Update(row)
  BY DEF Deliver, Answer, FailInitial, Overlap, CancelRead, DisableRead, ResumeRead, ParentAsks,
         ScheduleEnd, Resume, Abandon, ExpireCancellation, ExpireGrace, Tick, vars
<1>4. \/ sub' = sub
      \/ \E row \in RowType : Update(row) /\ Bounded(row)
  <2>1. sub \in RowType /\ Unset \in Int
    BY <1>1 DEF Shapes, Unset
  <2>2. /\ [sub EXCEPT !.status = "cancelled", !.pay = "failed"] \in RowType
        /\ Bounded([sub EXCEPT !.status = "cancelled", !.pay = "failed"])
    BY <2>1 DEF RowType, Bounded
  <2>3. /\ [sub EXCEPT !.pay = "overlap_resolution_required"] \in RowType
        /\ Bounded([sub EXCEPT !.pay = "overlap_resolution_required"])
    BY <2>1 DEF RowType, Bounded
  <2>4. EndingAtPeriodEnd \in RowType /\ Bounded(EndingAtPeriodEnd)
    BY <2>1 DEF RowType, Bounded, EndingAtPeriodEnd
  <2>5. /\ [sub EXCEPT !.renews = TRUE, !.cancelling = FALSE, !.effective = Unset] \in RowType
        /\ Bounded([sub EXCEPT !.renews = TRUE, !.cancelling = FALSE, !.effective = Unset])
    BY <2>1 DEF RowType, Bounded
  <2>6. /\ [sub EXCEPT !.status = "cancelled", !.renews = FALSE, !.cancelled = TRUE] \in RowType
        /\ Bounded([sub EXCEPT !.status = "cancelled", !.renews = FALSE, !.cancelled = TRUE])
    BY <2>1 DEF RowType, Bounded
  <2>7. /\ [sub EXCEPT !.status = "expired", !.pay = "inactive_nonpayment"] \in RowType
        /\ Bounded([sub EXCEPT !.status = "expired", !.pay = "inactive_nonpayment"])
    BY <2>1 DEF RowType, Bounded
  <2> QED  BY <1>3, <2>2, <2>3, <2>4, <2>5, <2>6, <2>7
<1>5. /\ sub'.ends = sub.ends /\ sub'.graceEnds = sub.graceEnds
      /\ \/ sub'.effective = sub.effective /\ sub'.cancelling = sub.cancelling
         \/ sub'.effective = sub.ends
         \/ sub'.effective = Unset /\ ~sub'.cancelling
  BY <1>4 DEF Update, RowType, Bounded
<1>6. Settled
  BY <1>5, EndingIsSet DEF Settled
<1> QED  BY <1>1, <1>2, <1>6, NoPaymentReaches

LEMMA ReachedStays == IInv /\ Reached /\ [Next]_vars => Reached'
<1> SUFFICES ASSUME IInv, Reached, [Next]_vars
             PROVE  Reached'
  OBVIOUS
<1>1. CASE Procs = {}
  <2>1. UNCHANGED periods /\ \A p \in Procs : work'[p].row \in {work[p].row, sub, NewRow}
    BY <1>1 DEF Next, ExpireCancellation, ExpireGrace, Tick, vars
  <2>2. \/ sub' = sub
        \/ Update([sub EXCEPT !.status = "cancelled", !.renews = FALSE, !.cancelled = TRUE])
        \/ Update([sub EXCEPT !.status = "expired", !.pay = "inactive_nonpayment"])
    BY <1>1 DEF Next, ExpireCancellation, ExpireGrace, Tick, vars
  <2>3. Settled /\ Shapes
    BY <2>2, EndingIsSet DEF IInv, Update, Shapes, RowType, Settled
  <2> QED  BY <2>1, <2>3, NoPaymentReaches
<1>2. CASE \E p \in Procs : TRUE
  BY <1>2, PaymentReaches, FailureReaches, RestReaches DEF Next
<1> QED  BY <1>1, <1>2

\* The row, the ledger and what requests remember keep the shape of their tables; the
\* boundaries never run further ahead of the clock than a period for each payment and a grace.
THEOREM ShapesHold == Spec => []TypeOK
<1>1. IInv /\ Reached => TypeOK
  <2> SUFFICES ASSUME IInv, Reached
               PROVE  TypeOK
    OBVIOUS
  <2> DEFINE far == (Cardinality(Events) + 1) * Period
  <2>1. Shapes /\ Grace \in Nat /\ Period \in Nat /\ MaxTime \in Nat
    BY SubscriptionAssumption DEF IInv
  <2>2. far \in Nat /\ Reach \in Nat /\ Reach <= MaxTime + far
    BY <2>1, ReachBounded, PaidByFinite
  <2>3. Times = 0 .. (MaxTime + far + Grace)
    BY DEF Times
  <2> HIDE DEF far
  <2>4. 0 .. Reach \subseteq Times /\ 0 .. Reach + Grace \subseteq Times
    BY <2>1, <2>2, <2>3
  <2>5. ASSUME NEW row \in RowType, Within(row)
        PROVE  row \in Row
    BY <2>4, <2>5 DEF RowType, Row, Within
  <2>6. sub \in Row /\ \A p \in Procs : work[p].row \in Row
    BY <2>1, <2>5 DEF Reached, Shapes, WorkType
  <2>7. work \in [Procs -> Work]
    BY <2>1, <2>6 DEF Shapes, WorkType, Work
  <2>8. \A q \in periods : q.pay \in Events /\ q.from \in Times /\ q.to = q.from + Period
    BY <2>1, <2>4 DEF Reached, Shapes, PeriodType
  <2> QED  BY <2>1, <2>6, <2>7, <2>8 DEF TypeOK, Shapes, Intents, Statuses, Reached
<1>2. IInv /\ [Next]_vars => IInv'
  BY StepKeeps DEF Kept
<1> QED
  BY <1>1, <1>2, Start, StartReaches, ReachedStays, PTL DEF Spec
=============================================================================
