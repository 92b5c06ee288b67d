--------------------------- MODULE LearningReminders -----------------------------
(****************************************************************************)
(* The weekly reminder of one learner, app and stage: jobs that evaluate who *)
(* is due and put the reminder into a batch of the parent, senders that mail *)
(* a batch after looking again, and the job that retries what failed.  Each  *)
(* statement commits by itself but the record of a first attempt, and all    *)
(* but the inserts name their rows by id alone.                             *)
(****************************************************************************)
EXTENDS Naturals, FiniteSets

CONSTANTS Runs,         \* scheduler run keys, one batch of the parent each
          Procs,        \* processes, each under a job principal of its own
          MaxAttempts,  \* LEARNING_REMINDER_MAX_ATTEMPTS
          MaxChanges    \* bound: changes of the preference and of the eligibility

VARIABLES
  wanted, eligible,  \* the parent's preference; whether the reminder is still due
  changes,
  ran,       \* learning_reminder_job_runs of the evaluations, by principal and run key
  batch,     \* learning_reminder_batches: status, and how often the row has been made anew
  holder,    \* the run whose batch has the reminder's item, unique for the week and stage
  delivery,  \* learning_reminder_deliveries, cascading with the batch
  mailed,    \* how often each batch, deleted ones included, was given to the provider
  job,
  calm       \* no two principals evaluated one run key at once, nobody died or overlapped while mailing

vars == <<wanted, eligible, changes, ran, batch, holder, delivery, mailed, job, calm>>

NoOne == "no one"
NoBatch == [status |-> "none", made |-> 0]
NoDelivery == [status |-> "none", attempts |-> 0]
Idle == [at |-> "idle"]
DeliveryStatuses == {"none", "accepted", "uncertain", "retry_pending", "failed", "delivered"}
Deliveries == [status : DeliveryStatuses, attempts : 0..MaxAttempts]

TypeOK ==
  /\ wanted \in BOOLEAN /\ eligible \in BOOLEAN /\ changes \in 0..MaxChanges /\ calm \in BOOLEAN
  /\ ran \in [Procs -> [Runs -> {"none", "processing", "completed"}]]
  /\ batch \in [Runs -> [status : {"none", "ready", "suppressed", "sending", "sent", "failed"}, made : Nat]]
  /\ holder \in Runs \cup {NoOne}
  /\ delivery \in [Runs -> Deliveries]
  /\ mailed \in [Runs \X (1..Cardinality(Procs)) -> Nat]
  /\ job \in [Procs -> {Idle}
       \cup [at : {"batched", "placed"}, k : Runs, made : Nat, own : BOOLEAN, new : BOOLEAN]
       \cup [at : {"sending", "sent"}, k : Runs, made : Nat, answer : DeliveryStatuses]
       \cup [at : {"retrying", "retried"}, k : Runs, made : Nat, read : Deliveries, answer : DeliveryStatuses]]

Init ==
  /\ wanted = TRUE /\ eligible = TRUE /\ changes = 0 /\ calm = TRUE
  /\ ran = [p \in Procs |-> [k \in Runs |-> "none"]]
  /\ batch = [k \in Runs |-> NoBatch]
  /\ holder = NoOne
  /\ delivery = [k \in Runs |-> NoDelivery]
  /\ mailed = [b \in Runs \X (1..Cardinality(Procs)) |-> 0]
  /\ job = [p \in Procs |-> Idle]

\* The parent's versioned preference, and everything else a reminder depends on.
UpdatePreference ==
  /\ changes < MaxChanges /\ changes' = changes + 1
  /\ wanted' = ~wanted
  /\ UNCHANGED <<eligible, ran, batch, holder, delivery, mailed, job, calm>>
CandidateEligibility ==
  /\ changes < MaxChanges /\ changes' = changes + 1
  /\ eligible' = ~eligible
  /\ UNCHANGED <<wanted, ran, batch, holder, delivery, mailed, job, calm>>

Exists(k) == batch[k].status # "none"
Due == wanted /\ eligible

Evaluating == {"batched", "placed"}
\* The batch a job has read is still there: a write by its id finds a row.
Same(p) == Exists(job[p].k) /\ batch[job[p].k].made = job[p].made

\* startJob's row, then the batch of the run key, an earlier one included, if the reminder is due.
BeginEvaluation(p, k) ==
  /\ job[p] = Idle /\ ran[p][k] = "none"
  /\ IF Due
     THEN /\ ran' = [ran EXCEPT ![p][k] = "processing"]
          /\ batch' = IF Exists(k) THEN batch
                      ELSE [batch EXCEPT ![k] = [status |-> "ready", made |-> @.made + 1]]
          /\ job' = [job EXCEPT ![p] = [at |-> "batched", k |-> k, made |-> batch'[k].made,
                                        own |-> ~Exists(k), new |-> FALSE]]
     ELSE /\ ran' = [ran EXCEPT ![p][k] = "completed"]
          /\ UNCHANGED <<job, batch>>
  /\ calm' = (calm /\ \A q \in Procs : job[q] # Idle /\ job[q].k = k => job[q].at \notin Evaluating)
  /\ UNCHANGED <<wanted, eligible, changes, holder, delivery, mailed>>

\* The item goes into the batch unless one of the week exists; a batch that is gone refuses it.
PlaceItem(p) ==
  /\ job[p].at = "batched"
  /\ LET k == job[p].k
     IN IF holder # NoOne \/ Same(p)
        THEN /\ holder' = IF holder = NoOne THEN k ELSE holder
             /\ job' = [job EXCEPT ![p].at = "placed", ![p].new = (holder = NoOne)]
        ELSE /\ job' = [job EXCEPT ![p] = Idle]
             /\ UNCHANGED holder
  /\ UNCHANGED <<wanted, eligible, changes, ran, batch, delivery, mailed, calm>>

\* Mutant: a batch that was there before is deleted as well.
TookNothing(own, new) == ~new
\* A batch of one's own that took nothing is deleted again, with whatever it has come to hold.
Empty(own, new) == own /\ ~new
EndEvaluation(p) ==
  /\ job[p].at = "placed"
  /\ LET k == job[p].k
     IN IF Empty(job[p].own, job[p].new)
        THEN /\ batch' = [batch EXCEPT ![k].status = "none"]
             /\ delivery' = [delivery EXCEPT ![k] = NoDelivery]
             /\ holder' = IF holder = k THEN NoOne ELSE holder
        ELSE UNCHANGED <<batch, delivery, holder>>
  /\ ran' = [ran EXCEPT ![p][job[p].k] = "completed"]
  /\ job' = [job EXCEPT ![p] = Idle]
  /\ UNCHANGED <<wanted, eligible, changes, mailed, calm>>

Mailing(k) == {q \in Procs : job[q] # Idle /\ job[q].k = k /\ job[q].at \in {"sending", "sent", "retrying", "retried"}}
Begun(p, k, work) ==
  /\ job' = [job EXCEPT ![p] = work]
  /\ calm' = (calm /\ Mailing(k) = {})
  /\ UNCHANGED <<wanted, eligible, changes, ran, batch, holder, delivery, mailed>>

\* sendLearningReminder: a ready batch at the version the caller knows, no delivery of it.
BeginSend(p, k) ==
  /\ job[p] = Idle
  /\ batch[k].status = "ready" /\ delivery[k] = NoDelivery
  /\ Begun(p, k, [at |-> "sending", k |-> k, made |-> batch[k].made, answer |-> "none"])

\* The reconciliation of a delivery whose provider said nothing certain, or failed.
BeginRetry(p, k) ==
  /\ job[p] = Idle
  /\ delivery[k].status \in {"uncertain", "retry_pending"}
  /\ Begun(p, k, [at |-> "retrying", k |-> k, made |-> batch[k].made, read |-> delivery[k], answer |-> "none"])

SetBatch(p, status) == batch' = IF Same(p) THEN [batch EXCEPT ![job[p].k].status = status] ELSE batch
Ended(p) ==
  /\ job' = [job EXCEPT ![p] = Idle]
  /\ UNCHANGED <<wanted, eligible, changes, ran, holder, mailed>>

\* Mutant: one attempt more.
OnceMore(attempts) == attempts <= MaxAttempts
MayRetry(attempts) == attempts < MaxAttempts
MayMail(p) == job[p].at = "sending" \/ (job[p].at = "retrying" /\ MayRetry(job[p].read.attempts))

\* The parent, and each item, are looked at again; a batch of which nothing is left is suppressed.
StillHolds(p) == Due /\ Same(p) /\ holder = job[p].k
Suppress(p) ==
  /\ MayMail(p)
  /\ ~StillHolds(p)
  /\ SetBatch(p, "suppressed")
  /\ Ended(p)
  /\ UNCHANGED <<delivery, calm>>

Mail(p) ==
  /\ MayMail(p)
  /\ StillHolds(p)
  /\ mailed' = [mailed EXCEPT ![<<job[p].k, job[p].made>>] = @ + 1]
  /\ \E a \in {"accepted", "delivered", "uncertain", "failed"} :
       job' = [job EXCEPT ![p].answer = a, ![p].at = IF @ = "sending" THEN "sent" ELSE "retried"]
  /\ UNCHANGED <<wanted, eligible, changes, ran, batch, holder, delivery, calm>>

BatchAfter(status) ==
  CASE status \in {"accepted", "delivered"} -> "sent" [] status = "uncertain" -> "sending" [] OTHER -> "failed"

\* The first attempt's transaction: the second delivery of a batch is refused, and one of a deleted batch.
RecordSend(p) ==
  /\ job[p].at = "sent"
  /\ LET k == job[p].k
         status == IF job[p].answer = "failed" THEN "retry_pending" ELSE job[p].answer
     IN IF Same(p) /\ delivery[k] = NoDelivery
        THEN /\ delivery' = [delivery EXCEPT ![k] = [status |-> status, attempts |-> 1]]
             /\ SetBatch(p, BatchAfter(status))
        ELSE UNCHANGED <<delivery, batch>>
  /\ Ended(p) /\ UNCHANGED calm

\* A retry's record, whose attempt_count the schema CHECKs; the status is by what was read.
RetryStatus(answer, attempts) ==
  IF answer # "failed" THEN answer ELSE IF attempts + 1 >= MaxAttempts THEN "failed" ELSE "retry_pending"
RecordRetry(p) ==
  /\ job[p].at = "retried"
  /\ LET k == job[p].k
         status == RetryStatus(job[p].answer, job[p].read.attempts)
     IN IF Same(p) /\ delivery[k].attempts < MaxAttempts
        THEN /\ delivery' = [delivery EXCEPT ![k] = [status |-> status, attempts |-> @.attempts + 1]]
             /\ SetBatch(p, BatchAfter(status))
        ELSE UNCHANGED <<delivery, batch>>
  /\ Ended(p) /\ UNCHANGED calm

\* What a reconciliation settles without mailing: the provider knows, or the attempts are used up.
Settle(p) ==
  /\ job[p].at = "retrying"
  /\ \E status \in {"delivered", "failed"} :
       /\ status = "delivered" => job[p].read.status = "uncertain"
       /\ status = "failed" => ~MayRetry(job[p].read.attempts)
       /\ delivery' = IF Same(p) THEN [delivery EXCEPT ![job[p].k].status = status] ELSE delivery
       /\ SetBatch(p, BatchAfter(status))
  /\ Ended(p) /\ UNCHANGED calm

\* The provider has no news yet, or the process dies; its evaluation's row stays "processing".
Abandon(p) ==
  /\ job[p] # Idle
  /\ calm' = (calm /\ job[p].at \notin {"sent", "retried"})
  /\ Ended(p)
  /\ UNCHANGED <<batch, delivery>>

Next ==
  \/ UpdatePreference \/ CandidateEligibility
  \/ \E p \in Procs :
       \/ \E k \in Runs : BeginEvaluation(p, k) \/ BeginSend(p, k) \/ BeginRetry(p, k)
       \/ PlaceItem(p) \/ EndEvaluation(p) \/ Suppress(p) \/ Mail(p)
       \/ RecordSend(p) \/ RecordRetry(p) \/ Settle(p) \/ Abandon(p)

Spec == Init /\ [][Next]_vars

(****************************************************************************)
(* A parent gets the reminder of a learner, app, week and stage in one batch *)
(* only, and that batch at most LEARNING_REMINDER_MAX_ATTEMPTS times,        *)
(* however often and by whomever the jobs are run, and whatever is opted out *)
(* and in again in between.                                                 *)
(****************************************************************************)
RemindedOnce == calm =>
  /\ Cardinality({b \in DOMAIN mailed : mailed[b] > 0}) <= 1
  /\ \A b \in DOMAIN mailed : mailed[b] <= MaxAttempts
===================================================================================
