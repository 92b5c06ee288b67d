------------------------------- MODULE Journey -------------------------------
(****************************************************************************)
(* The journey of one learner in one app: what lessons, achievements and     *)
(* milestones project into it through their outboxes, the retention state    *)
(* that follows the learner's entitlement, and the purge that ends it.       *)
(****************************************************************************)
EXTENDS Integers

CONSTANTS
  Lessons, Achievements, Milestones,  \* what a journey event can come from
  Workers,                            \* processes that serve requests
  MaxGeneration                       \* bound on the learner's purges, plus one

VARIABLES
  entitled, \* hasRetentionActiveEntitlement
  ret,      \* learner_journey_retention_state
  status,   \* lesson_completions, learner_achievements and the milestones sent
  old,      \* sources dated before the last purge: event_at <= purged_through_at
  outbox,   \* lesson_ and achievement_journey_projection_outbox
  receipts, \* journey_mutation_receipts
  events,   \* learner_app_journey_events: the generation of each, 0 if there is none
  job,      \* what each process is doing
  calm      \* nothing has overlapped with anything (history)

vars == <<entitled, ret, status, old, outbox, receipts, events, job, calm>>

Sources == Lessons \cup Achievements \cup Milestones
Boxes   == ((Lessons \cup Achievements) \X {"upsert"}) \cup (Achievements \X {"remove"})

Nowhere == [op |-> "idle"]
Busy(p, op) == job[p].op = op
Goes(p, j)  == job' = [job EXCEPT ![p] = j]
Rest        == \A p \in Workers : Busy(p, "idle")
Arrive(p, j) == Busy(p, "idle") /\ Goes(p, j) /\ calm' = (calm /\ Rest)

------------------------------------------------------------------------------
\* reconcileLearnerRetentionState: an active learner leaves retention or purge; one that is not
\* enters retention, and its year begins. The row is written by learner, after it was read.
Settles ==
  CASE entitled /\ ret.state # "active" -> "active"
    [] ~entitled /\ ret.state = "active" -> "inactive_retention"
    [] OTHER -> "as it is"
Settled(r, to) == IF to = "as it is" THEN r ELSE [r EXCEPT !.state = to, !.due = FALSE]

RetentionRead(p) ==
  /\ Settles # "as it is"
  /\ Arrive(p, [op |-> "retain", to |-> Settles])
  /\ UNCHANGED <<entitled, ret, status, old, outbox, receipts, events>>

RetentionWrite(p) ==
  /\ Busy(p, "retain")
  /\ ret' = Settled(ret, job[p].to)
  /\ Goes(p, Nowhere)
  /\ UNCHANGED <<entitled, status, old, outbox, receipts, events, calm>>

\* Periods begin and end whatever the learner does.
Entitlement ==
  /\ entitled' = ~entitled
  /\ calm' = (calm /\ Rest)
  /\ UNCHANGED <<ret, status, old, outbox, receipts, events, job>>

\* Twelve months are longer than any request.
YearPasses ==
  /\ Rest
  /\ ret.state = "inactive_retention" /\ ~ret.due
  /\ ret' = [ret EXCEPT !.due = TRUE]
  /\ UNCHANGED <<entitled, status, old, outbox, receipts, events, job, calm>>

------------------------------------------------------------------------------
AlwaysMaterializes(state, s, before) == TRUE
\* materializationAllowed
Materializes(state, s, before) == state # "purged" /\ s \notin before

\* projectAchievementOutbox: a revoked achievement is removed whatever its row asks for.
AsAsked(box) == box[2] = "remove"
Removes(box) == box[2] = "remove" \/ status[box[1]] = "revoked"

\* projectLessonOutbox, projectAchievementOutbox read the outbox row and the source, projectEvent's
\* transaction the retention state, which it may also have to settle.
Projecting(box, mark, before) ==
  [op |-> "project", box |-> box, mark |-> mark, remove |-> Removes(box), to |-> Settles,
   generation |-> ret.generation, allowed |-> Materializes(Settled(ret, Settles).state, box[1], before)]

\* completeLesson and createAchievement commit the source with its outbox row, then try to project
\* it; the row stays pending. A session is open, so the learner has not been purged.
Earn(p, s) ==
  /\ s \in Lessons \cup Achievements /\ status[s] = "none"
  /\ ret.state # "purged"
  /\ status' = [status EXCEPT ![s] = "earned"]
  /\ outbox' = [outbox EXCEPT ![<<s, "upsert">>] = "pending"]
  /\ Arrive(p, Projecting(<<s, "upsert">>, FALSE, old))
  /\ UNCHANGED <<entitled, ret, old, receipts, events>>

\* revokeAchievement: once, under the record's version.
Revoke(p, s) ==
  /\ s \in Achievements /\ status[s] = "earned"
  /\ status' = [status EXCEPT ![s] = "revoked"]
  /\ outbox' = [outbox EXCEPT ![<<s, "remove">>] = "pending"]
  /\ Arrive(p, Projecting(<<s, "remove">>, FALSE, old))
  /\ UNCHANGED <<entitled, ret, old, receipts, events>>

\* reconcileJourney, mode 'reconcile': rows that are not processed are projected and marked.
Repair(p, box) ==
  /\ outbox[box] \in {"pending", "failed"}
  /\ Arrive(p, Projecting(box, TRUE, old))
  /\ UNCHANGED <<entitled, ret, status, old, outbox, receipts, events>>

\* createJourneyMilestone: acknowledged by the learner's progress or a completed lesson, dated when
\* the app says, and sent again with the same key and date.
Milestone(p, s, date) ==
  /\ s \in Milestones
  /\ IF status[s] = "none"
       THEN /\ date = "past" => ret.generation > 1
            /\ status' = [status EXCEPT ![s] = "sent"]
            /\ old' = IF date = "past" THEN old \cup {s} ELSE old
       ELSE UNCHANGED <<status, old>>
  /\ Arrive(p, Projecting(<<s, "upsert">>, FALSE, old'))
  /\ UNCHANGED <<entitled, ret, outbox, receipts, events>>

\* An outbox row is written by id; the purge may have deleted it.
Marked(box, mark) ==
  IF box \notin Boxes \/ outbox[box] = "none" THEN outbox ELSE [outbox EXCEPT ![box] = mark]

\* projectEvent commits: once for each receipt of the generation. The outbox row is marked after
\* the transaction, if the process lives to do it.
ProjectCommit(p, lives) ==
  LET j == job[p]
      s == j.box[1]
      r == <<j.generation, j.box, j.remove>>
      creates == r \notin receipts /\ ~j.remove /\ j.allowed /\ events[s] = 0
  IN  /\ Busy(p, "project")
      /\ ret' = Settled(ret, j.to)
      /\ receipts' = receipts \cup {r}
      /\ events' = CASE creates -> [events EXCEPT ![s] = j.generation]
                     [] r \notin receipts /\ j.remove -> [events EXCEPT ![s] = 0]
                     [] OTHER -> events
      /\ status' = IF creates /\ status[s] = "sent" THEN [status EXCEPT ![s] = "earned"] ELSE status
      /\ outbox' = IF j.mark /\ lives THEN Marked(j.box, "processed") ELSE outbox
      /\ Goes(p, Nowhere)
      /\ UNCHANGED <<entitled, old, calm>>

\* The projection throws, a unique index refusing it among the reasons.
ProjectFails(p) ==
  /\ Busy(p, "project")
  /\ outbox' = Marked(job[p].box, "failed")
  /\ Goes(p, Nowhere)
  /\ UNCHANGED <<entitled, ret, status, old, receipts, events, calm>>

------------------------------------------------------------------------------
\* purgeLearnerJourneyIfDue: the state is settled, then read with the entitlement once more.
PurgeRead(p) ==
  /\ ret.generation < MaxGeneration
  /\ ret' = Settled(ret, Settles)
  /\ ret'.state = "inactive_retention" /\ ret'.due
  /\ Arrive(p, [op |-> "purge"])
  /\ UNCHANGED <<entitled, status, old, outbox, receipts, events>>

\* Everything is deleted; the state is purged only if it still is the one that was read.
PurgeCommit(p) ==
  /\ Busy(p, "purge")
  /\ receipts' = {}
  /\ outbox' = [b \in Boxes |-> "none"]
  /\ events' = [s \in Sources |-> 0]
  /\ IF ret.state = "inactive_retention"
       THEN /\ ret' = [state |-> "purged", due |-> FALSE, generation |-> ret.generation + 1]
            /\ old' = {s \in Sources : status[s] # "none"}
       ELSE UNCHANGED <<ret, old>>
  /\ Goes(p, Nowhere)
  /\ UNCHANGED <<entitled, status, calm>>

\* The process dies, or its transaction is rolled back.
Abandon(p) ==
  /\ ~Busy(p, "idle")
  /\ Goes(p, Nowhere)
  /\ UNCHANGED <<entitled, ret, status, old, outbox, receipts, events, calm>>

------------------------------------------------------------------------------
Init ==
  /\ entitled = TRUE /\ calm = TRUE
  /\ ret = [state |-> "active", due |-> FALSE, generation |-> 1]
  /\ status = [s \in Sources |-> "none"]
  /\ old = {} /\ receipts = {}
  /\ outbox = [b \in Boxes |-> "none"]
  /\ events = [s \in Sources |-> 0]
  /\ job = [p \in Workers |-> Nowhere]

Next ==
  \/ Entitlement \/ YearPasses
  \/ \E p \in Workers :
       \/ RetentionRead(p) \/ RetentionWrite(p)
       \/ \E s \in Sources : Earn(p, s) \/ Revoke(p, s) \/ \E date \in {"past", "now"} : Milestone(p, s, date)
       \/ \E b \in Boxes : Repair(p, b)
       \/ ProjectFails(p)
       \/ \E lives \in BOOLEAN : ProjectCommit(p, lives)
       \/ PurgeRead(p) \/ PurgeCommit(p) \/ Abandon(p)

Spec == Init /\ [][Next]_vars

------------------------------------------------------------------------------
TypeOK ==
  /\ ret.state \in {"active", "inactive_retention", "purged"} /\ ret.due \in BOOLEAN
  /\ ret.generation \in Nat \ {0}
  /\ status \in [Sources -> {"none", "sent", "earned", "revoked"}] /\ old \subseteq Sources
  /\ outbox \in [Boxes -> {"none", "pending", "failed", "processed"}]
  /\ events \in [Sources -> Nat]
  /\ {entitled, calm} \subseteq BOOLEAN

\* What listJourney shows: the events of the learner's current generation.
Shown == IF ret.state = "purged" THEN {} ELSE {s \in Sources : events[s] = ret.generation}

\* When requests follow each other and nothing is left to project, the journey is what its sources
\* say, whichever projections failed and in which order they were repaired: every lesson, unrevoked
\* achievement and accepted milestone since the last purge is in it and nothing else
\* (projectEvent, reconcileJourney, purgeLearnerJourneyIfDue).
Projected == Rest /\ \A b \in Boxes : outbox[b] \in {"none", "processed"}
JourneyFollowsItsSources ==
  calm /\ Projected /\ ret.state # "purged"
    => Shown = {s \in Sources \ old : status[s] = "earned"}

\* What was purged is never shown again, however late projections, retries, retention jobs and
\* a returning learner overlap with the purge (materializationAllowed, the generation of an event).
NothingPurgedIsShown == Shown \cap old = {}
==============================================================================
