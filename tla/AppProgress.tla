----------------------------- MODULE AppProgress -----------------------------
(****************************************************************************)
(* The progress of one learner in one app: checkpoints, lesson completions,   *)
(* summaries and recoveries that the app's session writes, the migration to  *)
(* the schema of the release a session starts on, the integrity gate before  *)
(* each of them, and the incidents the gate opens.                           *)
(*                                                                          *)
(* The state itself is the key of the request that wrote it; its canonical   *)
(* hash covers that key, the version and the schema.                         *)
(****************************************************************************)
EXTENDS Integers, FiniteSets

CONSTANTS
  Requests,    \* idempotency keys of the app
  Lessons,     \* lessons of the app
  Workers,     \* processes that serve requests
  MaxVersion,  \* bound on progress_version
  MaxSessions, \* bound on the sessions of the learner
  MaxTries     \* bound on an incident's version

ASSUME ProgressAssumption == {MaxVersion, MaxSessions, MaxTries} \subseteq Nat

VARIABLES
  row,       \* learner_app_progress
  completed, \* progress_version_after_completion of each lesson, 0 if it is not complete
  live,      \* the learner's session: its number and the schema of its release
  sent,      \* what each key was first sent with
  answered,  \* keys with a receipt that has not expired
  recovered, \* recovery sequences accepted in the live session
  receipts,  \* schemas this learner's row was migrated to
  shared,    \* another learner of the app has a migration receipt
  gate,      \* learner_app_progress_integrity
  incident,  \* the active incident, or the last one
  flagged,   \* categories of the session's open recovery incidents
  job,       \* the request each process serves
  accepted,  \* versions that an accepted write was composed on (history)
  inTurn     \* no two requests have overlapped (history)

vars == <<row, completed, live, sent, answered, recovered, receipts, shared, gate, incident, flagged, job,
          accepted, inTurn>>

Nothing == "nothing"   \* no key: no state yet, or one a migration wrote
Schemas == 1..2        \* registered for the app's releases; 1 is the lowest
Kinds   == {"checkpoint", "complete", "summary", "recover"}

NoRow     == [version |-> 0, by |-> {}, hashed |-> 0, schema |-> 1, receipt |-> 0, session |-> 0, seq |-> 0,
              basedOn |-> 0]
NoSession == [id |-> 0, schema |-> 1]
Unsent    == [kind |-> "none", session |-> 0, schema |-> 1, base |-> 0, on |-> {}, seq |-> 0, summary |-> FALSE]
Healthy   == "healthy"
NoGate    == [class |-> Healthy, acknowledged |-> FALSE]
NoCase    == [status |-> "none", version |-> 0]
Idle      == [op |-> "idle", key |-> {}, seen |-> NoRow, session |-> NoSession, max |-> 0]

Busy(p, op) == job[p].op = op
KeyOf(p)    == CHOOSE k \in Requests : k \in job[p].key
Goes(p, j)  == job' = [job EXCEPT ![p] = j]
Arrive(p, j) ==
  /\ Busy(p, "idle")
  /\ Goes(p, j)
  /\ inTurn' = (inTurn /\ \A q \in Workers : Busy(q, "idle"))

------------------------------------------------------------------------------
\* buildEvidence, classifyIntegrity: what is wrong with a row, most severe first. ack: an
\* operator has accepted a schema without a receipt.
Corrupt(r)    == r.hashed # r.version
Mismatched(r) == r.receipt \notin {0, r.schema}
Unproven(r)   == r.receipt = 0 /\ r.schema # 1
Orphaned(r)   == \E l \in Lessons : completed[l] > r.version
Ahead(r)      == r.basedOn > r.version
Stale(r)      == r.basedOn \notin {0, r.version}
HasHistory    == shared \/ receipts # {}

Classify(r, ack) ==
  IF r.version = 0 THEN Healthy
  ELSE IF Corrupt(r) THEN "unreadable_corrupt"
  ELSE IF Mismatched(r) \/ Orphaned(r) \/ (Unproven(r) /\ ~ack /\ HasHistory) THEN "blocked_conflict"
  ELSE IF Ahead(r) THEN "blocked_repairable_metadata"
  ELSE IF (Unproven(r) /\ ~ack) \/ Stale(r) THEN "read_only_safe"
  ELSE Healthy
Class == Classify(row, gate.acknowledged)
Blocks(class) == class # Healthy

\* needsIncident: a summary that is merely stale opens none.
NeedsIncident(r, class, ack) ==
  class # Healthy /\ (class = "read_only_safe" => Unproven(r) /\ ~ack)

\* upsertIncident: the active incident is counted up, or one is opened (ux_pii_active).
Counted(c) == IF c.status = "open" THEN [c EXCEPT !.version = @ + 1] ELSE [status |-> "open", version |-> 1]
Upserted(r, class, ack) == IF NeedsIncident(r, class, ack) THEN Counted(incident) ELSE incident

\* validateProgressIntegrity: the verdict on a row is stored, and its incident with it.
Judged(r) ==
  LET class == Classify(r, gate.acknowledged)
  IN  /\ incident.version < MaxTries
      /\ gate' = [gate EXCEPT !.class = class]
      /\ incident' = Upserted(r, class, gate.acknowledged)
Validated == Judged(row)

------------------------------------------------------------------------------
\* confirmUsableLaunch: one session of a learner is live at a time; its progress has to be
\* healthy, and is migrated to the schema of its release.
Launch(p, schema) ==
  /\ live.id < MaxSessions
  /\ Class = Healthy
  /\ Validated
  /\ Arrive(p, [Idle EXCEPT !.op = "launch", !.seen = row, !.session = [id |-> live.id + 1, schema |-> schema]])
  /\ UNCHANGED <<row, completed, live, sent, answered, recovered, receipts, shared, flagged, accepted>>

\* migrateLearnerProgressToReleaseSchema: the state that was read, with a hash of its version,
\* written by learner and app.
Migrated(p) == LET to == job[p].session.schema
               IN  [row EXCEPT !.schema = to, !.by = {Nothing}, !.hashed = job[p].seen.version, !.receipt = to]
LaunchCommit(p) ==
  LET seen == job[p].seen
      to   == job[p].session.schema
  IN  /\ Busy(p, "launch")
      /\ IF job[p].session.id # live.id + 1  \* another launch took the learner's place
           THEN UNCHANGED <<row, live, recovered, receipts, flagged>>
           ELSE /\ live' = job[p].session
                /\ recovered' = {}
                /\ flagged' = {}
                /\ IF seen.version = 0 \/ seen.schema = to
                     THEN UNCHANGED <<row, receipts>>
                     ELSE /\ row' = Migrated(p)
                          /\ receipts' = receipts \cup {to}
      /\ Goes(p, Idle)
      /\ UNCHANGED <<completed, sent, answered, shared, gate, incident, accepted, inTurn>>

------------------------------------------------------------------------------
\* The app sends a key with what it knows of the progress, which another tab may have changed since;
\* a retry sends the same.
Payload(k, kind, seq, summary, fresh) ==
  IF sent[k] # Unsent THEN sent[k]
  ELSE [kind |-> kind, session |-> live.id, schema |-> live.schema,
        base |-> IF fresh THEN row.version ELSE row.version - 1, on |-> IF fresh THEN row.by ELSE {},
        seq |-> seq, summary |-> summary]

\* assertVersionSequence
InSequence(s)  == row.session = s.session => s.seq > row.seq
AnyVersion(s)  == TRUE
InVersion(s)   == row.version = s.base

\* Guards of each write, read before it: saveCheckpoint, completeLesson, writeProgressSummary and
\* recoverCurrentProgress. A lesson that is complete is only reported again.
MayWrite(s) ==
  CASE s.kind = "checkpoint" -> InVersion(s) /\ InSequence(s)
    [] s.kind = "complete" -> InVersion(s) /\ InSequence(s) /\ \E l \in Lessons : completed[l] = 0
    [] s.kind = "summary" -> s.base > 0 /\ InVersion(s)
    [] OTHER -> TRUE

\* The session is read, the gate validated, the receipt looked up, and the transaction's own
\* read of the row is one step with them: the version it has to equal is the request's.
Send(p, k, kind, seq, summary, fresh) ==
  LET s == Payload(k, kind, seq, summary, fresh)
  IN  /\ live.id # 0 /\ s.base >= 0
      /\ s.session = live.id
      /\ k \notin answered
      /\ ~Blocks(Class)
      /\ s.kind # "summary" => s.base < MaxVersion
      /\ MayWrite(s)
      /\ Validated
      /\ sent' = [sent EXCEPT ![k] = s]
      /\ Arrive(p, [Idle EXCEPT !.op = "write", !.key = {k}, !.seen = row, !.session = live,
                               !.max = IF \E n \in recovered : n >= s.seq THEN s.seq ELSE 0])
      /\ UNCHANGED <<row, completed, live, answered, recovered, receipts, shared, flagged, accepted>>

\* The gate refuses; a recovery leaves an incident of its own.
Refused(p, k) ==
  /\ live.id # 0 /\ Busy(p, "idle")
  /\ Blocks(Class)
  /\ Validated
  /\ flagged' = IF sent[k].kind = "recover" THEN flagged \cup {"integrity_blocked"} ELSE flagged
  /\ UNCHANGED <<row, completed, live, sent, answered, recovered, receipts, shared, job, accepted, inTurn>>

------------------------------------------------------------------------------
\* A checkpoint or completion writes the whole row from what was read, and carries an old
\* summary over as it was.
Written(p, s) ==
  LET next == job[p].seen.version + 1
  IN  [row EXCEPT !.version = next, !.by = job[p].key, !.hashed = next, !.schema = s.schema,
                  !.session = s.session, !.seq = s.seq,
                  !.basedOn = IF s.summary THEN next ELSE job[p].seen.basedOn]

\* A recovery leaves the session, the sequence and the summary alone.
Recovered(p, s) ==
  LET next == job[p].seen.version + 1
      w == [row EXCEPT !.version = next, !.by = job[p].key, !.hashed = next, !.schema = s.schema]
  IN  IF row.version = 0 THEN [w EXCEPT !.session = s.session, !.seq = 0] ELSE w

Keeps(p, k) ==
  /\ answered' = answered \cup {k}
  /\ accepted' = accepted \cup {sent[k].base}
Answer(p, k) == k \notin answered   \* the primary key of the receipts refuses the second

\* saveCheckpoint
Checkpoint(p) ==
  LET k == KeyOf(p)
  IN  /\ Busy(p, "write") /\ sent[k].kind = "checkpoint" /\ Answer(p, k)
      /\ row' = Written(p, sent[k])
      /\ Keeps(p, k)
      /\ Goes(p, Idle)
      /\ UNCHANGED <<completed, live, sent, recovered, receipts, shared, gate, incident, flagged, inTurn>>

\* completeLesson: the completion is unique; the row, if there is one, is updated.
Complete(p, l) ==
  LET k == KeyOf(p)
  IN  /\ Busy(p, "write") /\ sent[k].kind = "complete" /\ Answer(p, k) /\ completed[l] = 0
      /\ completed' = [completed EXCEPT ![l] = job[p].seen.version + 1]
      /\ IF row.version = 0
           THEN answered' = answered \cup {k} /\ UNCHANGED <<row, accepted>>
           ELSE row' = Written(p, sent[k]) /\ Keeps(p, k)
      /\ Goes(p, Idle)
      /\ UNCHANGED <<live, sent, recovered, receipts, shared, gate, incident, flagged, inTurn>>

\* writeProgressSummary: only if the version is still the one the summary is based on.
Summarise(p) ==
  LET k == KeyOf(p)
  IN  /\ Busy(p, "write") /\ sent[k].kind = "summary" /\ Answer(p, k)
      /\ row' = IF row.version = sent[k].base THEN [row EXCEPT !.basedOn = sent[k].base] ELSE row
      /\ answered' = answered \cup {k}
      /\ Goes(p, Idle)
      /\ UNCHANGED <<completed, live, sent, recovered, receipts, shared, gate, incident, flagged, accepted, inTurn>>

\* recoverCurrentProgress: version and hash must be those the browser last knew; a sequence
\* already used is refused, and its receipt rolled back with it. After the commit the row is
\* validated once more, if the process lives.
IsCurrent(p, s)  == job[p].seen.version = s.base /\ job[p].seen.by = s.on
Recover(p, lives) ==
  LET k == KeyOf(p)
      s == sent[k]
  IN  /\ Busy(p, "write") /\ s.kind = "recover" /\ Answer(p, k)
      /\ CASE ~IsCurrent(p, s) ->
                /\ flagged' = flagged \cup {"stale"}
                /\ answered' = answered \cup {k}
                /\ UNCHANGED <<row, recovered, gate, incident, accepted>>
           [] IsCurrent(p, s) /\ job[p].max # 0 ->
                UNCHANGED <<row, recovered, flagged, gate, incident, answered, accepted>>
           [] OTHER ->
                /\ row' = Recovered(p, s)
                /\ recovered' = recovered \cup {s.seq}
                /\ Keeps(p, k)
                /\ IF lives THEN Judged(Recovered(p, s)) ELSE UNCHANGED <<gate, incident>>
                /\ UNCHANGED flagged
      /\ Goes(p, Idle)
      /\ UNCHANGED <<completed, live, sent, receipts, shared, inTurn>>

\* A transaction that is refused by a unique index, or a process that dies: nothing is written.
Abandon(p) ==
  /\ ~Busy(p, "idle")
  /\ Goes(p, Idle)
  /\ UNCHANGED <<row, completed, live, sent, answered, recovered, receipts, shared, gate, incident, flagged,
                 accepted, inTurn>>

\* purgeProgressMutationReceipts: an hour after the answer.
Purge(k) ==
  /\ k \in answered /\ sent[k].kind # "recover"
  /\ answered' = answered \ {k}
  /\ UNCHANGED <<row, completed, live, sent, recovered, receipts, shared, gate, incident, flagged, job, accepted,
                 inTurn>>

\* reconcileRecoveryReceipt: a receipt that the row has moved on from is flagged.
ReconcileRecovery(k) ==
  /\ k \in answered /\ sent[k].kind = "recover" /\ sent[k].session = live.id
  /\ sent[k].seq \in recovered /\ row.by # {k}
  /\ flagged' = flagged \cup {"incomplete_receipt"}
  /\ UNCHANGED <<row, completed, live, sent, answered, recovered, receipts, shared, gate, incident, job, accepted,
                 inTurn>>

\* runReconciliationSweep, for this learner's row.
Sweep ==
  /\ Validated
  /\ <<gate, incident>>' # <<gate, incident>>
  /\ UNCHANGED <<row, completed, live, sent, answered, recovered, receipts, shared, flagged, job, accepted, inTurn>>

------------------------------------------------------------------------------
\* applyIncidentAction: what the operator changes, then the classifier's own verdict; only
\* resolve_legacy_policy, resolve_false_positive and routing close an incident against it. An
\* incident that is closed can be acted on; the verdict may open the next.
Changed(action) == IF action = "link_matching_receipt" THEN [row EXCEPT !.receipt = row.schema] ELSE row
Acknowledges(action) == gate.acknowledged \/ action = "resolve_legacy_policy"
Settles(action, class) ==
  \/ class \in {Healthy, "read_only_safe"}
  \/ action = "resolve_legacy_policy"
Act(action) ==
  LET r == Changed(action)
      class == Classify(r, Acknowledges(action))
      upserted == Upserted(r, class, Acknowledges(action))
  IN  /\ incident.status # "none" /\ incident.version < MaxTries - 1
      /\ CASE action = "link_matching_receipt" -> row.version # 0 /\ row.schema \in receipts
           [] action = "resolve_legacy_policy" -> gate.class = "read_only_safe"
           [] action = "retry_safe_metadata_repair" -> gate.class = "blocked_repairable_metadata"
           [] OTHER -> TRUE
      /\ IF action \in {"open_disaster_recovery_case", "resolve_false_positive"}
           THEN incident' = [status |-> "closed", version |-> incident.version + 1] /\ UNCHANGED <<row, gate>>
           ELSE /\ row' = r
                /\ gate' = [class |-> class, acknowledged |-> Acknowledges(action)]
                /\ incident' = IF incident.status = "closed" THEN upserted
                               ELSE [status |-> IF Settles(action, class) THEN "closed" ELSE "open",
                                     version |-> upserted.version + 1]
      /\ UNCHANGED <<completed, live, sent, answered, recovered, receipts, shared, flagged, job, accepted, inTurn>>
Actions == {"revalidate", "retry_safe_metadata_repair", "link_matching_receipt", "resolve_legacy_policy",
            "open_disaster_recovery_case", "resolve_false_positive"}

Init ==
  /\ row = NoRow /\ live = NoSession /\ gate = NoGate /\ incident = NoCase
  /\ completed = [l \in Lessons |-> 0]
  /\ sent = [k \in Requests |-> Unsent]
  /\ answered = {} /\ recovered = {} /\ receipts = {} /\ flagged = {}
  /\ shared \in BOOLEAN
  /\ job = [p \in Workers |-> Idle]
  /\ accepted = {} /\ inTurn = TRUE

Next ==
  \/ \E p \in Workers :
       \/ \E schema \in Schemas : Launch(p, schema)
       \/ \E k \in Requests :
            \/ \E kind \in Kinds, seq \in 1..2, summary, fresh \in BOOLEAN : Send(p, k, kind, seq, summary, fresh)
            \/ Refused(p, k)
       \/ LaunchCommit(p) \/ Checkpoint(p) \/ Summarise(p) \/ Abandon(p)
       \/ \E lives \in BOOLEAN : Recover(p, lives)
       \/ \E l \in Lessons : Complete(p, l)
  \/ \E k \in Requests : Purge(k) \/ ReconcileRecovery(k)
  \/ Sweep
  \/ \E action \in Actions : Act(action)

Spec == Init /\ [][Next]_vars

------------------------------------------------------------------------------
TypeOK ==
  /\ row.version \in 0..MaxVersion + 1 /\ row.schema \in Schemas /\ row.receipt \in Schemas \cup {0}
  /\ row.basedOn \in 0..MaxVersion + 1 /\ row.seq \in 0..2 /\ row.session \in 0..MaxSessions
  /\ live.id \in 0..MaxSessions /\ completed \in [Lessons -> 0..MaxVersion + 1]
  /\ answered \subseteq Requests /\ recovered \subseteq 1..2 /\ receipts \subseteq Schemas
  /\ gate.class \in {Healthy, "read_only_safe", "blocked_repairable_metadata", "blocked_conflict",
                     "unreadable_corrupt"}
  /\ incident.version \in 0..MaxTries
  /\ accepted \subseteq 0..MaxVersion /\ inTurn \in BOOLEAN

\* Requests that follow each other never lose a write nor make one twice: each version was made by one
\* accepted checkpoint, completion or recovery, composed on the version before it, whatever another tab
\* wrote meanwhile and whatever was retried after its receipt expired (saveCheckpoint,
\* completeLesson, recoverCurrentProgress); and no sequence of sessions, migrations and writes leaves
\* a row its own gate calls corrupt, mismatched, orphaned or ahead of itself.
ProgressIsNeverForked ==
  inTurn => /\ accepted = 0..row.version - 1
            /\ ~Corrupt(row) /\ ~Mismatched(row) /\ ~Ahead(row)
            /\ row.version # 0 => ~Orphaned(row)
==============================================================================
