---------------------------- MODULE LearningProofs ----------------------------
(****************************************************************************)
(* What the progress of an app, the journey and the weekly consistency        *)
(* promise for any numbers of requests, processes, achievements and weeks.     *)
(* The three never write to each other, so that each keeps an invariant of its *)
(* own, and a step of MCLearning is one of a single part. What a fold over the *)
(* weeks returns is proved by induction over the weeks, as a set of numbers    *)
(* that has no least member outside of it.                                     *)
(****************************************************************************)
EXTENDS MCLearning, WellFoundedInduction, TLAPS

-----------------------------------------------------------------------------
(* The progress of a learner in an app (AppProgress).                         *)

Authors  == Requests \cup {Nothing}
Rows     == [version : 0..MaxVersion, by : SUBSET Authors, hashed : Nat, schema : Schemas,
             receipt : Schemas \cup {0}, session : 0..MaxSessions, seq : 0..2, basedOn : 0..MaxVersion]
Launches == [id : 0..MaxSessions, schema : Schemas]
Sendings == [kind : Kinds \cup {"none"}, session : 0..MaxSessions, schema : Schemas, base : Nat,
             on : SUBSET Authors, seq : 0..2, summary : BOOLEAN]
Tasks    == [op : {"idle", "write", "launch"}, key : SUBSET Requests, seen : Rows, session : Launches, max : 0..2]
Classes  == {Healthy, "read_only_safe", "blocked_repairable_metadata", "blocked_conflict", "unreadable_corrupt"}
Incident == [status : {"none", "open", "closed"}, version : 0..MaxTries]

Columns ==
  /\ row \in Rows /\ live \in Launches /\ sent \in [Requests -> Sendings]
  /\ completed \in [Lessons -> 0..MaxVersion + 1]
  /\ answered \subseteq Requests /\ recovered \subseteq 1..2 /\ receipts \subseteq Schemas
  /\ accepted \subseteq 0..MaxVersion

Judgements ==
  /\ gate \in [class : Classes, acknowledged : BOOLEAN] /\ incident \in Incident

\* What a request carries: the key it was sent with, which was composed on the row it has read.
Composed(j) ==
  j.op = "write" => \E k \in Requests :
    /\ j.key = {k} /\ sent[k].kind \in Kinds
    /\ sent[k].kind # "summary" => sent[k].base < MaxVersion
    /\ sent[k].kind \in {"checkpoint", "complete"} => j.seen.version = sent[k].base
Serving == job \in [Workers -> Tasks] /\ (\A p \in Workers : Composed(job[p])) /\ inTurn \in BOOLEAN

\* What was sent in a session is of the schema of its release.
OfItsSession ==
  \A k \in Requests : sent[k].kind # "none" =>
    sent[k].session <= live.id /\ (sent[k].session = live.id => sent[k].schema = live.schema)
SentOnce == \A k \in Requests : sent[k] = Unsent \/ (sent[k].kind # "none" /\ sent[k].seq \in 1..2)

\* Of requests that follow each other: one has read the row as it is, in the session that is live.
Current(j) ==
  /\ j.op # "idle" => j.seen.version = row.version /\ j.seen.by = row.by /\ j.seen.basedOn = row.basedOn
  /\ j.op = "launch" => j.seen.schema = row.schema
  /\ j.op = "write" => \A k \in j.key : sent[k].session = live.id
Proven ==
  /\ row.version # 0 => row.schema = live.schema
  /\ row.version = 0 => row.receipt = 0
  /\ row.receipt \in {0, row.schema} /\ row.hashed = row.version /\ row.basedOn <= row.version
OnePerVersion == accepted = 0..row.version - 1
Attached == \A l \in Lessons : completed[l] <= row.version \/ (row.version = 0 /\ completed[l] <= 1)
ProgressInTurn ==
  inTurn => /\ \A p, q \in Workers : ~Busy(p, "idle") /\ ~Busy(q, "idle") => p = q
            /\ \A p \in Workers : Current(job[p])
            /\ Proven /\ OnePerVersion /\ Attached

ProgressInv == Columns /\ Judgements /\ Serving /\ OfItsSession /\ SentOnce /\ ProgressInTurn

LEMMA Bounds == MaxVersion \in Nat /\ MaxSessions \in Nat /\ MaxTries \in Nat
BY ProgressAssumption

LEMMA NoneSent ==
  /\ NoRow \in Rows /\ NoSession \in Launches /\ Unsent \in Sendings
  /\ Idle \in Tasks /\ Idle.op = "idle" /\ Idle.key = {} /\ Idle.max = 0
BY Bounds DEF NoRow, NoSession, Unsent, Idle, Rows, Launches, Sendings, Tasks, Schemas, Kinds

LEMMA ProgressInit == Init => ProgressInv
<1> SUFFICES ASSUME Init PROVE ProgressInv
  OBVIOUS
<1>1. Columns
  BY NoneSent, Bounds DEF Init, Columns
<1>2. Judgements
  BY Bounds DEF Init, Judgements, NoGate, NoCase, Classes, Incident, Healthy
<1>3. \A p \in Workers : job[p] = Idle
  BY DEF Init
<1>4. Serving
  BY <1>3, NoneSent DEF Init, Serving, Composed, Idle
<1>5. OfItsSession /\ SentOnce
  BY DEF Init, OfItsSession, SentOnce, Unsent
<1>6. ProgressInTurn
  <2>1. Proven /\ OnePerVersion /\ Attached
    BY DEF Init, NoRow, NoSession, Proven, OnePerVersion, Attached
  <2>2. \A p \in Workers : Current(job[p]) /\ Busy(p, "idle")
    BY <1>3 DEF Current, Idle, Busy
  <2> QED  BY <2>1, <2>2 DEF ProgressInTurn
<1> QED  BY <1>1, <1>2, <1>4, <1>5, <1>6 DEF ProgressInv

\* Every verdict is a class, and an incident is counted up to the bound.
LEMMA ClassIsClass ==
  ASSUME NEW r, NEW ack PROVE Classify(r, ack) \in Classes
BY DEF Classify, Classes

LEMMA JudgedIs ==
  ASSUME ProgressInv, NEW r, Judged(r) PROVE Judgements'
<1> DEFINE class == Classify(r, gate.acknowledged)
<1>1. class \in Classes
  BY ClassIsClass
<1>2. gate' = [gate EXCEPT !.class = class] /\ incident.version < MaxTries
      /\ incident' = Upserted(r, class, gate.acknowledged)
  BY DEF Judged
<1> HIDE DEF class
<1>3. gate' \in [class : Classes, acknowledged : BOOLEAN]
  BY <1>1, <1>2 DEF ProgressInv, Judgements
<1>4. incident' \in Incident
  BY <1>2, Bounds DEF ProgressInv, Judgements, Upserted, Counted, Incident
<1> QED  BY <1>3, <1>4 DEF Judgements

\* A step that leaves the columns and what a process has in hand.
LEMMA JobsStay ==
  ASSUME ProgressInv, UNCHANGED <<sent, job, inTurn>> PROVE Serving'
BY DEF ProgressInv, Serving, Composed

\* A process takes a request on, or has ended one.
LEMMA Takes ==
  ASSUME ProgressInv, NEW p \in Workers, NEW j \in Tasks, Composed(j)', Goes(p, j), inTurn' \in BOOLEAN,
         \A k \in Requests : sent[k].kind \in Kinds => sent'[k] = sent[k]
  PROVE  Serving'
<1>1. job' \in [Workers -> Tasks] /\ \A q \in Workers : job'[q] = IF q = p THEN j ELSE job[q]
  BY DEF ProgressInv, Serving, Goes
<1>2. ASSUME NEW q \in Workers, q # p PROVE Composed(job[q])'
  <2>1. job'[q] = job[q] /\ Composed(job[q])
    BY <1>1, <1>2 DEF ProgressInv, Serving
  <2> QED  BY <2>1 DEF Composed
<1>3. Composed(job[p])'
  BY <1>1 DEF Composed
<1> QED  BY <1>1, <1>2, <1>3 DEF Serving

LEMMA IdleIsComposed == Composed(Idle)' /\ Current(Idle)'
BY DEF Composed, Current, Idle

LEMMA Ends ==
  ASSUME ProgressInv, NEW p \in Workers, Goes(p, Idle), UNCHANGED <<sent, inTurn>> PROVE Serving'
BY Takes, NoneSent, IdleIsComposed DEF ProgressInv, Serving

LEMMA LaunchStep ==
  ASSUME ProgressInv, NEW p \in Workers, NEW schema \in Schemas, Launch(p, schema) PROVE ProgressInv'
<1>0. PICK j : j = [Idle EXCEPT !.op = "launch", !.seen = row, !.session = [id |-> live.id + 1, schema |-> schema]]
  OBVIOUS
<1>1. j \in Tasks /\ j.op = "launch" /\ j.seen = row
  <2>1. PICK started : started = [id |-> live.id + 1, schema |-> schema]
    OBVIOUS
  <2>2. started \in Launches /\ row \in Rows
    BY <2>1, Bounds DEF ProgressInv, Columns, Launch, Launches
  <2> QED  BY <1>0, <2>1, <2>2, NoneSent DEF Tasks
<1>2. Busy(p, "idle") /\ Goes(p, j) /\ inTurn' = (inTurn /\ \A q \in Workers : Busy(q, "idle"))
  BY <1>0 DEF Launch, Arrive
<1>3. UNCHANGED <<row, completed, live, sent, answered, recovered, receipts, shared, flagged, accepted>>
  BY DEF Launch
<1>4. Columns' /\ OfItsSession' /\ SentOnce'
  BY <1>3 DEF ProgressInv, Columns, OfItsSession, SentOnce
<1>5. Judgements'
  BY JudgedIs DEF Launch, Validated
<1>6. Serving'
  <2>1. Composed(j)'
    BY <1>1 DEF Composed
  <2>2. inTurn' \in BOOLEAN
    BY <1>2
  <2> QED  BY <1>1, <1>2, <1>3, <2>1, <2>2, Takes
<1>7. ProgressInTurn'
  <2> SUFFICES ASSUME inTurn' PROVE ProgressInTurn'
    BY DEF ProgressInTurn
  <2>1. inTurn /\ \A q \in Workers : job[q].op = "idle"
    BY <1>2 DEF Busy
  <2>2. \A q \in Workers : job'[q] = IF q = p THEN j ELSE job[q]
    BY <1>2 DEF ProgressInv, Serving, Goes
  <2>3. \A q \in Workers : job'[q].op # "idle" => q = p
    BY <2>1, <2>2
  <2>4. \A q \in Workers : Current(job[q])'
    BY <1>1, <1>3, <2>1, <2>2 DEF Current
  <2>5. Proven' /\ OnePerVersion' /\ Attached'
    BY <1>3, <2>1 DEF ProgressInv, ProgressInTurn, Proven, OnePerVersion, Attached
  <2> QED  BY <2>3, <2>4, <2>5 DEF ProgressInTurn, Busy
<1> QED  BY <1>4, <1>5, <1>6, <1>7 DEF ProgressInv

\* A transaction that leaves the sessions and what was sent alone, and ends the request.
LEMMA LaunchCommitStep ==
  ASSUME ProgressInv, NEW p \in Workers, LaunchCommit(p) PROVE ProgressInv'
<1>1. /\ job[p] \in Tasks /\ job[p].op = "launch" /\ Goes(p, Idle)
      /\ UNCHANGED <<completed, sent, answered, shared, gate, incident, accepted, inTurn>>
  BY DEF LaunchCommit, Busy, ProgressInv, Serving
<1>2. PICK seen \in Rows, started \in Launches : job[p].seen = seen /\ job[p].session = started
  BY <1>1 DEF Tasks
<1>3. Judgements' /\ Serving'
  BY <1>1, Ends DEF ProgressInv, Judgements
<1>4. \A q \in Workers : job'[q] = IF q = p THEN Idle ELSE job[q]
  BY <1>1 DEF ProgressInv, Serving, Goes
<1>5. CASE started.id # live.id + 1
  <2>1. UNCHANGED <<row, live, recovered, receipts, flagged>>
    BY <1>2, <1>5 DEF LaunchCommit
  <2>2. Columns' /\ OfItsSession' /\ SentOnce'
    BY <1>1, <2>1 DEF ProgressInv, Columns, OfItsSession, SentOnce
  <2>3. ProgressInTurn'
    <3>1. \A q \in Workers : Current(job[q]) => Current(job[q])'
      BY <1>1, <1>4, <2>1, IdleIsComposed DEF Current
    <3> QED  BY <1>1, <1>4, <2>1, <3>1 DEF ProgressInv, ProgressInTurn, Proven, OnePerVersion, Attached, Busy, Idle
  <2> QED  BY <1>3, <2>2, <2>3 DEF ProgressInv
<1>6. CASE started.id = live.id + 1
  <2>1. live' = started /\ recovered' = {} /\ flagged' = {}
    BY <1>2, <1>6 DEF LaunchCommit
  <2>2. \/ (seen.version = 0 \/ seen.schema = started.schema) /\ UNCHANGED <<row, receipts>>
        \/ /\ seen.version # 0 /\ receipts' = receipts \cup {started.schema}
           /\ row' = [row EXCEPT !.schema = started.schema, !.by = {Nothing}, !.hashed = seen.version, !.receipt = started.schema]
    BY <1>2, <1>6 DEF LaunchCommit, Migrated
  <2>3. Columns'
    <3>1. row' \in Rows /\ receipts' \subseteq Schemas
      <4>1. row \in Rows /\ started.schema \in Schemas /\ seen.version \in Nat /\ {Nothing} \in SUBSET Authors
        BY Bounds DEF ProgressInv, Columns, Rows, Authors, Launches
      <4> QED  BY <2>2, <4>1 DEF ProgressInv, Columns, Rows
    <3> QED  BY <1>1, <2>1, <3>1 DEF ProgressInv, Columns
  <2>4. OfItsSession' /\ SentOnce'
    BY <1>1, <1>6, <2>1, Bounds DEF ProgressInv, Columns, OfItsSession, SentOnce, Launches, Sendings
  <2>5. ProgressInTurn'
    <3> SUFFICES ASSUME inTurn PROVE ProgressInTurn'
      BY <1>1 DEF ProgressInTurn
    <3>1. \A q \in Workers : job'[q].op = "idle"
      BY <1>1, <1>4 DEF ProgressInv, ProgressInTurn, Busy, Idle
    <3>2. \A q \in Workers : Current(job[q])'
      BY <3>1 DEF Current
    <3>3. Current(job[p]) /\ Proven /\ OnePerVersion /\ Attached
      BY DEF ProgressInv, ProgressInTurn
    <3>4. seen.version = row.version /\ seen.schema = row.schema
      BY <1>1, <1>2, <3>3 DEF Current
    <3>5. row'.version = row.version /\ row'.basedOn = row.basedOn /\ row'.hashed = row'.version
      BY <2>2, <3>3, <3>4 DEF Proven, ProgressInv, Columns, Rows
    <3>6. Proven'
      BY <2>1, <2>2, <3>3, <3>4, <3>5 DEF Proven, ProgressInv, Columns, Rows
    <3>7. OnePerVersion' /\ Attached'
      BY <1>1, <3>3, <3>5 DEF OnePerVersion, Attached
    <3> QED  BY <3>1, <3>2, <3>6, <3>7 DEF ProgressInTurn, Busy
  <2> QED  BY <1>3, <2>3, <2>4, <2>5 DEF ProgressInv, Judgements
<1> QED  BY <1>5, <1>6 DEF ProgressInv

LEMMA SendStep ==
  ASSUME ProgressInv, NEW p \in Workers, NEW k \in Requests, NEW as \in Kinds, NEW seq \in 1..2,
         NEW summary \in BOOLEAN, NEW new \in BOOLEAN, Send(p, k, as, seq, summary, new)
  PROVE  ProgressInv'
<1>1. PICK s : s = Payload(k, as, seq, summary, new)
  OBVIOUS
<1>2. /\ live.id # 0 /\ s.base >= 0 /\ s.session = live.id /\ (s.kind # "summary" => s.base < MaxVersion)
      /\ MayWrite(s) /\ Validated /\ sent' = [sent EXCEPT ![k] = s]
      /\ UNCHANGED <<row, completed, live, answered, recovered, receipts, shared, flagged, accepted>>
  BY <1>1 DEF Send
<1>3. s \in Sendings /\ s.kind \in Kinds /\ s.seq \in 1..2 /\ (sent[k].kind # "none" => s = sent[k])
  <2>1. CASE sent[k] # Unsent
    BY <1>1, <2>1 DEF Payload, ProgressInv, Columns, SentOnce, Sendings
  <2>2. CASE sent[k] = Unsent
    <3>1. PICK base : base = IF new THEN row.version ELSE row.version - 1
      OBVIOUS
    <3>2. PICK on : on = IF new THEN row.by ELSE {}
      OBVIOUS
    <3>3. s = [kind |-> as, session |-> live.id, schema |-> live.schema, base |-> base, on |-> on, seq |-> seq,
               summary |-> summary]
      BY <1>1, <2>2, <3>1, <3>2 DEF Payload
    <3>4. base \in Nat /\ on \in SUBSET Authors
      BY <1>2, <3>1, <3>2, <3>3, Bounds DEF ProgressInv, Columns, Rows
    <3>5. live.id \in 0..MaxSessions /\ live.schema \in Schemas
      BY DEF ProgressInv, Columns, Launches
    <3>6. s \in Sendings /\ s.kind \in Kinds /\ s.seq \in 1..2
      <4>1. as \in Kinds \cup {"none"}
        OBVIOUS
      <4>2. seq \in 0..2
        OBVIOUS
      <4> QED  BY <3>3, <3>4, <3>5, <4>1, <4>2 DEF Sendings
    <3> QED  BY <2>2, <3>6 DEF Unsent
  <2> QED  BY <2>1, <2>2
<1>4. s.kind \in {"checkpoint", "complete"} => row.version = s.base
  BY <1>2 DEF MayWrite, InVersion
<1>5. PICK j : j = [Idle EXCEPT !.op = "write", !.key = {k}, !.seen = row, !.session = live,
                                !.max = IF \E n \in recovered : n >= s.seq THEN s.seq ELSE 0]
  OBVIOUS
<1>6. j \in Tasks /\ j.op = "write" /\ j.key = {k} /\ j.seen = row
  <2>1. PICK m \in 0..2 : m = IF \E n \in recovered : n >= s.seq THEN s.seq ELSE 0
    BY <1>3 DEF Sendings
  <2>2. row \in Rows /\ live \in Launches
    BY DEF ProgressInv, Columns
  <2> QED  BY <1>5, <2>1, <2>2, NoneSent DEF Tasks
<1>7. Busy(p, "idle") /\ Goes(p, j) /\ inTurn' = (inTurn /\ \A q \in Workers : Busy(q, "idle"))
  BY <1>1, <1>5 DEF Send, Arrive
<1>8. sent' \in [Requests -> Sendings] /\ sent'[k] = s /\ \A other \in Requests : other # k => sent'[other] = sent[other]
  BY <1>2, <1>3 DEF ProgressInv, Columns
<1>9. Columns'
  BY <1>2, <1>8 DEF ProgressInv, Columns
<1>10. Judgements'
  BY <1>2, JudgedIs DEF Validated
<1>11. OfItsSession' /\ SentOnce'
  <2>1. sent[k].kind = "none" => s.schema = live.schema
    <3> SUFFICES ASSUME sent[k].kind = "none" PROVE s.schema = live.schema
      OBVIOUS
    <3>1. sent[k] = Unsent
      BY DEF ProgressInv, SentOnce
    <3> QED  BY <1>1, <3>1 DEF Payload
  <2>2. sent[k].kind # "none" => s.schema = live.schema
    BY <1>2, <1>3 DEF ProgressInv, OfItsSession
  <2>3. OfItsSession'
    BY <1>2, <1>8, <2>1, <2>2, Bounds DEF ProgressInv, Columns, OfItsSession, Launches
  <2>4. SentOnce'
    BY <1>3, <1>8 DEF ProgressInv, SentOnce, Kinds
  <2> QED  BY <2>3, <2>4
<1>12. Serving'
  <2>1. Composed(j)'
    BY <1>2, <1>3, <1>4, <1>6, <1>8 DEF Composed
  <2>2. \A other \in Requests : sent[other].kind \in Kinds => sent'[other] = sent[other]
    BY <1>3, <1>8 DEF Kinds
  <2>3. inTurn' \in BOOLEAN
    BY <1>7
  <2> QED  BY <1>6, <1>7, <2>1, <2>2, <2>3, Takes
<1>13. ProgressInTurn'
  <2> SUFFICES ASSUME inTurn' PROVE ProgressInTurn'
    BY DEF ProgressInTurn
  <2>1. inTurn /\ \A q \in Workers : job[q].op = "idle"
    BY <1>7 DEF Busy
  <2>2. \A q \in Workers : job'[q] = IF q = p THEN j ELSE job[q]
    BY <1>7 DEF ProgressInv, Serving, Goes
  <2>3. \A q \in Workers : job'[q].op # "idle" => q = p
    BY <2>1, <2>2
  <2>4. \A q \in Workers : Current(job[q])'
    BY <1>2, <1>6, <1>8, <2>1, <2>2 DEF Current
  <2>5. Proven' /\ OnePerVersion' /\ Attached'
    BY <1>2, <2>1 DEF ProgressInv, ProgressInTurn, Proven, OnePerVersion, Attached
  <2> QED  BY <2>3, <2>4, <2>5 DEF ProgressInTurn, Busy
<1> QED  BY <1>9, <1>10, <1>11, <1>12, <1>13 DEF ProgressInv

\* A step aside, which touches neither the row nor a request.
LEMMA Aside ==
  ASSUME ProgressInv, UNCHANGED <<row, completed, live, sent, job, accepted, inTurn>>,
         answered' \subseteq Requests, UNCHANGED <<recovered, receipts>>, Judgements'
  PROVE  ProgressInv'
<1>1. Columns' /\ OfItsSession' /\ SentOnce'
  BY DEF ProgressInv, Columns, OfItsSession, SentOnce
<1>2. Serving'
  BY JobsStay
<1>3. ProgressInTurn'
  <2>1. \A q \in Workers : Current(job[q]) => Current(job[q])'
    BY DEF Current
  <2> QED  BY <2>1 DEF ProgressInv, ProgressInTurn, Proven, OnePerVersion, Attached, Busy
<1> QED  BY <1>1, <1>2, <1>3 DEF ProgressInv

LEMMA RefusedStep ==
  ASSUME ProgressInv, NEW p \in Workers, NEW k \in Requests, Refused(p, k) PROVE ProgressInv'
<1>1. Judgements'
  BY JudgedIs DEF Refused, Validated
<1> QED  BY <1>1, Aside DEF Refused, ProgressInv, Columns

LEMMA SweepStep == ASSUME ProgressInv, Sweep PROVE ProgressInv'
<1>1. Judgements'
  BY JudgedIs DEF Sweep, Validated
<1> QED  BY <1>1, Aside DEF Sweep, ProgressInv, Columns

LEMMA PurgeStep ==
  ASSUME ProgressInv, NEW k \in Requests, Purge(k) \/ ReconcileRecovery(k) PROVE ProgressInv'
<1>1. Judgements' /\ answered' \subseteq Requests
  BY DEF Purge, ReconcileRecovery, ProgressInv, Judgements, Columns
<1> QED  BY <1>1, Aside DEF Purge, ReconcileRecovery

\* A request ends with its transaction: who served it in turn is alone.
LEMMA Writes ==
  ASSUME ProgressInv, NEW p \in Workers, Goes(p, Idle), UNCHANGED <<live, sent, inTurn>>, ~Busy(p, "idle"),
         Columns', Judgements', inTurn => (Proven /\ OnePerVersion /\ Attached)'
  PROVE  ProgressInv'
<1>1. Serving'
  BY Ends
<1>2. OfItsSession' /\ SentOnce'
  BY DEF ProgressInv, OfItsSession, SentOnce
<1>3. ProgressInTurn'
  <2> SUFFICES ASSUME inTurn PROVE ProgressInTurn'
    BY DEF ProgressInTurn
  <2>1. \A q \in Workers : job'[q].op = "idle"
    BY DEF ProgressInv, ProgressInTurn, Serving, Goes, Busy, Idle
  <2>2. \A q \in Workers : Current(job[q])'
    BY <2>1 DEF Current
  <2> QED  BY <2>1, <2>2 DEF ProgressInTurn, Busy
<1> QED  BY <1>1, <1>2, <1>3 DEF ProgressInv

LEMMA AbandonStep == ASSUME ProgressInv, NEW p \in Workers, Abandon(p) PROVE ProgressInv'
<1>1. Columns' /\ Judgements'
  BY DEF Abandon, ProgressInv, Columns, Judgements
<1>2. inTurn => (Proven /\ OnePerVersion /\ Attached)'
  BY DEF Abandon, ProgressInv, ProgressInTurn, Proven, OnePerVersion, Attached
<1> QED  BY <1>1, <1>2, Writes DEF Abandon

\* What is known of a request that is about to write.
Writing(p, k, s, seen) ==
  /\ job[p].op = "write" /\ job[p].key = {k} /\ KeyOf(p) = k /\ sent[k] = s /\ job[p].seen = seen
  /\ s \in Sendings /\ s.kind \in Kinds /\ seen \in Rows
  /\ s.kind # "summary" => s.base < MaxVersion
  /\ s.kind \in {"checkpoint", "complete"} => seen.version = s.base
  /\ inTurn => /\ seen.version = row.version /\ seen.by = row.by /\ seen.basedOn = row.basedOn
               /\ s.schema = live.schema
               /\ Proven /\ OnePerVersion /\ Attached

LEMMA WritingIs ==
  ASSUME ProgressInv, NEW p \in Workers, Busy(p, "write")
  PROVE  \E k \in Requests, s \in Sendings, seen \in Rows : Writing(p, k, s, seen)
<1>1. job[p] \in Tasks /\ job[p].op = "write" /\ Composed(job[p])
  BY DEF ProgressInv, Serving, Busy
<1>2. PICK k \in Requests : /\ job[p].key = {k} /\ sent[k].kind \in Kinds
                            /\ sent[k].kind # "summary" => sent[k].base < MaxVersion
                            /\ sent[k].kind \in {"checkpoint", "complete"} => job[p].seen.version = sent[k].base
  BY <1>1 DEF Composed
<1>3. KeyOf(p) = k
  BY <1>2 DEF KeyOf
<1>4. sent[k] \in Sendings /\ job[p].seen \in Rows
  BY <1>1 DEF ProgressInv, Columns, Tasks
<1>5. inTurn => /\ job[p].seen.version = row.version /\ job[p].seen.by = row.by /\ job[p].seen.basedOn = row.basedOn
                /\ sent[k].session = live.id /\ Proven /\ OnePerVersion /\ Attached
  BY <1>1, <1>2 DEF ProgressInv, ProgressInTurn, Current
<1>6. sent[k].session = live.id => sent[k].schema = live.schema
  BY <1>2 DEF ProgressInv, OfItsSession, Kinds
<1> QED  BY <1>1, <1>2, <1>3, <1>4, <1>5, <1>6 DEF Writing

\* A row one version further than the one that was read.
Advances(r, s, seen) ==
  /\ r \in Rows /\ r.version = seen.version + 1 /\ r.hashed = r.version /\ r.schema = s.schema
  /\ r.receipt = row.receipt /\ r.basedOn \in {r.version, seen.basedOn, row.basedOn}

LEMMA AdvancesInTurn ==
  ASSUME ProgressInv, NEW p \in Workers, NEW k \in Requests, NEW s \in Sendings, NEW seen \in Rows,
         Writing(p, k, s, seen), inTurn, seen.version = s.base, Advances(row', s, seen), UNCHANGED live,
         accepted' = accepted \cup {s.base},
         \A l \in Lessons : completed'[l] = completed[l] \/ completed'[l] = seen.version + 1
  PROVE  (Proven /\ OnePerVersion /\ Attached)'
<1>1. /\ row.version \in Nat /\ row.basedOn \in Nat /\ row'.version = row.version + 1 /\ row'.hashed = row'.version
      /\ row'.schema = live.schema /\ row'.receipt = row.receipt /\ row'.basedOn \in {row'.version, row.basedOn}
      /\ s.base = row.version /\ seen.version = row.version
  BY Bounds DEF Writing, Advances, ProgressInv, Columns, Rows
<1>2. Proven /\ OnePerVersion /\ Attached
  BY DEF Writing
<1>3. Proven'
  BY <1>1, <1>2 DEF Proven
<1>4. OnePerVersion'
  BY <1>1, <1>2 DEF OnePerVersion
<1>5. Attached'
  BY <1>1, <1>2, Bounds DEF Attached, ProgressInv, Columns
<1> QED  BY <1>3, <1>4, <1>5

\* The row a checkpoint or a completion writes.
LEMMA WrittenIs ==
  ASSUME ProgressInv, NEW p \in Workers, NEW k \in Requests, NEW s \in Sendings, NEW seen \in Rows,
         Writing(p, k, s, seen), s.kind # "summary", seen.version = s.base
  PROVE  Advances(Written(p, s), s, seen) /\ s.base \in 0..MaxVersion
<1>1. PICK next : next = seen.version + 1
  OBVIOUS
<1>2. next \in 0..MaxVersion /\ next \in Nat /\ seen.basedOn \in 0..MaxVersion /\ s.base \in 0..MaxVersion
  BY <1>1, Bounds DEF Writing, Rows, Sendings
<1>3. PICK on \in 0..MaxVersion : on = IF s.summary THEN next ELSE seen.basedOn
  BY <1>2
<1>4. Written(p, s) = [row EXCEPT !.version = next, !.by = {k}, !.hashed = next, !.schema = s.schema,
                                  !.session = s.session, !.seq = s.seq, !.basedOn = on]
  BY <1>1, <1>3 DEF Written, Writing
<1>5. row \in Rows /\ s.schema \in Schemas /\ s.session \in 0..MaxSessions /\ s.seq \in 0..2 /\ {k} \in SUBSET Authors
  BY DEF ProgressInv, Columns, Sendings, Authors
<1>6. Written(p, s) \in Rows
  BY <1>2, <1>3, <1>4, <1>5 DEF Rows
<1> QED  BY <1>1, <1>2, <1>3, <1>4, <1>5, <1>6 DEF Advances, Rows

LEMMA RecoveredIs ==
  ASSUME ProgressInv, NEW p \in Workers, NEW k \in Requests, NEW s \in Sendings, NEW seen \in Rows,
         Writing(p, k, s, seen), s.kind # "summary", seen.version = s.base
  PROVE  Advances(Recovered(p, s), s, seen) /\ s.base \in 0..MaxVersion
<1>1. PICK next : next = seen.version + 1
  OBVIOUS
<1>2. next \in 0..MaxVersion /\ next \in Nat /\ s.base \in 0..MaxVersion
  BY <1>1, Bounds DEF Writing, Rows, Sendings
<1>3. row \in Rows /\ s.schema \in Schemas /\ s.session \in 0..MaxSessions /\ {k} \in SUBSET Authors
  BY DEF ProgressInv, Columns, Sendings, Authors
<1>4. PICK w : w = [row EXCEPT !.version = next, !.by = {k}, !.hashed = next, !.schema = s.schema]
  OBVIOUS
<1>5. w \in Rows /\ w.version = next /\ w.hashed = next /\ w.schema = s.schema /\ w.receipt = row.receipt
      /\ w.basedOn = row.basedOn
  BY <1>2, <1>3, <1>4 DEF Rows
<1>6. Recovered(p, s) = IF row.version = 0 THEN [w EXCEPT !.session = s.session, !.seq = 0] ELSE w
  BY <1>1, <1>4 DEF Recovered, Writing
<1>7. Recovered(p, s) \in Rows
  <2>1. PICK zero \in 0..2 : zero = 0
    OBVIOUS
  <2>2. [w EXCEPT !.session = s.session, !.seq = zero] \in Rows
    BY <1>3, <1>5 DEF Rows
  <2> QED  BY <1>5, <1>6, <2>1, <2>2
<1> QED  BY <1>1, <1>2, <1>5, <1>6, <1>7 DEF Advances, Rows

LEMMA CheckpointStep == ASSUME ProgressInv, NEW p \in Workers, Checkpoint(p) PROVE ProgressInv'
<1>1. PICK k \in Requests, s \in Sendings, seen \in Rows : Writing(p, k, s, seen)
  BY WritingIs DEF Checkpoint
<1>2. /\ s.kind = "checkpoint" /\ row' = Written(p, s) /\ Goes(p, Idle)
      /\ answered' = answered \cup {k} /\ accepted' = accepted \cup {s.base}
      /\ UNCHANGED <<completed, live, sent, recovered, receipts, shared, gate, incident, flagged, inTurn>>
  BY <1>1 DEF Checkpoint, Writing, Keeps
<1>3. seen.version = s.base
  BY <1>1, <1>2 DEF Writing
<1>4. Advances(row', s, seen) /\ s.base \in 0..MaxVersion
  BY <1>1, <1>2, <1>3, WrittenIs
<1>5. Columns' /\ Judgements'
  BY <1>2, <1>4 DEF ProgressInv, Columns, Judgements, Advances
<1>6. inTurn => (Proven /\ OnePerVersion /\ Attached)'
  BY <1>1, <1>2, <1>3, <1>4, AdvancesInTurn
<1> QED  BY <1>1, <1>2, <1>5, <1>6, Writes DEF Busy, Writing

LEMMA CompleteStep ==
  ASSUME ProgressInv, NEW p \in Workers, NEW l \in Lessons, Complete(p, l) PROVE ProgressInv'
<1>1. PICK k \in Requests, s \in Sendings, seen \in Rows : Writing(p, k, s, seen)
  BY WritingIs DEF Complete
<1>2. /\ s.kind = "complete" /\ Goes(p, Idle) /\ answered' = answered \cup {k} /\ completed[l] = 0
      /\ completed' = [completed EXCEPT ![l] = seen.version + 1]
      /\ \/ row.version = 0 /\ UNCHANGED <<row, accepted>>
         \/ row.version # 0 /\ row' = Written(p, s) /\ accepted' = accepted \cup {s.base}
      /\ UNCHANGED <<live, sent, recovered, receipts, shared, gate, incident, flagged, inTurn>>
  BY <1>1 DEF Complete, Writing, Keeps
<1>3. seen.version = s.base /\ s.base < MaxVersion /\ seen.version \in Nat
  BY <1>1, <1>2, Bounds DEF Writing, Rows
<1>4. Advances(Written(p, s), s, seen) /\ s.base \in 0..MaxVersion
  BY <1>1, <1>2, <1>3, WrittenIs
<1>5. completed' \in [Lessons -> 0..MaxVersion + 1] /\ \A m \in Lessons : completed'[m] \in {completed[m], seen.version + 1}
  BY <1>2, <1>3, Bounds DEF ProgressInv, Columns
<1>6. Columns' /\ Judgements'
  BY <1>2, <1>4, <1>5 DEF ProgressInv, Columns, Judgements, Advances
<1>7. inTurn => (Proven /\ OnePerVersion /\ Attached)'
  <2> SUFFICES ASSUME inTurn PROVE (Proven /\ OnePerVersion /\ Attached)'
    OBVIOUS
  <2>1. CASE row.version # 0
    BY <1>1, <1>2, <1>3, <1>4, <1>5, <2>1, AdvancesInTurn
  <2>2. CASE row.version = 0
    <3>1. UNCHANGED <<row, accepted>> /\ seen.version = 0
      BY <1>1, <1>2, <2>2 DEF Writing
    <3>2. Proven /\ OnePerVersion /\ Attached
      BY <1>1 DEF Writing
    <3>3. Proven' /\ OnePerVersion'
      BY <1>2, <3>1, <3>2 DEF Proven, OnePerVersion
    <3>4. Attached'
      BY <1>5, <2>2, <3>1, <3>2 DEF Attached
    <3> QED  BY <3>3, <3>4
  <2> QED  BY <2>1, <2>2
<1> QED  BY <1>1, <1>2, <1>6, <1>7, Writes DEF Busy, Writing

LEMMA SummariseStep == ASSUME ProgressInv, NEW p \in Workers, Summarise(p) PROVE ProgressInv'
<1>1. PICK k \in Requests, s \in Sendings, seen \in Rows : Writing(p, k, s, seen)
  BY WritingIs DEF Summarise
<1>2. /\ Goes(p, Idle) /\ answered' = answered \cup {k}
      /\ \/ UNCHANGED row
         \/ row.version = s.base /\ row' = [row EXCEPT !.basedOn = s.base]
      /\ UNCHANGED <<completed, live, sent, recovered, receipts, shared, gate, incident, flagged, accepted, inTurn>>
  BY <1>1 DEF Summarise, Writing
<1>3. row' \in Rows /\ row'.version = row.version /\ row'.schema = row.schema /\ row'.receipt = row.receipt
      /\ row'.hashed = row.hashed /\ row'.basedOn \in {row.basedOn, row.version}
  BY <1>2 DEF ProgressInv, Columns, Rows
<1>4. Columns' /\ Judgements'
  BY <1>2, <1>3 DEF ProgressInv, Columns, Judgements
<1>5. inTurn => (Proven /\ OnePerVersion /\ Attached)'
  <2>1. row.version \in Nat
    BY Bounds DEF ProgressInv, Columns, Rows
  <2> QED  BY <1>2, <1>3, <2>1 DEF ProgressInv, ProgressInTurn, Proven, OnePerVersion, Attached
<1> QED  BY <1>1, <1>2, <1>4, <1>5, Writes DEF Busy, Writing

LEMMA RecoverStep ==
  ASSUME ProgressInv, NEW p \in Workers, NEW lives \in BOOLEAN, Recover(p, lives) PROVE ProgressInv'
<1>1. PICK k \in Requests, s \in Sendings, seen \in Rows : Writing(p, k, s, seen)
  BY WritingIs DEF Recover
<1>2. s.kind = "recover" /\ Goes(p, Idle) /\ UNCHANGED <<completed, live, sent, receipts, shared, inTurn>>
  BY <1>1 DEF Recover, Writing
<1>3. IsCurrent(p, s) => seen.version = s.base
  BY <1>1 DEF IsCurrent, Writing
<1>4. \/ UNCHANGED <<row, recovered, gate, incident, accepted>> /\ answered' \in {answered, answered \cup {k}}
      \/ /\ IsCurrent(p, s) /\ row' = Recovered(p, s) /\ recovered' = recovered \cup {s.seq}
         /\ answered' = answered \cup {k} /\ accepted' = accepted \cup {s.base}
         /\ Judged(Recovered(p, s)) \/ UNCHANGED <<gate, incident>>
  BY <1>1 DEF Recover, Writing, Keeps
<1>5. CASE UNCHANGED <<row, recovered, gate, incident, accepted>> /\ answered' \in {answered, answered \cup {k}}
  <2>1. Columns' /\ Judgements'
    BY <1>2, <1>5 DEF ProgressInv, Columns, Judgements
  <2>2. inTurn => (Proven /\ OnePerVersion /\ Attached)'
    BY <1>2, <1>5 DEF ProgressInv, ProgressInTurn, Proven, OnePerVersion, Attached
  <2> QED  BY <1>1, <1>2, <2>1, <2>2, Writes DEF Busy, Writing
<1>6. CASE /\ IsCurrent(p, s) /\ row' = Recovered(p, s) /\ recovered' = recovered \cup {s.seq}
           /\ answered' = answered \cup {k} /\ accepted' = accepted \cup {s.base}
           /\ Judged(Recovered(p, s)) \/ UNCHANGED <<gate, incident>>
  <2>1. Advances(row', s, seen) /\ s.base \in 0..MaxVersion
    BY <1>1, <1>2, <1>3, <1>6, RecoveredIs
  <2>2. s.seq \in 1..2
    BY <1>1, <1>2 DEF ProgressInv, SentOnce, Unsent, Kinds, Writing
  <2>3. Columns'
    BY <1>2, <1>6, <2>1, <2>2 DEF ProgressInv, Columns, Advances
  <2>4. Judgements'
    BY <1>6, JudgedIs DEF ProgressInv, Judgements
  <2>5. inTurn => (Proven /\ OnePerVersion /\ Attached)'
    BY <1>1, <1>2, <1>3, <1>6, <2>1, AdvancesInTurn
  <2> QED  BY <1>1, <1>2, <2>3, <2>4, <2>5, Writes DEF Busy, Writing
<1> QED  BY <1>4, <1>5, <1>6

\* What an operator changes never touches what a request compares: only the receipt of the row.
LEMMA ActStep == ASSUME ProgressInv, NEW action \in Actions, Act(action) PROVE ProgressInv'
<1> DEFINE r == Changed(action)
           ack == Acknowledges(action)
           class == Classify(r, ack)
           upserted == Upserted(r, class, ack)
<1>1. class \in Classes /\ ack \in BOOLEAN
  BY ClassIsClass DEF Acknowledges, ProgressInv, Judgements
<1>2. incident.version < MaxTries - 1
      /\ UNCHANGED <<completed, live, sent, answered, recovered, receipts, shared, flagged, job, accepted, inTurn>>
  BY DEF Act
<1>3. \/ incident' = [status |-> "closed", version |-> incident.version + 1] /\ UNCHANGED <<row, gate>>
      \/ /\ row' = r /\ gate' = [class |-> class, acknowledged |-> ack]
         /\ incident' \in {upserted} \cup {[status |-> x, version |-> upserted.version + 1] : x \in {"open", "closed"}}
  BY DEF Act
<1>4. row' \in {row, r} /\ (action = "link_matching_receipt" => row' = row \/ row.version # 0)
  BY DEF Act
<1>5. r = row \/ (action = "link_matching_receipt" /\ r = [row EXCEPT !.receipt = row.schema])
  BY DEF Changed
<1>6. upserted \in Incident /\ upserted.version <= incident.version + 1 /\ incident.version \in Nat
  BY <1>2, Bounds DEF ProgressInv, Judgements, Upserted, Counted, Incident
<1> HIDE DEF r, ack, class, upserted
<1>7. Judgements'
  <2>1. incident' \in Incident
    BY <1>2, <1>3, <1>6, Bounds DEF Incident
  <2>2. gate' \in [class : Classes, acknowledged : BOOLEAN]
    BY <1>1, <1>3 DEF ProgressInv, Judgements
  <2> QED  BY <2>1, <2>2 DEF Judgements
<1>8. /\ row' \in Rows /\ row'.version = row.version /\ row'.by = row.by /\ row'.basedOn = row.basedOn
      /\ row'.schema = row.schema /\ row'.hashed = row.hashed
      /\ row'.receipt = row.receipt \/ (row.version # 0 /\ row'.receipt = row.schema)
  BY <1>4, <1>5 DEF ProgressInv, Columns, Rows
<1>9. Columns' /\ OfItsSession' /\ SentOnce'
  BY <1>2, <1>8 DEF ProgressInv, Columns, OfItsSession, SentOnce
<1>10. Serving'
  BY <1>2, JobsStay
<1>11. ProgressInTurn'
  <2>1. \A q \in Workers : Current(job[q]) => Current(job[q])'
    BY <1>2, <1>8 DEF Current
  <2>2. Proven /\ OnePerVersion /\ Attached => (Proven /\ OnePerVersion /\ Attached)'
    BY <1>2, <1>8 DEF Proven, OnePerVersion, Attached
  <2> QED  BY <1>2, <2>1, <2>2 DEF ProgressInv, ProgressInTurn, Busy
<1> QED  BY <1>7, <1>9, <1>10, <1>11 DEF ProgressInv

LEMMA ProgressNext == ProgressInv /\ [Next]_vars => ProgressInv'
<1> SUFFICES ASSUME ProgressInv, [Next]_vars PROVE ProgressInv'
  OBVIOUS
<1>1. ASSUME NEW p \in Workers, NEW schema \in Schemas, Launch(p, schema) PROVE ProgressInv'
  BY <1>1, LaunchStep
<1>2. ASSUME NEW p \in Workers, NEW k \in Requests, NEW as \in Kinds, NEW seq \in 1..2, NEW summary \in BOOLEAN,
             NEW new \in BOOLEAN, Send(p, k, as, seq, summary, new)
      PROVE  ProgressInv'
  BY <1>2, SendStep
<1>3. ASSUME NEW p \in Workers, NEW k \in Requests, Refused(p, k) PROVE ProgressInv'
  BY <1>3, RefusedStep
<1>4. ASSUME NEW p \in Workers, LaunchCommit(p) \/ Checkpoint(p) \/ Summarise(p) \/ Abandon(p) PROVE ProgressInv'
  BY <1>4, LaunchCommitStep, CheckpointStep, SummariseStep, AbandonStep
<1>5. ASSUME NEW p \in Workers, NEW lives \in BOOLEAN, Recover(p, lives) PROVE ProgressInv'
  BY <1>5, RecoverStep
<1>6. ASSUME NEW p \in Workers, NEW l \in Lessons, Complete(p, l) PROVE ProgressInv'
  BY <1>6, CompleteStep
<1>7. ASSUME NEW k \in Requests, Purge(k) \/ ReconcileRecovery(k) PROVE ProgressInv'
  BY <1>7, PurgeStep
<1>8. CASE Sweep
  BY <1>8, SweepStep
<1>9. ASSUME NEW action \in Actions, Act(action) PROVE ProgressInv'
  BY <1>9, ActStep
<1>10. CASE UNCHANGED vars
  <2>1. UNCHANGED <<row, completed, live, sent, answered, recovered, receipts, gate, incident, job, accepted, inTurn>>
    BY <1>10 DEF vars
  <2>2. Judgements' /\ answered' \subseteq Requests
    BY <2>1 DEF ProgressInv, Judgements, Columns
  <2> QED  BY <2>1, <2>2, Aside
<1> QED  BY <1>1, <1>2, <1>3, <1>4, <1>5, <1>6, <1>7, <1>8, <1>9, <1>10 DEF Next

LEMMA ProgressSuffices == ProgressInv => TypeOK /\ ProgressIsNeverForked
<1> SUFFICES ASSUME ProgressInv PROVE TypeOK /\ ProgressIsNeverForked
  OBVIOUS
<1>1. TypeOK
  BY Bounds DEF ProgressInv, Columns, Judgements, Serving, TypeOK, Rows, Launches, Classes, Incident
<1>2. ProgressIsNeverForked
  BY Bounds DEF ProgressInv, ProgressInTurn, Proven, OnePerVersion, Attached, Columns, Rows, ProgressIsNeverForked,
     Corrupt, Mismatched, Ahead, Orphaned
<1> QED  BY <1>1, <1>2

-----------------------------------------------------------------------------
(* The journey of a learner in an app (Journey).                              *)

Sources == Projection!Sources
Boxes   == Projection!Boxes
States  == {"active", "inactive_retention", "purged"}
Ways    == {"upsert", "remove"}
Orders  == {"active", "inactive_retention", "as it is"}
Retention == [state : States, due : BOOLEAN, generation : Nat \ {0}]
Projections == [op : {"project"}, box : Sources \X Ways, mark : BOOLEAN, remove : BOOLEAN, to : Orders,
                generation : Nat, allowed : BOOLEAN]
Errands == [op : {"idle", "purge"}] \cup [op : {"retain"}, to : Orders] \cup Projections

Kept ==
  /\ ret \in Retention
  /\ status \in [Sources -> {"none", "sent", "earned", "revoked"}] /\ old \subseteq Sources
  /\ outbox \in [Boxes -> {"none", "pending", "failed", "processed"}]
  /\ events \in [Sources -> Nat] /\ entitled \in BOOLEAN /\ calm \in BOOLEAN
  /\ projector \in [Workers -> Errands]

\* What was never sent or earned has left nothing, and only what was revoked is to be removed.
Sourced ==
  /\ \A s \in Sources : status[s] = "none" => events[s] = 0 /\ s \notin old
  /\ \A s \in Sources, way \in Ways : <<s, way>> \in Boxes /\ outbox[<<s, way>>] # "none" =>
       status[s] # "none" /\ (way = "remove" => status[s] = "revoked")
  /\ \A r \in projected : \E g \in Nat, s \in Sources, way \in Ways, b \in BOOLEAN :
       r = <<g, <<s, way>>, b>> /\ status[s] # "none" /\ (b => status[s] = "revoked")

\* What a process is about to project: of a generation that is over nothing is shown.
Carried(j) ==
  j.op = "project" =>
    /\ j.generation <= ret.generation /\ status[j.box[1]] # "none"
    /\ j.remove => status[j.box[1]] = "revoked"
    /\ j.box[2] = "remove" => j.remove
    /\ j.allowed /\ j.generation = ret.generation => j.box[1] \notin old
    /\ j.mark => j.box \in Boxes

Generations ==
  /\ \A s \in Sources : events[s] <= ret.generation
  /\ \A s \in old : events[s] # ret.generation

\* Requests in turn: what a process has read is so.
Reads(j) ==
  /\ j.op = "project" => /\ j.generation = ret.generation /\ j.to = Projection!Settles
                         /\ j.remove = Projection!Removes(j.box)
                         /\ j.allowed = Projection!Materializes(Projection!Settled(ret, Projection!Settles).state, j.box[1], old)
  /\ j.op = "purge" => ret.state = "inactive_retention"
\* What the journey owes a source stands in its outbox.
Waiting(s, way) == <<s, way>> \in Boxes /\ outbox[<<s, way>>] \in {"pending", "failed"}
Receipt(s, way, b) == <<ret.generation, <<s, way>>, b>> \in projected
Owed(s) ==
  /\ events[s] \in {0, ret.generation}
  /\ status[s] = "earned" /\ s \notin old => events[s] = ret.generation \/ (Waiting(s, "upsert") /\ ~Receipt(s, "upsert", FALSE))
  /\ events[s] = ret.generation => \/ status[s] = "earned"
                                   \/ status[s] = "revoked" /\ Waiting(s, "remove") /\ ~Receipt(s, "remove", TRUE)
  /\ ret.state = "purged" /\ status[s] \in {"earned", "revoked"} => s \in old
JourneyInTurn ==
  calm => /\ \A p, q \in Workers : projector[p].op # "idle" /\ projector[q].op # "idle" => p = q
          /\ \A p \in Workers : Reads(projector[p])
          /\ \A s \in Sources : Owed(s)

JourneyInv == Kept /\ Sourced /\ Generations /\ (\A p \in Workers : Carried(projector[p])) /\ JourneyInTurn

LEMMA BoxIs ==
  /\ \A b \in Boxes : \E s \in Sources, way \in Ways : b = <<s, way>> /\ (way = "remove" => s \in Achievements)
  /\ \A s \in Sources : <<s, "upsert">> \in Boxes <=> s \in JourneyLessons \cup Achievements
  /\ \A s \in Sources : <<s, "remove">> \in Boxes <=> s \in Achievements
  /\ JourneyLessons \subseteq Sources /\ Achievements \subseteq Sources /\ Milestones \subseteq Sources
BY DEF Boxes, Sources, Projection!Boxes, Projection!Sources, Ways

LEMMA NowhereIs == Projection!Nowhere \in Errands /\ Projection!Nowhere.op = "idle"
                   /\ Carried(Projection!Nowhere)' /\ Reads(Projection!Nowhere)'
BY DEF Projection!Nowhere, Errands, Carried, Reads

LEMMA JourneyInit == Projection!Init => JourneyInv
<1> SUFFICES ASSUME Projection!Init PROVE JourneyInv
  OBVIOUS
<1>1. Kept
  BY NowhereIs DEF Projection!Init, Kept, Sources, Boxes, Retention, States
<1>2. \A p \in Workers : projector[p].op = "idle"
  BY NowhereIs DEF Projection!Init
<1>3. Sourced /\ Generations /\ \A s \in Sources : Owed(s)
  BY DEF Projection!Init, Sourced, Generations, Owed, Sources, Boxes
<1>4. \A p \in Workers : Carried(projector[p]) /\ Reads(projector[p])
  BY <1>2 DEF Carried, Reads
<1> QED  BY <1>1, <1>2, <1>3, <1>4 DEF JourneyInv, JourneyInTurn

LEMMA OpIs ==
  ASSUME NEW j \in Errands
  PROVE  /\ j.op \in {"idle", "purge", "retain", "project"}
         /\ j.op = "retain" => j.to \in Orders
         /\ j.op = "project" => j \in Projections
BY DEF Errands, Projections

\* Who takes a request on, or has ended one.
LEMMA Errand ==
  ASSUME JourneyInv, NEW p \in Workers, NEW j \in Errands, Projection!Goes(p, j)
  PROVE  /\ projector' \in [Workers -> Errands]
         /\ \A q \in Workers : projector'[q] = IF q = p THEN j ELSE projector[q]
BY DEF JourneyInv, Kept, Projection!Goes

\* The others carry what they did.
LEMMA CarriesOn ==
  ASSUME JourneyInv, NEW p \in Workers, NEW j \in Errands, Projection!Goes(p, j), Carried(j)',
         \A i \in Errands : Carried(i) => Carried(i)'
  PROVE  \A q \in Workers : Carried(projector[q])'
<1> TAKE q \in Workers
<1>1. PICK i \in Errands : i = projector[q]
  BY DEF JourneyInv, Kept
<1>2. Carried(i)'
  BY <1>1 DEF JourneyInv
<1>3. projector'[q] = j \/ projector'[q] = i
  BY <1>1, Errand
<1> QED  BY <1>2, <1>3 DEF Carried

\* In turn, whoever arrives finds nobody, and whoever ends leaves nobody.
LEMMA ArrivesInTurn ==
  ASSUME JourneyInv, NEW p \in Workers, NEW j \in Errands, Projection!Arrive(p, j), calm' => Reads(j)',
         calm' => \A s \in Sources : Owed(s)'
  PROVE  JourneyInTurn' /\ calm' \in BOOLEAN
<1>1. calm' \in BOOLEAN /\ (calm' => \A q \in Workers : projector[q].op = "idle") /\ Projection!Goes(p, j)
  BY DEF Projection!Arrive, Projection!Rest, Projection!Busy, JourneyInv, Kept
<1>2. \A q \in Workers : projector'[q] = IF q = p THEN j ELSE projector[q]
  BY <1>1, Errand
<1>3. ASSUME calm', NEW q \in Workers PROVE Reads(projector[q])'
  BY <1>1, <1>2, <1>3 DEF Reads
<1> QED  BY <1>1, <1>2, <1>3 DEF JourneyInTurn

LEMMA EndsInTurn ==
  ASSUME JourneyInv, NEW p \in Workers, projector[p].op # "idle", Projection!Goes(p, Projection!Nowhere),
         UNCHANGED calm, calm => \A s \in Sources : Owed(s)'
  PROVE  JourneyInTurn'
<1> SUFFICES ASSUME calm PROVE JourneyInTurn'
  BY DEF JourneyInTurn
<1>1. \A q \in Workers : projector'[q] = IF q = p THEN Projection!Nowhere ELSE projector[q]
  BY Errand, NowhereIs
<1>2. \A q \in Workers : projector'[q].op = "idle"
  BY <1>1, NowhereIs DEF JourneyInv, JourneyInTurn
<1>3. \A q \in Workers : Reads(projector[q])'
  BY <1>2 DEF Reads
<1> QED  BY <1>2, <1>3 DEF JourneyInTurn

\* A new retention state: no step of it touches the generation.
LEMMA SettlesTo ==
  ASSUME JourneyInv, NEW to \in Orders
  PROVE  /\ Projection!Settled(ret, to) \in Retention /\ Projection!Settled(ret, to).generation = ret.generation
         /\ Projection!Settled(ret, to).state = "purged" => ret.state = "purged"
         /\ Projection!Settles \in Orders
BY DEF JourneyInv, Kept, Projection!Settled, Projection!Settles, Orders, Retention, States

LEMMA SameOwed ==
  ASSUME NEW s \in Sources, Owed(s), ret'.generation = ret.generation, ret'.state = "purged" => ret.state = "purged",
         status'[s] = status[s], events'[s] = events[s], s \in old' <=> s \in old, UNCHANGED projected,
         \A way \in Ways : Waiting(s, way) => Waiting(s, way)'
  PROVE  Owed(s)'
BY DEF Owed, Receipt, Ways

LEMMA EntitlementStep == ASSUME JourneyInv, Projection!Entitlement \/ Projection!YearPasses PROVE JourneyInv'
<1>1. /\ UNCHANGED <<status, old, outbox, projected, events, projector>> /\ entitled' \in BOOLEAN /\ calm' \in BOOLEAN
      /\ ret' \in Retention /\ ret'.generation = ret.generation /\ ret'.state = ret.state
      /\ calm' => calm /\ \A q \in Workers : projector[q].op = "idle"
  <2>1. CASE Projection!Entitlement
    <3>1. UNCHANGED <<ret, status, old, outbox, projected, events, projector>>
          /\ entitled' \in BOOLEAN /\ calm' \in BOOLEAN /\ (calm' => calm /\ \A q \in Workers : projector[q].op = "idle")
      BY <2>1 DEF Projection!Entitlement, Projection!Rest, Projection!Busy
    <3> QED  BY <3>1 DEF JourneyInv, Kept
  <2>2. CASE Projection!YearPasses
    <3>1. /\ UNCHANGED <<entitled, status, old, outbox, projected, events, projector, calm>>
          /\ ret' = [ret EXCEPT !.due = TRUE] /\ \A q \in Workers : projector[q].op = "idle"
      BY <2>2 DEF Projection!YearPasses, Projection!Rest, Projection!Busy
    <3> QED  BY <3>1 DEF JourneyInv, Kept, Retention
  <2> QED  BY <2>1, <2>2
<1>2. Kept' /\ Sourced' /\ Generations'
  BY <1>1 DEF JourneyInv, Kept, Sourced, Generations
<1>3. \A q \in Workers : Carried(projector[q])'
  BY <1>1 DEF JourneyInv, Carried
<1>4. JourneyInTurn'
  <2> SUFFICES ASSUME calm' PROVE JourneyInTurn'
    BY DEF JourneyInTurn
  <2>1. \A q \in Workers : Reads(projector[q])'
    BY <1>1 DEF Reads
  <2>2. ASSUME NEW s \in Sources PROVE Owed(s)'
    BY <1>1, <2>2, SameOwed DEF JourneyInv, JourneyInTurn, Waiting
  <2> QED  BY <1>1, <2>1, <2>2 DEF JourneyInTurn
<1> QED  BY <1>2, <1>3, <1>4 DEF JourneyInv

LEMMA RetentionReadStep ==
  ASSUME JourneyInv, NEW p \in Workers, Projection!RetentionRead(p) PROVE JourneyInv'
<1>1. PICK j : j = [op |-> "retain", to |-> Projection!Settles]
  OBVIOUS
<1>2. j \in Errands /\ j.op = "retain"
  BY <1>1, SettlesTo DEF Errands, Orders
<1>3. Projection!Arrive(p, j) /\ Projection!Goes(p, j) /\ UNCHANGED <<entitled, ret, status, old, outbox, projected, events>>
  BY <1>1 DEF Projection!RetentionRead, Projection!Arrive
<1>4. Carried(j)' /\ Reads(j)'
  BY <1>2 DEF Carried, Reads
<1>5. \A i \in Errands : Carried(i) => Carried(i)'
  BY <1>3 DEF Carried
<1>6. ASSUME calm', NEW s \in Sources PROVE Owed(s)'
  <2>1. calm
    BY <1>3, <1>6 DEF Projection!Arrive
  <2> QED  BY <1>3, <2>1, SameOwed DEF JourneyInv, JourneyInTurn, Waiting
<1>7. JourneyInTurn' /\ calm' \in BOOLEAN
  BY <1>2, <1>3, <1>4, <1>6, ArrivesInTurn
<1>8. Kept'
  BY <1>2, <1>3, <1>7, Errand DEF JourneyInv, Kept
<1>9. Sourced' /\ Generations'
  BY <1>3 DEF JourneyInv, Sourced, Generations
<1> QED  BY <1>2, <1>3, <1>4, <1>5, <1>7, <1>8, <1>9, CarriesOn DEF JourneyInv

LEMMA RetentionWriteStep ==
  ASSUME JourneyInv, NEW p \in Workers, Projection!RetentionWrite(p) PROVE JourneyInv'
<1>1. projector[p] \in Errands /\ projector[p].op = "retain"
  BY DEF Projection!RetentionWrite, Projection!Busy, JourneyInv, Kept
<1>2. PICK to \in Orders : projector[p].to = to
  BY <1>1, OpIs
<1>3. ret' = Projection!Settled(ret, to) /\ Projection!Goes(p, Projection!Nowhere)
      /\ UNCHANGED <<entitled, status, old, outbox, projected, events, calm>>
  BY <1>2 DEF Projection!RetentionWrite
<1>4. ret' \in Retention /\ ret'.generation = ret.generation /\ (ret'.state = "purged" => ret.state = "purged")
  BY <1>3, SettlesTo
<1>5. \A i \in Errands : Carried(i) => Carried(i)'
  BY <1>3, <1>4 DEF Carried
<1>6. ASSUME calm, NEW s \in Sources PROVE Owed(s)'
  BY <1>3, <1>4, <1>6, SameOwed DEF JourneyInv, JourneyInTurn, Waiting
<1>7. JourneyInTurn'
  BY <1>1, <1>3, <1>6, EndsInTurn
<1>8. Kept'
  BY <1>3, <1>4, NowhereIs, Errand DEF JourneyInv, Kept
<1>9. Sourced' /\ Generations'
  BY <1>3, <1>4 DEF JourneyInv, Sourced, Generations
<1> QED  BY <1>3, <1>5, <1>7, <1>8, <1>9, CarriesOn, NowhereIs DEF JourneyInv

\* What a process reads for a projection.
LEMMA ProjectingIs ==
  ASSUME JourneyInv, NEW s \in Sources, NEW way \in Ways, NEW mark \in BOOLEAN, NEW before,
         NEW j, j = Projection!Projecting(<<s, way>>, mark, before)
  PROVE  /\ j \in Projections /\ j \in Errands /\ j.op = "project" /\ j.box = <<s, way>> /\ j.mark = mark
         /\ j.remove = (way = "remove" \/ status[s] = "revoked") /\ j.to = Projection!Settles
         /\ j.generation = ret.generation /\ j.to \in Orders
         /\ j.allowed = Projection!Materializes(Projection!Settled(ret, Projection!Settles).state, s, before)
<1>1. PICK r \in BOOLEAN : r = (way = "remove" \/ status[s] = "revoked")
  OBVIOUS
<1>2. PICK a \in BOOLEAN : a = Projection!Materializes(Projection!Settled(ret, Projection!Settles).state, s, before)
  BY DEF Projection!Materializes
<1>3. Projection!Removes(<<s, way>>) = r
  BY <1>1 DEF Projection!Removes
<1>4. j = [op |-> "project", box |-> <<s, way>>, mark |-> mark, remove |-> r, to |-> Projection!Settles,
           generation |-> ret.generation, allowed |-> a]
  BY <1>2, <1>3 DEF Projection!Projecting
<1>5. Projection!Settles \in Orders /\ ret.generation \in Nat /\ <<s, way>> \in Sources \X Ways
  <2>1. Projection!Settles \in Orders
    BY SettlesTo DEF Orders
  <2>2. ret.generation \in Nat
    BY DEF JourneyInv, Kept, Retention
  <2>3. <<s, way>> \in Sources \X Ways
    OBVIOUS
  <2> QED  BY <2>1, <2>2, <2>3
<1>6. j \in Projections
  BY <1>4, <1>5 DEF Projections
<1> QED  BY <1>1, <1>2, <1>4, <1>5, <1>6 DEF Errands

\* A projection begins for a source that is known by then.
Begins(p, s, way, mark, j) ==
  /\ Projection!Arrive(p, j) /\ j = Projection!Projecting(<<s, way>>, mark, old')
  /\ ret' = ret /\ UNCHANGED <<entitled, projected, events>>
  /\ status'[s] # "none" /\ (way = "remove" \/ status[s] = "revoked" <=> way = "remove" \/ status'[s] = "revoked")
  /\ way = "remove" => status'[s] = "revoked"
  /\ mark => <<s, way>> \in Boxes

LEMMA BeginsCarried ==
  ASSUME JourneyInv, NEW p \in Workers, NEW s \in Sources, NEW way \in Ways, NEW mark \in BOOLEAN, NEW j,
         Begins(p, s, way, mark, j)
  PROVE  j \in Errands /\ Carried(j)' /\ Reads(j)' /\ Projection!Goes(p, j)
<1>1. /\ j \in Projections /\ j \in Errands /\ j.op = "project" /\ j.box = <<s, way>> /\ j.mark = mark
      /\ j.remove = (way = "remove" \/ status[s] = "revoked") /\ j.to = Projection!Settles
      /\ j.generation = ret.generation
      /\ j.allowed = Projection!Materializes(Projection!Settled(ret, Projection!Settles).state, s, old')
  BY ProjectingIs DEF Begins
<1>2. Projection!Settles' = Projection!Settles /\ ret' = ret
  BY DEF Begins, Projection!Settles
<1>3. Carried(j)'
  <2>1. j.allowed => s \notin old'
    BY <1>1 DEF Projection!Materializes
  <2>2. ret.generation \in Nat
    BY DEF JourneyInv, Kept, Retention
  <2>3. j.box[1] = s /\ j.box[2] = way
    BY <1>1
  <2>4. j.remove => status'[s] = "revoked"
    BY <1>1 DEF Begins
  <2>5. way = "remove" => j.remove
    BY <1>1
  <2>6. status'[s] # "none" /\ (mark => <<s, way>> \in Boxes)
    BY DEF Begins
  <2>7. j.generation <= ret'.generation
    BY <1>1, <1>2, <2>2
  <2> QED  BY <1>1, <2>1, <2>3, <2>4, <2>5, <2>6, <2>7 DEF Carried
<1>4. Reads(j)'
  <2>1. j.remove = Projection!Removes(j.box)'
    BY <1>1 DEF Begins, Projection!Removes
  <2>2. Projection!Settled(ret, Projection!Settles)' = Projection!Settled(ret, Projection!Settles)
    BY <1>2 DEF Projection!Settled
  <2> QED  BY <1>1, <1>2, <2>1, <2>2 DEF Reads, Projection!Materializes
<1> QED  BY <1>1, <1>3, <1>4 DEF Begins, Projection!Arrive

\* It keeps the invariant, given what it does to the source and its outbox.
LEMMA BeginsStep ==
  ASSUME JourneyInv, NEW p \in Workers, NEW s \in Sources, NEW way \in Ways, NEW mark \in BOOLEAN, NEW j,
         Begins(p, s, way, mark, j),
         status' \in [Sources -> {"none", "sent", "earned", "revoked"}], old' \subseteq Sources,
         outbox' \in [Boxes -> {"none", "pending", "failed", "processed"}],
         \A t \in Sources : status[t] # "none" => status'[t] # "none",
         \A t \in Sources : status[t] = "revoked" => status'[t] = "revoked",
         \A t \in old' : t \in old \/ (status[t] = "none" /\ status'[t] # "none"),
         \A t \in Sources, w \in Ways : <<t, w>> \in Boxes =>
           outbox'[<<t, w>>] = "none" \/ outbox[<<t, w>>] # "none"
             \/ (status'[t] # "none" /\ (w = "remove" => status'[t] = "revoked")),
         calm /\ (\A q \in Workers : projector[q].op = "idle") => \A t \in Sources : Owed(t)'
  PROVE  JourneyInv'
<1>1. j \in Errands /\ Carried(j)' /\ Reads(j)' /\ Projection!Goes(p, j)
  BY BeginsCarried
<1>2. Projection!Arrive(p, j) /\ ret' = ret /\ UNCHANGED <<entitled, projected, events>>
  BY DEF Begins
<1>3. \A i \in Errands : Carried(i) => Carried(i)'
  <2> TAKE i \in Errands
  <2> SUFFICES ASSUME Carried(i), i.op = "project" PROVE Carried(i)'
    BY DEF Carried
  <2>1. i.box[1] \in Sources
    BY OpIs DEF Projections
  <2> QED  BY <1>2, <2>1 DEF Carried
<1>4. JourneyInTurn' /\ calm' \in BOOLEAN
  <2>1. calm' => calm /\ \A q \in Workers : projector[q].op = "idle"
    BY <1>2 DEF Projection!Arrive, Projection!Rest, Projection!Busy
  <2> QED  BY <1>1, <1>2, <2>1, ArrivesInTurn
<1>5. Kept'
  BY <1>1, <1>2, <1>4, Errand DEF JourneyInv, Kept
<1>6. Sourced'
  <2>1. \A t \in Sources : status'[t] = "none" => events'[t] = 0 /\ t \notin old'
    BY <1>2 DEF JourneyInv, Sourced
  <2>2. \A t \in Sources, w \in Ways : <<t, w>> \in Boxes /\ outbox'[<<t, w>>] # "none" =>
          status'[t] # "none" /\ (w = "remove" => status'[t] = "revoked")
    BY DEF JourneyInv, Sourced
  <2>3. \A r \in projected' : \E g \in Nat, t \in Sources, w \in Ways, b \in BOOLEAN :
          r = <<g, <<t, w>>, b>> /\ status'[t] # "none" /\ (b => status'[t] = "revoked")
    BY <1>2 DEF JourneyInv, Sourced
  <2> QED  BY <2>1, <2>2, <2>3 DEF Sourced
<1>7. Generations'
  BY <1>2 DEF JourneyInv, Generations, Sourced, Kept, Retention
<1> QED  BY <1>1, <1>3, <1>4, <1>5, <1>6, <1>7, CarriesOn DEF JourneyInv

LEMMA EarnStep ==
  ASSUME JourneyInv, NEW p \in Workers, NEW s \in Sources, Projection!Earn(p, s) PROVE JourneyInv'
<1>1. /\ s \in JourneyLessons \cup Achievements /\ status[s] = "none" /\ ret.state # "purged"
      /\ status' = [status EXCEPT ![s] = "earned"] /\ outbox' = [outbox EXCEPT ![<<s, "upsert">>] = "pending"]
      /\ UNCHANGED <<entitled, ret, old, projected, events>>
  BY DEF Projection!Earn
<1>2. PICK j : j = Projection!Projecting(<<s, "upsert">>, FALSE, old)
  OBVIOUS
<1>3. Begins(p, s, "upsert", FALSE, j)
  BY <1>1, <1>2 DEF Projection!Earn, Begins, JourneyInv, Kept
<1>4. <<s, "upsert">> \in Boxes
  BY <1>1, BoxIs
<1>5. status' \in [Sources -> {"none", "sent", "earned", "revoked"}]
      /\ outbox' \in [Boxes -> {"none", "pending", "failed", "processed"}]
      /\ \A t \in Sources : status'[t] = IF t = s THEN "earned" ELSE status[t]
  BY <1>1 DEF JourneyInv, Kept
<1>6. outbox'[<<s, "upsert">>] = "pending" /\ \A b \in Boxes : b # <<s, "upsert">> => outbox'[b] = outbox[b]
  BY <1>1, <1>4 DEF JourneyInv, Kept
<1>7. \A t \in Sources, w \in Ways : <<t, w>> \in Boxes /\ <<t, w>> # <<s, "upsert">> => outbox'[<<t, w>>] = outbox[<<t, w>>]
  BY <1>6
<1>8. ASSUME calm, NEW t \in Sources PROVE Owed(t)'
  <2>1. Owed(t)
    BY <1>8 DEF JourneyInv, JourneyInTurn
  <2>2. CASE t # s
    <3>1. \A way \in Ways : Waiting(t, way) => Waiting(t, way)'
      BY <1>7, <2>2 DEF Waiting
    <3> QED  BY <1>1, <1>5, <2>1, <2>2, <3>1, SameOwed
  <2>3. CASE t = s
    <3>1. Waiting(s, "upsert")'
      BY <1>4, <1>6 DEF Waiting
    <3>2. events[s] = 0 /\ s \notin old /\ ret.generation # 0
      BY <1>1 DEF JourneyInv, Sourced, Kept, Retention
    <3>3. ~Receipt(s, "upsert", FALSE)'
      BY <1>1 DEF JourneyInv, Sourced, Receipt
    <3> QED  BY <1>1, <1>5, <2>1, <2>3, <3>1, <3>2, <3>3 DEF Owed
  <2> QED  BY <2>2, <2>3
<1>9. \A t \in Sources, w \in Ways : <<t, w>> \in Boxes =>
        outbox'[<<t, w>>] = "none" \/ outbox[<<t, w>>] # "none"
          \/ (status'[t] # "none" /\ (w = "remove" => status'[t] = "revoked"))
  <2> TAKE t \in Sources, w \in Ways
  <2>1. CASE <<t, w>> = <<s, "upsert">>
    BY <1>5, <2>1
  <2>2. CASE <<t, w>> # <<s, "upsert">>
    BY <1>7, <2>2
  <2> QED  BY <2>1, <2>2
<1>10. old' \subseteq Sources /\ (\A t \in old' : t \in old) /\ "upsert" \in Ways
  BY <1>1 DEF JourneyInv, Kept, Ways
<1> QED  BY <1>1, <1>3, <1>5, <1>8, <1>9, <1>10, BeginsStep

LEMMA RevokeStep ==
  ASSUME JourneyInv, NEW p \in Workers, NEW s \in Sources, Projection!Revoke(p, s) PROVE JourneyInv'
<1>1. /\ s \in Achievements /\ status[s] = "earned"
      /\ status' = [status EXCEPT ![s] = "revoked"] /\ outbox' = [outbox EXCEPT ![<<s, "remove">>] = "pending"]
      /\ UNCHANGED <<entitled, ret, old, projected, events>>
  BY DEF Projection!Revoke
<1>2. PICK j : j = Projection!Projecting(<<s, "remove">>, FALSE, old)
  OBVIOUS
<1>3. Begins(p, s, "remove", FALSE, j)
  BY <1>1, <1>2 DEF Projection!Revoke, Begins, JourneyInv, Kept
<1>4. <<s, "remove">> \in Boxes
  BY <1>1, BoxIs
<1>5. status' \in [Sources -> {"none", "sent", "earned", "revoked"}]
      /\ outbox' \in [Boxes -> {"none", "pending", "failed", "processed"}]
      /\ \A t \in Sources : status'[t] = IF t = s THEN "revoked" ELSE status[t]
  BY <1>1 DEF JourneyInv, Kept
<1>6. outbox'[<<s, "remove">>] = "pending" /\ \A b \in Boxes : b # <<s, "remove">> => outbox'[b] = outbox[b]
  BY <1>1, <1>4 DEF JourneyInv, Kept
<1>7. \A t \in Sources, w \in Ways : <<t, w>> \in Boxes /\ <<t, w>> # <<s, "remove">> => outbox'[<<t, w>>] = outbox[<<t, w>>]
  BY <1>6
<1>8. ASSUME calm, NEW t \in Sources PROVE Owed(t)'
  <2>1. Owed(t)
    BY <1>8 DEF JourneyInv, JourneyInTurn
  <2>2. CASE t # s
    <3>1. \A way \in Ways : Waiting(t, way) => Waiting(t, way)'
      BY <1>7, <2>2 DEF Waiting
    <3> QED  BY <1>1, <1>5, <2>1, <2>2, <3>1, SameOwed
  <2>3. CASE t = s
    <3>1. Waiting(s, "remove")'
      BY <1>4, <1>6 DEF Waiting
    <3>2. ~Receipt(s, "remove", TRUE)'
      BY <1>1 DEF JourneyInv, Sourced, Receipt
    <3> QED  BY <1>1, <1>5, <2>1, <2>3, <3>1, <3>2 DEF Owed
  <2> QED  BY <2>2, <2>3
<1>9. \A t \in Sources, w \in Ways : <<t, w>> \in Boxes =>
        outbox'[<<t, w>>] = "none" \/ outbox[<<t, w>>] # "none"
          \/ (status'[t] # "none" /\ (w = "remove" => status'[t] = "revoked"))
  <2> TAKE t \in Sources, w \in Ways
  <2>1. CASE <<t, w>> = <<s, "remove">>
    BY <1>5, <2>1
  <2>2. CASE <<t, w>> # <<s, "remove">>
    BY <1>7, <2>2
  <2> QED  BY <2>1, <2>2
<1>10. old' \subseteq Sources /\ (\A t \in old' : t \in old) /\ "remove" \in Ways
  BY <1>1 DEF JourneyInv, Kept, Ways
<1> QED  BY <1>1, <1>3, <1>5, <1>8, <1>9, <1>10, BeginsStep

LEMMA RepairStep ==
  ASSUME JourneyInv, NEW p \in Workers, NEW box \in Boxes, Projection!Repair(p, box) PROVE JourneyInv'
<1>1. PICK s \in Sources, way \in Ways : box = <<s, way>>
  BY BoxIs
<1>2. PICK j : j = Projection!Projecting(<<s, way>>, TRUE, old)
  OBVIOUS
<1>3. UNCHANGED <<entitled, ret, status, old, outbox, projected, events>> /\ outbox[<<s, way>>] # "none"
  BY <1>1 DEF Projection!Repair
<1>4. Begins(p, s, way, TRUE, j)
  BY <1>1, <1>2, <1>3 DEF Projection!Repair, Begins, JourneyInv, Sourced
<1>5. ASSUME calm, NEW t \in Sources PROVE Owed(t)'
  BY <1>3, <1>5, SameOwed DEF JourneyInv, JourneyInTurn, Waiting
<1> QED  BY <1>3, <1>4, <1>5, BeginsStep DEF JourneyInv, Kept

LEMMA MilestoneStep ==
  ASSUME JourneyInv, NEW p \in Workers, NEW s \in Sources, NEW date \in {"past", "now"}, Projection!Milestone(p, s, date)
  PROVE  JourneyInv'
<1>1. PICK j : j = Projection!Projecting(<<s, "upsert">>, FALSE, old')
  OBVIOUS
<1>2. /\ \/ status[s] # "none" /\ UNCHANGED <<status, old>>
         \/ status[s] = "none" /\ status' = [status EXCEPT ![s] = "sent"] /\ old' \in {old, old \cup {s}}
      /\ Projection!Arrive(p, j) /\ UNCHANGED <<entitled, ret, outbox, projected, events>>
  BY <1>1 DEF Projection!Milestone
<1>3. /\ status' \in [Sources -> {"none", "sent", "earned", "revoked"}] /\ old' \subseteq Sources
      /\ \A t \in Sources : status'[t] = IF t = s /\ status[t] = "none" THEN "sent" ELSE status[t]
      /\ \A t \in old' : t \in old \/ (t = s /\ status[t] = "none")
      /\ \A t \in old : t \in old'
  BY <1>2 DEF JourneyInv, Kept
<1>4. Begins(p, s, "upsert", FALSE, j)
  BY <1>1, <1>2, <1>3 DEF Begins
<1>5. ASSUME calm, NEW t \in Sources PROVE Owed(t)'
  <2>1. Owed(t)
    BY <1>5 DEF JourneyInv, JourneyInTurn
  <2>2. CASE status'[t] = status[t]
    <3>1. t \in old' <=> t \in old
      BY <1>3, <2>2
    <3> QED  BY <1>2, <2>1, <2>2, <3>1, SameOwed DEF Waiting
  <2>3. CASE status'[t] = "sent" /\ status[t] = "none"
    <3>1. events[t] = 0 /\ ret.generation # 0
      BY <2>3 DEF JourneyInv, Sourced, Kept, Retention
    <3> QED  BY <1>2, <2>1, <2>3, <3>1 DEF Owed
  <2> QED  BY <1>3, <2>2, <2>3
<1>6. "upsert" \in Ways
  BY DEF Ways
<1> QED  BY <1>2, <1>3, <1>4, <1>5, <1>6, BeginsStep DEF JourneyInv, Kept, Sourced

\* What a process that projects has in hand.
LEMMA ProjectionIs ==
  ASSUME JourneyInv, NEW p \in Workers, Projection!Busy(p, "project")
  PROVE  \E j \in Projections, s \in Sources, way \in Ways :
           /\ projector[p] = j /\ j.op = "project" /\ j.box = <<s, way>> /\ j.box[1] = s /\ Carried(j) /\ (calm => Reads(j))
           /\ projector[p].op # "idle"
<1>1. projector[p] \in Projections /\ projector[p].op = "project"
  BY OpIs DEF Projection!Busy, JourneyInv, Kept
<1>2. PICK j \in Projections : projector[p] = j
  BY <1>1
<1>3. PICK s \in Sources, way \in Ways : j.box = <<s, way>>
  BY DEF Projections
<1> QED  BY <1>1, <1>2, <1>3 DEF JourneyInv, JourneyInTurn

\* An outbox row that is marked is still there, and still waits unless it was processed.
LEMMA MarkedIs ==
  ASSUME JourneyInv, NEW box, NEW mark \in {"failed", "processed"}
  PROVE  /\ Projection!Marked(box, mark) \in [Boxes -> {"none", "pending", "failed", "processed"}]
         /\ \A b \in Boxes : LET m == Projection!Marked(box, mark)[b]
                             IN  /\ m = "none" <=> outbox[b] = "none"
                                 /\ m # outbox[b] => b = box /\ m = mark
BY DEF Projection!Marked, JourneyInv, Kept, Boxes

LEMMA Unmarked ==
  ASSUME JourneyInv, NEW mark \in {"failed", "processed"}, NEW s \in Sources, NEW way \in Ways, NEW t \in Sources,
         NEW w \in Ways, outbox' = Projection!Marked(<<s, way>>, mark), Waiting(t, w),
         mark = "processed" => t # s \/ w # way
  PROVE  Waiting(t, w)'
<1>1. <<t, w>> \in Boxes /\ outbox[<<t, w>>] \in {"pending", "failed"}
  BY DEF Waiting
<1>2. outbox'[<<t, w>>] = outbox[<<t, w>>] \/ (<<t, w>> = <<s, way>> /\ outbox'[<<t, w>>] = mark)
  BY <1>1, MarkedIs
<1> QED  BY <1>1, <1>2 DEF Waiting

LEMMA SourcedStays ==
  ASSUME JourneyInv, UNCHANGED <<status, old, events, projected>>,
         \A b \in Boxes : outbox'[b] = "none" <=> outbox[b] = "none"
  PROVE  Sourced'
BY DEF JourneyInv, Sourced

LEMMA ProjectFailsStep ==
  ASSUME JourneyInv, NEW p \in Workers, Projection!ProjectFails(p) PROVE JourneyInv'
<1>1. PICK j \in Projections, s \in Sources, way \in Ways : projector[p] = j /\ j.box = <<s, way>> /\ projector[p].op # "idle"
  BY ProjectionIs DEF Projection!ProjectFails
<1>2. outbox' = Projection!Marked(<<s, way>>, "failed") /\ Projection!Goes(p, Projection!Nowhere)
      /\ UNCHANGED <<entitled, ret, status, old, projected, events, calm>>
  BY <1>1 DEF Projection!ProjectFails
<1>3. outbox' \in [Boxes -> {"none", "pending", "failed", "processed"}] /\ \A b \in Boxes : outbox'[b] = "none" <=> outbox[b] = "none"
  BY <1>2, MarkedIs
<1>4. ASSUME calm, NEW t \in Sources PROVE Owed(t)'
  <2>1. \A w \in Ways : Waiting(t, w) => Waiting(t, w)'
    BY <1>2, Unmarked
  <2> QED  BY <1>2, <1>4, <2>1, SameOwed DEF JourneyInv, JourneyInTurn
<1>5. JourneyInTurn'
  BY <1>1, <1>2, <1>4, EndsInTurn
<1>6. Kept'
  BY <1>2, <1>3, NowhereIs, Errand DEF JourneyInv, Kept
<1>7. Sourced' /\ Generations'
  BY <1>2, <1>3, SourcedStays DEF JourneyInv, Generations
<1>8. \A i \in Errands : Carried(i) => Carried(i)'
  BY <1>2 DEF Carried
<1> QED  BY <1>2, <1>5, <1>6, <1>7, <1>8, CarriesOn, NowhereIs DEF JourneyInv

LEMMA JourneyAbandonStep ==
  ASSUME JourneyInv, NEW p \in Workers, Projection!Abandon(p) PROVE JourneyInv'
<1>1. projector[p].op # "idle" /\ Projection!Goes(p, Projection!Nowhere)
      /\ UNCHANGED <<entitled, ret, status, old, outbox, projected, events, calm>>
  BY DEF Projection!Abandon, Projection!Busy
<1>2. ASSUME calm, NEW t \in Sources PROVE Owed(t)'
  BY <1>1, <1>2, SameOwed DEF JourneyInv, JourneyInTurn, Waiting
<1>3. JourneyInTurn'
  BY <1>1, <1>2, EndsInTurn
<1>4. Kept'
  BY <1>1, NowhereIs, Errand DEF JourneyInv, Kept
<1>5. Sourced' /\ Generations'
  BY <1>1, SourcedStays DEF JourneyInv, Generations
<1>6. \A i \in Errands : Carried(i) => Carried(i)'
  BY <1>1 DEF Carried
<1> QED  BY <1>1, <1>3, <1>4, <1>5, <1>6, CarriesOn, NowhereIs DEF JourneyInv

LEMMA PurgeReadStep ==
  ASSUME JourneyInv, NEW p \in Workers, Projection!PurgeRead(p) PROVE JourneyInv'
<1>1. PICK j : j = [op |-> "purge"]
  OBVIOUS
<1>2. j \in Errands /\ j.op = "purge"
  BY <1>1 DEF Errands
<1>3. /\ ret' = Projection!Settled(ret, Projection!Settles) /\ ret'.state = "inactive_retention"
      /\ Projection!Arrive(p, j) /\ UNCHANGED <<entitled, status, old, outbox, projected, events>>
  BY <1>1 DEF Projection!PurgeRead
<1>4. ret' \in Retention /\ ret'.generation = ret.generation
  <2>1. Projection!Settles \in Orders
    BY SettlesTo DEF Orders
  <2> QED  BY <1>3, <2>1, SettlesTo
<1>5. Carried(j)' /\ Reads(j)' /\ Projection!Goes(p, j)
  BY <1>2, <1>3 DEF Carried, Reads, Projection!Arrive
<1>6. \A i \in Errands : Carried(i) => Carried(i)'
  BY <1>3, <1>4 DEF Carried
<1>7. ASSUME calm', NEW s \in Sources PROVE Owed(s)'
  <2>1. calm
    BY <1>3, <1>7 DEF Projection!Arrive
  <2> QED  BY <1>3, <1>4, <2>1, SameOwed DEF JourneyInv, JourneyInTurn, Waiting
<1>8. JourneyInTurn' /\ calm' \in BOOLEAN
  BY <1>2, <1>3, <1>5, <1>7, ArrivesInTurn
<1>9. Kept'
  BY <1>2, <1>3, <1>4, <1>5, <1>8, Errand DEF JourneyInv, Kept
<1>10. Sourced' /\ Generations'
  BY <1>3, <1>4, SourcedStays DEF JourneyInv, Generations
<1> QED  BY <1>2, <1>5, <1>6, <1>8, <1>9, <1>10, CarriesOn DEF JourneyInv

LEMMA PurgeCommitStep ==
  ASSUME JourneyInv, NEW p \in Workers, Projection!PurgeCommit(p) PROVE JourneyInv'
<1>1. /\ projector[p].op = "purge" /\ Projection!Goes(p, Projection!Nowhere)
      /\ projected' = {} /\ outbox' = [b \in Boxes |-> "none"] /\ events' = [s \in Sources |-> 0]
      /\ \/ /\ ret.state = "inactive_retention"
            /\ ret' = [state |-> "purged", due |-> FALSE, generation |-> ret.generation + 1]
            /\ old' = {s \in Sources : status[s] # "none"}
         \/ ret.state # "inactive_retention" /\ UNCHANGED <<ret, old>>
      /\ UNCHANGED <<entitled, status, calm>>
  BY DEF Projection!PurgeCommit, Projection!Busy, Boxes, Sources
<1>2. /\ ret' \in Retention /\ ret.generation \in Nat \ {0}
      /\ \/ ret'.generation = ret.generation + 1 /\ ret'.state = "purged" /\ \A s \in Sources : s \in old' <=> status[s] # "none"
         \/ ret.state # "inactive_retention" /\ UNCHANGED <<ret, old>>
  <2>1. ret \in Retention /\ ret.generation \in Nat \ {0}
    BY DEF JourneyInv, Kept, Retention
  <2>2. PICK g \in Nat \ {0} : g = ret.generation + 1
    BY <2>1
  <2>3. [state |-> "purged", due |-> FALSE, generation |-> g] \in Retention
    BY DEF Retention, States
  <2>4. CASE ret.state = "inactive_retention"
    <3>1. ret' = [state |-> "purged", due |-> FALSE, generation |-> g]
      BY <1>1, <2>2, <2>4
    <3> QED  BY <1>1, <2>1, <2>2, <2>3, <2>4, <3>1
  <2> QED  BY <1>1, <2>1, <2>4
<1>3. Kept'
  <2>1. projector' \in [Workers -> Errands]
    BY <1>1, NowhereIs, Errand
  <2>2. outbox' \in [Boxes -> {"none", "pending", "failed", "processed"}] /\ events' \in [Sources -> Nat]
    BY <1>1
  <2>3. old' \subseteq Sources
    BY <1>1 DEF JourneyInv, Kept
  <2> QED  BY <1>1, <1>2, <2>1, <2>2, <2>3 DEF JourneyInv, Kept
<1>4. Sourced'
  <2>1. \A s \in Sources : status'[s] = "none" => events'[s] = 0 /\ s \notin old'
    BY <1>1, <1>2 DEF JourneyInv, Sourced
  <2>2. \A b \in Boxes : outbox'[b] = "none"
    BY <1>1
  <2> QED  BY <1>1, <2>1, <2>2 DEF Sourced
<1>5. Generations'
  <2>1. \A s \in Sources : events'[s] = 0
    BY <1>1
  <2>2. ret'.generation \in Nat \ {0} /\ old' \subseteq Sources
    BY <1>2, <1>3 DEF Retention, Kept
  <2> QED  BY <2>1, <2>2 DEF Generations
<1>6. \A i \in Errands : Carried(i) => Carried(i)'
  <2> TAKE i \in Errands
  <2> SUFFICES ASSUME Carried(i), i.op = "project" PROVE Carried(i)'
    BY DEF Carried
  <2>1. i.generation \in Nat /\ i.generation <= ret.generation
    BY OpIs DEF Carried, Projections
  <2> QED  BY <1>1, <1>2, <2>1 DEF Carried
<1>7. JourneyInTurn'
  <2>1. ASSUME calm, NEW s \in Sources PROVE Owed(s)'
    <3>1. ret.state = "inactive_retention"
      BY <1>1, <2>1 DEF JourneyInv, JourneyInTurn, Reads
    <3>2. ret'.state = "purged" /\ (s \in old' <=> status[s] # "none") /\ ret'.generation # 0
      BY <1>2, <3>1 DEF Retention
    <3>3. events'[s] = 0 /\ status'[s] = status[s]
      BY <1>1
    <3> QED  BY <3>2, <3>3 DEF Owed
  <2> QED  BY <1>1, <2>1, EndsInTurn
<1> QED  BY <1>1, <1>3, <1>4, <1>5, <1>6, <1>7, CarriesOn, NowhereIs DEF JourneyInv

LEMMA ProjectCommitStep ==
  ASSUME JourneyInv, NEW p \in Workers, NEW lives \in BOOLEAN, Projection!ProjectCommit(p, lives) PROVE JourneyInv'
<1>1. PICK j \in Projections, s \in Sources, way \in Ways :
        /\ projector[p] = j /\ j.op = "project" /\ j.box = <<s, way>> /\ j.box[1] = s /\ Carried(j) /\ (calm => Reads(j))
        /\ projector[p].op # "idle"
  BY ProjectionIs DEF Projection!ProjectCommit
<1>2. PICK r : r = <<j.generation, <<s, way>>, j.remove>>
  OBVIOUS
<1>3. PICK creates \in BOOLEAN : creates = (r \notin projected /\ ~j.remove /\ j.allowed /\ events[s] = 0)
  OBVIOUS
<1>4. /\ ret' = Projection!Settled(ret, j.to) /\ projected' = projected \cup {r}
      /\ events' = CASE creates -> [events EXCEPT ![s] = j.generation]
                     [] r \notin projected /\ j.remove -> [events EXCEPT ![s] = 0]
                     [] OTHER -> events
      /\ status' = IF creates /\ status[s] = "sent" THEN [status EXCEPT ![s] = "earned"] ELSE status
      /\ outbox' = IF j.mark /\ lives THEN Projection!Marked(<<s, way>>, "processed") ELSE outbox
      /\ Projection!Goes(p, Projection!Nowhere)
      /\ UNCHANGED <<entitled, old, calm>>
  BY <1>1, <1>2, <1>3 DEF Projection!ProjectCommit
<1>5. j.to \in Orders /\ j.generation \in Nat /\ j.remove \in BOOLEAN
  BY DEF Projections
<1>6. /\ ret' \in Retention /\ ret'.generation = ret.generation /\ (ret'.state = "purged" => ret.state = "purged")
      /\ ret.generation \in Nat \ {0}
  BY <1>4, <1>5, SettlesTo DEF JourneyInv, Kept, Retention
<1>7. /\ j.generation <= ret.generation /\ status[s] # "none" /\ (j.remove => status[s] = "revoked")
      /\ way = "remove" => j.remove
      /\ j.allowed /\ j.generation = ret.generation => s \notin old
  BY <1>1 DEF Carried
<1>8. /\ events' \in [Sources -> Nat] /\ \A t \in Sources : t # s => events'[t] = events[t]
      /\ creates => events'[s] = j.generation
      /\ r \notin projected /\ j.remove => events'[s] = 0
      /\ ~creates /\ ~(r \notin projected /\ j.remove) => events'[s] = events[s]
  <2>1. events \in [Sources -> Nat]
    BY DEF JourneyInv, Kept
  <2>2. CASE creates
    BY <1>3, <1>4, <1>5, <2>1, <2>2
  <2>3. CASE ~creates /\ r \notin projected /\ j.remove
    BY <1>3, <1>4, <1>5, <2>1, <2>3
  <2>4. CASE ~creates /\ ~(r \notin projected /\ j.remove)
    BY <1>3, <1>4, <1>5, <2>1, <2>4
  <2> QED  BY <2>2, <2>3, <2>4
<1>9. /\ status' \in [Sources -> {"none", "sent", "earned", "revoked"}]
      /\ \A t \in Sources : status'[t] = IF t = s /\ creates /\ status[s] = "sent" THEN "earned" ELSE status[t]
  BY <1>4 DEF JourneyInv, Kept
<1>10. /\ outbox' \in [Boxes -> {"none", "pending", "failed", "processed"}]
       /\ \A b \in Boxes : outbox'[b] = "none" <=> outbox[b] = "none"
  BY <1>4, MarkedIs DEF JourneyInv, Kept
<1>11. Kept'
  BY <1>4, <1>6, <1>8, <1>9, <1>10, NowhereIs, Errand DEF JourneyInv, Kept
<1>12. Sourced'
  <2>1. \A t \in Sources : status'[t] = "none" => events'[t] = 0 /\ t \notin old'
    BY <1>4, <1>7, <1>8, <1>9 DEF JourneyInv, Sourced
  <2>2. \A t \in Sources, w \in Ways : <<t, w>> \in Boxes /\ outbox'[<<t, w>>] # "none" =>
          status'[t] # "none" /\ (w = "remove" => status'[t] = "revoked")
    BY <1>9, <1>10 DEF JourneyInv, Sourced
  <2>3. ASSUME NEW x \in projected'
        PROVE  \E g \in Nat, t \in Sources, w \in Ways, b \in BOOLEAN :
                 x = <<g, <<t, w>>, b>> /\ status'[t] # "none" /\ (b => status'[t] = "revoked")
    <3>1. CASE x = r
      BY <1>2, <1>5, <1>7, <1>9, <3>1
    <3>2. CASE x \in projected
      <4>1. PICK g \in Nat, t \in Sources, w \in Ways, b \in BOOLEAN :
              x = <<g, <<t, w>>, b>> /\ status[t] # "none" /\ (b => status[t] = "revoked")
        BY <3>2 DEF JourneyInv, Sourced
      <4>2. status'[t] # "none" /\ (b => status'[t] = "revoked")
        BY <1>9, <4>1
      <4> QED  BY <4>1, <4>2
    <3> QED  BY <1>4, <2>3, <3>1, <3>2
  <2> QED  BY <2>1, <2>2, <2>3 DEF Sourced
<1>13. Generations'
  <2>1. \A t \in Sources : events'[t] <= ret'.generation
    BY <1>5, <1>6, <1>7, <1>8 DEF JourneyInv, Generations
  <2>2. ASSUME NEW t \in old' PROVE events'[t] # ret'.generation
    <3>1. t \in old /\ t \in Sources /\ events[t] # ret.generation
      BY <1>4, <2>2 DEF JourneyInv, Generations, Kept
    <3> QED  BY <1>3, <1>6, <1>7, <1>8, <3>1
  <2> QED  BY <2>1, <2>2 DEF Generations
<1>14. \A i \in Errands : Carried(i) => Carried(i)'
  <2> TAKE i \in Errands
  <2> SUFFICES ASSUME Carried(i), i.op = "project" PROVE Carried(i)'
    BY DEF Carried
  <2>1. i.box[1] \in Sources
    BY OpIs DEF Projections
  <2> QED  BY <1>4, <1>6, <1>9, <2>1 DEF Carried
<1>15. JourneyInTurn'
  <2>1. ASSUME calm, NEW t \in Sources PROVE Owed(t)'
    <3>1. Owed(t)
      BY <2>1 DEF JourneyInv, JourneyInTurn
    <3>2. /\ j.generation = ret.generation /\ j.to = Projection!Settles
          /\ j.remove = Projection!Removes(j.box)
          /\ j.allowed = Projection!Materializes(Projection!Settled(ret, Projection!Settles).state, s, old)
      BY <1>1, <2>1 DEF Reads
    <3>3. CASE t # s
      <4>1. \A w \in Ways : Waiting(t, w) => Waiting(t, w)'
        BY <1>4, <3>3, Unmarked DEF Waiting
      <4>2. \A w \in Ways, b \in BOOLEAN : Receipt(t, w, b)' <=> Receipt(t, w, b)
        BY <1>2, <1>4, <1>6, <3>3 DEF Receipt
      <4> QED  BY <1>4, <1>6, <1>8, <1>9, <3>1, <3>3, <4>1, <4>2 DEF Owed, Ways
    <3>4. CASE t = s
      <4>1. j.remove <=> way = "remove" \/ status[s] = "revoked"
        <5>1. j.box[1] = s /\ j.box[2] = way
          BY <1>1
        <5>2. Projection!Removes(j.box) <=> way = "remove" \/ status[s] = "revoked"
          BY <5>1 DEF Projection!Removes
        <5> QED  BY <3>2, <5>2
      <4>2. /\ creates <=> r \notin projected /\ ~j.remove /\ j.allowed /\ events[s] = 0
            /\ j.allowed <=> ret'.state # "purged" /\ s \notin old
        BY <1>3, <1>4, <3>2 DEF Projection!Materializes
      <4>3. status[s] \in {"none", "sent", "earned", "revoked"} /\ way \in {"upsert", "remove"}
        BY DEF JourneyInv, Kept, Ways
      <4>4. events'[s] \in {0, ret.generation}
        BY <1>8, <3>1, <3>2, <3>4 DEF Owed
      <4>5. ASSUME status'[s] = "earned", s \notin old, events'[s] # ret.generation PROVE FALSE
        <5>1. ~creates /\ status[s] = "earned"
          BY <1>8, <1>9, <3>2, <4>5
        <5>2. ~j.remove /\ way = "upsert"
          BY <1>7, <4>3, <5>1
        <5>3. events'[s] = events[s] /\ events[s] = 0
          BY <1>8, <4>4, <4>5, <5>1, <5>2
        <5>4. r = <<ret.generation, <<s, "upsert">>, FALSE>>
          BY <1>2, <1>5, <3>2, <5>2
        <5>5. r \notin projected
          BY <3>1, <3>4, <4>4, <4>5, <5>1, <5>3, <5>4 DEF Owed, Receipt
        <5>6. ret'.state = "purged"
          BY <4>2, <4>5, <5>1, <5>2, <5>3, <5>5
        <5> QED  BY <1>6, <3>1, <3>4, <4>5, <5>1, <5>6 DEF Owed
      <4>6. ASSUME events'[s] = ret.generation, status'[s] # "earned"
            PROVE  status'[s] = "revoked" /\ Waiting(s, "remove")' /\ ~Receipt(s, "remove", TRUE)'
        <5>1. ~creates
          BY <1>7, <1>9, <4>1, <4>2, <4>3, <4>6
        <5>2. events[s] = ret.generation /\ status'[s] = status[s] /\ (j.remove => r \in projected)
          BY <1>6, <1>8, <1>9, <4>6, <5>1
        <5>3. status[s] = "revoked" /\ Waiting(s, "remove") /\ ~Receipt(s, "remove", TRUE)
          BY <3>1, <3>4, <4>6, <5>2 DEF Owed
        <5>4. r \in projected /\ j.remove
          BY <4>1, <5>2, <5>3
        <5>5. way = "upsert"
          <6>1. way = "remove" => r = <<ret.generation, <<s, "remove">>, TRUE>>
            BY <1>2, <1>5, <3>2, <5>4
          <6> QED  BY <4>3, <5>3, <5>4, <6>1 DEF Receipt
        <5>6. Waiting(s, "remove")'
          BY <1>4, <5>3, <5>5, Unmarked DEF Waiting, Ways
        <5>7. projected' = projected
          BY <1>4, <5>4
        <5> QED  BY <1>6, <5>2, <5>3, <5>6, <5>7 DEF Receipt
      <4>7. ASSUME ret'.state = "purged", status'[s] \in {"earned", "revoked"} PROVE s \in old
        <5>1. ~creates
          BY <4>2, <4>7
        <5> QED  BY <1>6, <1>9, <3>1, <3>4, <4>7, <5>1 DEF Owed
      <4> QED  BY <1>4, <1>6, <3>4, <4>4, <4>5, <4>6, <4>7 DEF Owed
    <3> QED  BY <3>3, <3>4
  <2> QED  BY <1>1, <1>4, <2>1, EndsInTurn
<1> QED  BY <1>4, <1>11, <1>12, <1>13, <1>14, <1>15, CarriesOn, NowhereIs DEF JourneyInv

LEMMA JourneyNext == JourneyInv /\ [Projection!Next]_(Projection!vars) => JourneyInv'
<1> SUFFICES ASSUME JourneyInv, [Projection!Next]_(Projection!vars) PROVE JourneyInv'
  OBVIOUS
<1>1. CASE Projection!Entitlement \/ Projection!YearPasses
  BY <1>1, EntitlementStep
<1>2. ASSUME NEW p \in Workers, Projection!RetentionRead(p) \/ Projection!RetentionWrite(p) PROVE JourneyInv'
  BY <1>2, RetentionReadStep, RetentionWriteStep
<1>3. ASSUME NEW p \in Workers, NEW s \in Sources,
             Projection!Earn(p, s) \/ Projection!Revoke(p, s) \/ \E date \in {"past", "now"} : Projection!Milestone(p, s, date)
      PROVE  JourneyInv'
  BY <1>3, EarnStep, RevokeStep, MilestoneStep
<1>4. ASSUME NEW p \in Workers, NEW b \in Boxes, Projection!Repair(p, b) PROVE JourneyInv'
  BY <1>4, RepairStep
<1>5. ASSUME NEW p \in Workers, NEW lives \in BOOLEAN, Projection!ProjectCommit(p, lives) PROVE JourneyInv'
  BY <1>5, ProjectCommitStep
<1>6. ASSUME NEW p \in Workers,
             Projection!ProjectFails(p) \/ Projection!PurgeRead(p) \/ Projection!PurgeCommit(p) \/ Projection!Abandon(p)
      PROVE  JourneyInv'
  BY <1>6, ProjectFailsStep, PurgeReadStep, PurgeCommitStep, JourneyAbandonStep
<1>7. CASE UNCHANGED Projection!vars
  <2>1. UNCHANGED <<entitled, ret, status, old, outbox, projected, events, projector, calm>>
    BY <1>7 DEF Projection!vars
  <2>2. Kept' /\ Sourced' /\ Generations'
    BY <2>1 DEF JourneyInv, Kept, Sourced, Generations
  <2>3. \A q \in Workers : Carried(projector[q])'
    BY <2>1 DEF JourneyInv, Carried
  <2>4. JourneyInTurn'
    <3>1. \A q \in Workers : Reads(projector[q]) => Reads(projector[q])'
      BY <2>1 DEF Reads, Projection!Settles, Projection!Settled, Projection!Removes, Projection!Materializes
    <3>2. \A s \in Sources : Owed(s) => Owed(s)'
      BY <2>1, SameOwed DEF Waiting
    <3> QED  BY <2>1, <3>1, <3>2 DEF JourneyInv, JourneyInTurn
  <2> QED  BY <2>2, <2>3, <2>4 DEF JourneyInv
<1> QED  BY <1>1, <1>2, <1>3, <1>4, <1>5, <1>6, <1>7 DEF Projection!Next, Sources, Boxes

LEMMA JourneySuffices ==
  JourneyInv => Projection!TypeOK /\ Projection!JourneyFollowsItsSources /\ Projection!NothingPurgedIsShown
<1> SUFFICES ASSUME JourneyInv
             PROVE  Projection!TypeOK /\ Projection!JourneyFollowsItsSources /\ Projection!NothingPurgedIsShown
  OBVIOUS
<1>1. Projection!TypeOK
  BY DEF JourneyInv, Kept, Retention, States, Sources, Boxes, Projection!TypeOK
<1>2. Projection!NothingPurgedIsShown
  BY DEF JourneyInv, Generations, Projection!NothingPurgedIsShown, Projection!Shown
<1>3. Projection!JourneyFollowsItsSources
  <2> SUFFICES ASSUME calm, Projection!Projected, ret.state # "purged"
               PROVE  Projection!Shown = {s \in Sources \ old : status[s] = "earned"}
    BY DEF Projection!JourneyFollowsItsSources, Sources
  <2>1. Projection!Shown = {s \in Sources : events[s] = ret.generation}
    BY DEF Projection!Shown, Sources
  <2>2. \A s \in Sources, way \in Ways : ~Waiting(s, way)
    BY DEF Waiting, Projection!Projected, Boxes
  <2>3. \A s \in Sources : events[s] = ret.generation <=> s \notin old /\ status[s] = "earned"
    BY <2>2 DEF JourneyInv, JourneyInTurn, Owed, Generations, Ways
  <2> QED  BY <2>1, <2>3
<1> QED  BY <1>1, <1>2, <1>3

-----------------------------------------------------------------------------
(* The weeks of a learner in an app (Consistency): counting them.             *)

\* Induction up to a bound, over a set instead of a predicate.
LEMMA UpTo ==
  ASSUME NEW n \in Nat, NEW S, 0 \in S, \A i \in 0..n : i # n /\ i \in S => i + 1 \in S
  PROVE  0..n \subseteq S
<1> DEFINE R == {ss \in Nat \X Nat : ss[1] < ss[2]}
           Out == {i \in 0..n : i \notin S}
<1> SUFFICES ASSUME Out # {} PROVE FALSE
  OBVIOUS
<1>1. IsWellFoundedOn(R, Nat)
  BY NatLessThanWellFounded DEF OpToRel
<1>2. \A x, y \in Nat : y < x => <<y, x>> \in R
  OBVIOUS
<1>3. Out \subseteq Nat
  OBVIOUS
<1> HIDE DEF R
<1>4. PICK m \in Out : \A i \in Out : <<i, m>> \notin R
  BY <1>1, <1>3, WFMin
<1>5. m \in 0..n /\ m \notin S /\ m # 0
  OBVIOUS
<1>6. m - 1 \in 0..n /\ m - 1 # n /\ m - 1 + 1 = m /\ m - 1 < m /\ m \in Nat /\ m - 1 \in Nat
  BY <1>5
<1>7. m - 1 \notin S
  BY <1>5, <1>6
<1>8. <<m - 1, m>> \in R
  BY <1>2, <1>6
<1> QED  BY <1>4, <1>6, <1>7, <1>8

Weeks == 1..MaxWeek
Statuses == {"none", "open"} \cup Cadence!Final

\* What a week makes of the count of those before it.
Restarts(k, s, w) == s.latest # 0 /\ \E v \in s.latest + 1..w - 1 : k[v] # "eligible"
Count(k, rs, s, w) ==
  LET n == IF Restarts(k, s, w) THEN 1 ELSE s.streak + 1
  IN  CASE rs[w] = "cadence_complete" ->
             [s EXCEPT !.streak = n, !.longest = Cadence!MaxOf(s.longest, n), !.latest = w]
        [] rs[w] = "incomplete_reset" -> [s EXCEPT !.streak = 0]
        [] OTHER -> s
IsTally(k, rs, f) ==
  f = [w \in 0..MaxWeek |-> IF w = 0 THEN Cadence!NoStreak ELSE Count(k, rs, f[w - 1], w)]
Tally(k, rs) == CHOOSE f : IsTally(k, rs, f)

LEMMA RecountIs == Cadence!Recount = Tally(kind, rows)[MaxWeek]
BY DEF Cadence!Recount, Tally, IsTally, Count, Restarts

LEMMA WeeksAre == MaxWeek \in Nat \ {0} /\ MaxWeek \in Weeks /\ 0..MaxWeek = Weeks \cup {0}
BY LearningAssumption DEF Weeks

LEMMA TallyIs ==
  ASSUME NEW k, NEW rs
  PROVE  /\ Tally(k, rs)[0] = Cadence!NoStreak
         /\ \A w \in Weeks : Tally(k, rs)[w] = Count(k, rs, Tally(k, rs)[w - 1], w)
<1> DEFINE Upto(n, f) == f = [w \in 0..n |-> IF w = 0 THEN Cadence!NoStreak ELSE Count(k, rs, f[w - 1], w)]
           S == {n \in 0..MaxWeek : \E f : Upto(n, f)}
<1>1. 0 \in S
  <2>1. PICK f : f = [w \in 0..0 |-> Cadence!NoStreak]
    OBVIOUS
  <2>2. Upto(0, f)
    BY <2>1
  <2> QED  BY <2>2, WeeksAre
<1>2. ASSUME NEW n \in 0..MaxWeek, n # MaxWeek, n \in S PROVE n + 1 \in S
  <2>1. PICK f : Upto(n, f)
    BY <1>2
  <2>2. PICK g : g = [w \in 0..n + 1 |-> IF w = n + 1 THEN Count(k, rs, f[n], n + 1) ELSE f[w]]
    OBVIOUS
  <2>3. ASSUME NEW w \in 0..n + 1
        PROVE  g[w] = IF w = 0 THEN Cadence!NoStreak ELSE Count(k, rs, g[w - 1], w)
    <3>1. CASE w = n + 1
      <4>1. g[n] = f[n] /\ w # 0 /\ w - 1 = n
        BY <2>2, <3>1
      <4> QED  BY <2>2, <3>1, <4>1
    <3>2. CASE w # n + 1
      <4>1. w \in 0..n /\ g[w] = f[w] /\ (w # 0 => w - 1 \in 0..n /\ g[w - 1] = f[w - 1])
        BY <2>2, <3>2
      <4>2. f[w] = IF w = 0 THEN Cadence!NoStreak ELSE Count(k, rs, f[w - 1], w)
        BY <2>1, <4>1
      <4> QED  BY <4>1, <4>2
    <3> QED  BY <3>1, <3>2
  <2>4. g = [w \in 0..n + 1 |-> IF w = 0 THEN Cadence!NoStreak ELSE Count(k, rs, g[w - 1], w)]
    BY <2>2, <2>3
  <2> QED  BY <1>2, <2>4, WeeksAre
<1>3. MaxWeek \in S
  <2> HIDE DEF S
  <2>1. 0..MaxWeek \subseteq S
    BY <1>1, <1>2, UpTo, WeeksAre
  <2> QED  BY <2>1, WeeksAre
<1>4. \E f : IsTally(k, rs, f)
  BY <1>3 DEF IsTally
<1>5. IsTally(k, rs, Tally(k, rs))
  BY <1>4 DEF Tally
<1>6. PICK f : f = Tally(k, rs)
  OBVIOUS
<1>7. \A w \in 0..MaxWeek : f[w] = IF w = 0 THEN Cadence!NoStreak ELSE Count(k, rs, f[w - 1], w)
  BY <1>5, <1>6 DEF IsTally
<1> QED  BY <1>6, <1>7, WeeksAre DEF Weeks

\* The count of the first weeks.
Tallied(n) == [streak : 0..n, longest : 0..n, latest : 0..n, gap : {FALSE}]

LEMMA TallyTypes ==
  ASSUME NEW k, NEW rs, NEW w \in 0..MaxWeek
  PROVE  Tally(k, rs)[w] \in Tallied(w) /\ Tally(k, rs)[w].streak <= Tally(k, rs)[w].longest
<1> DEFINE T == Tally(k, rs)
           S == {n \in 0..MaxWeek : T[n] \in Tallied(n) /\ T[n].streak <= T[n].longest}
<1>1. 0 \in S
  <2>1. T[0] = [streak |-> 0, longest |-> 0, latest |-> 0, gap |-> FALSE]
    BY TallyIs DEF Cadence!NoStreak
  <2>2. T[0] \in Tallied(0) /\ T[0].streak <= T[0].longest
    BY <2>1 DEF Tallied
  <2> QED  BY <2>2, WeeksAre
<1>2. ASSUME NEW n \in 0..MaxWeek, n # MaxWeek, n \in S PROVE n + 1 \in S
  <2>1. PICK t \in Tallied(n) : T[n] = t /\ t.streak <= t.longest
    BY <1>2
  <2>2. n + 1 \in Weeks /\ n + 1 - 1 = n /\ n \in Nat
    BY <1>2, WeeksAre DEF Weeks
  <2>3. T[n + 1] = Count(k, rs, t, n + 1)
    BY <2>1, <2>2, TallyIs
  <2>4. t.streak \in 0..n /\ t.longest \in 0..n /\ t.latest \in 0..n
    BY <2>1 DEF Tallied
  <2>5. PICK m \in 0..n + 1 : m = IF Restarts(k, t, n + 1) THEN 1 ELSE t.streak + 1
    BY <2>2, <2>4
  <2>6. PICK x \in 0..n + 1 : x = Cadence!MaxOf(t.longest, m) /\ m <= x
    BY <2>2, <2>4 DEF Cadence!MaxOf
  <2>7. \/ T[n + 1] = [t EXCEPT !.streak = m, !.longest = x, !.latest = n + 1]
        \/ T[n + 1] = [t EXCEPT !.streak = 0]
        \/ T[n + 1] = t
    BY <2>3, <2>5, <2>6 DEF Count
  <2>8. 0..n \subseteq 0..n + 1
    BY <2>2
  <2>10. t \in Tallied(n + 1)
    BY <2>8 DEF Tallied
  <2>11. PICK zero \in 0..n + 1 : zero = 0
    BY <2>2
  <2>12. PICK last \in 0..n + 1 : last = n + 1
    BY <2>2
  <2>9. T[n + 1] \in Tallied(n + 1) /\ T[n + 1].streak <= T[n + 1].longest
    <3>1. CASE T[n + 1] = [t EXCEPT !.streak = m, !.longest = x, !.latest = n + 1]
      <4>1. T[n + 1] = [t EXCEPT !.streak = m, !.longest = x, !.latest = last]
        BY <3>1, <2>12
      <4>2. T[n + 1] \in Tallied(n + 1)
        BY <2>10, <4>1 DEF Tallied
      <4>3. T[n + 1].streak = m /\ T[n + 1].longest = x
        BY <2>10, <4>1 DEF Tallied
      <4> QED  BY <2>6, <4>2, <4>3
    <3>2. CASE T[n + 1] = [t EXCEPT !.streak = 0]
      <4>1. T[n + 1] = [t EXCEPT !.streak = zero]
        BY <3>2, <2>11
      <4>2. T[n + 1] \in Tallied(n + 1)
        BY <2>10, <4>1 DEF Tallied
      <4>3. T[n + 1].streak = 0 /\ T[n + 1].longest = t.longest
        BY <2>10, <2>11, <4>1 DEF Tallied
      <4> QED  BY <2>4, <4>2, <4>3
    <3>3. CASE T[n + 1] = t
      BY <2>1, <2>10, <3>3
    <3> QED  BY <2>7, <3>1, <3>2, <3>3
  <2> QED  BY <2>2, <2>9, WeeksAre
<1> HIDE DEF S
<1>3. 0..MaxWeek \subseteq S
  BY <1>1, <1>2, UpTo, WeeksAre
<1> QED  BY <1>3 DEF S

\* Only these rows count; others may change without a trace.
Counts(rs, w) == rs[w] \in {"cadence_complete", "incomplete_reset"}
Alike(rs, other, w) == rs[w] = other[w] \/ (~Counts(rs, w) /\ ~Counts(other, w))

LEMMA TallyAgrees ==
  ASSUME NEW k, NEW rs, NEW other, NEW n \in 0..MaxWeek, \A w \in 1..n : Alike(rs, other, w)
  PROVE  \A w \in 0..n : Tally(k, rs)[w] = Tally(k, other)[w]
<1> DEFINE S == {w \in 0..n : Tally(k, rs)[w] = Tally(k, other)[w]}
<1>1. 0 \in S
  BY TallyIs
<1>2. ASSUME NEW i \in 0..n, i # n, i \in S PROVE i + 1 \in S
  <2>1. i + 1 \in Weeks /\ i + 1 \in 1..n /\ i + 1 - 1 = i
    BY <1>2, WeeksAre DEF Weeks
  <2>2. PICK t : t = Tally(k, rs)[i] /\ t = Tally(k, other)[i]
    BY <1>2
  <2>6. Tally(k, rs)[i + 1 - 1] = t /\ Tally(k, other)[i + 1 - 1] = t
    BY <2>1, <2>2
  <2>7. Tally(k, rs)[i + 1] = Count(k, rs, Tally(k, rs)[i + 1 - 1], i + 1)
    BY <2>1, TallyIs
  <2>8. Tally(k, other)[i + 1] = Count(k, other, Tally(k, other)[i + 1 - 1], i + 1)
    BY <2>1, TallyIs
  <2>3. Tally(k, rs)[i + 1] = Count(k, rs, t, i + 1) /\ Tally(k, other)[i + 1] = Count(k, other, t, i + 1)
    BY <2>6, <2>7, <2>8
  <2>4. Alike(rs, other, i + 1)
    BY <2>1
  <2>5. Count(k, rs, t, i + 1) = Count(k, other, t, i + 1)
    BY <2>4 DEF Alike, Counts, Count
  <2> QED  BY <2>1, <2>3, <2>5
<1> HIDE DEF S
<1>3. 0..n \subseteq S
  BY <1>1, <1>2, UpTo, WeeksAre
<1> QED  BY <1>3 DEF S

\* The weeks after the last one that counts change nothing.
LEMMA TallyEnds ==
  ASSUME NEW k, NEW rs, NEW n \in 0..MaxWeek, \A w \in Weeks : w > n => ~Counts(rs, w)
  PROVE  Tally(k, rs)[MaxWeek] = Tally(k, rs)[n]
<1> DEFINE S == {w \in 0..MaxWeek : w >= n => Tally(k, rs)[w] = Tally(k, rs)[n]}
<1>1. 0 \in S
  BY WeeksAre
<1>2. ASSUME NEW i \in 0..MaxWeek, i # MaxWeek, i \in S PROVE i + 1 \in S
  <2>1. i + 1 \in Weeks /\ i + 1 \in 0..MaxWeek /\ i + 1 - 1 = i /\ n \in Nat /\ i \in Nat
    BY <1>2, WeeksAre DEF Weeks
  <2>2. CASE i + 1 > n
    <3>1. Tally(k, rs)[i] = Tally(k, rs)[n] /\ ~Counts(rs, i + 1)
      BY <1>2, <2>1, <2>2
    <3>2. PICK t : t = Tally(k, rs)[i]
      OBVIOUS
    <3>3. Tally(k, rs)[i + 1] = Count(k, rs, t, i + 1)
      BY <2>1, <3>2, TallyIs
    <3>4. Count(k, rs, t, i + 1) = t
      BY <3>1 DEF Counts, Count
    <3> QED  BY <2>1, <3>1, <3>2, <3>3, <3>4
  <2>3. CASE i + 1 <= n
    BY <2>1, <2>3
  <2> QED  BY <2>1, <2>2, <2>3
<1> HIDE DEF S
<1>3. 0..MaxWeek \subseteq S
  BY <1>1, <1>2, UpTo, WeeksAre
<1>4. MaxWeek \in 0..MaxWeek /\ MaxWeek >= n
  BY WeeksAre
<1> QED  BY <1>3, <1>4 DEF S

\* A store that is as the weeks were handled in order.
Streaks == [streak : Nat, longest : Nat, current : 0..MaxWeek, latest : 0..MaxWeek]
Stores == [rows : [Weeks -> Statuses], state : Streaks]
Matches(s, t) == s.streak = t.streak /\ s.longest = t.longest /\ s.latest = t.latest
Orderly(wk, k, fs, st) ==
  /\ st \in Stores /\ st.state.current <= wk
  /\ \A w \in Weeks : w > wk => st.rows[w] = "none"
  /\ \A w \in Weeks : w > st.state.current => ~Counts(st.rows, w)
  /\ \A w \in Weeks : st.rows[w] \notin {"none", "open", "cadence_complete"} =>
       k[w] # "eligible" \/ (w < wk /\ fs[w] < 2)
  /\ \A w \in Weeks : st.rows[w] = "incomplete_reset" => k[w] = "eligible"
  /\ \A w \in Weeks : st.rows[w] = "out_of_scope" => k[w] = "out_of_scope"
  /\ Matches(st.state, Tally(k, st.rows)[MaxWeek])
OrderlyNow(st) == Orderly(week, kind, funded, st)

WeekTypes ==
  /\ week \in Weeks /\ kind \in [Weeks -> Cadence!Kinds] /\ funded \in [Weeks -> 0..2]
  /\ \A w \in Weeks : w > week => funded[w] = 0

\* A row that did not count and does not count changes no count.
LEMMA SetAside ==
  ASSUME WeekTypes, NEW st, OrderlyNow(st), NEW w \in 1..week, NEW r \in Statuses,
         ~Counts(st.rows, w), r \notin {"cadence_complete", "incomplete_reset"},
         r \in {"none", "open"} \/ kind[w] # "eligible" \/ (w < week /\ funded[w] < 2),
         r = "out_of_scope" => kind[w] = "out_of_scope",
         NEW c \in {st.state.current, w}, c >= st.state.current
  PROVE  OrderlyNow([rows |-> [st.rows EXCEPT ![w] = r], state |-> [st.state EXCEPT !.current = c]])
<1>1. PICK s \in Streaks : s = st.state
  BY DEF OrderlyNow, Orderly, Stores
<1>2. PICK rs \in [Weeks -> Statuses] : rs = st.rows
  BY DEF OrderlyNow, Orderly, Stores
<1>3. w \in Weeks /\ week \in 0..MaxWeek /\ c \in 0..MaxWeek /\ c <= week
  BY <1>1, WeeksAre DEF WeekTypes, OrderlyNow, Orderly, Streaks, Weeks
<1>4. PICK new \in [Weeks -> Statuses] : new = [rs EXCEPT ![w] = r]
  BY <1>3
<1>5. new[w] = r /\ \A v \in Weeks : v # w => new[v] = rs[v]
  BY <1>3, <1>4
<1>6. PICK t \in Streaks : t = [s EXCEPT !.current = c] /\ t.current = c /\ t.streak = s.streak
                          /\ t.longest = s.longest /\ t.latest = s.latest
  <2>1. PICK t : t = [s EXCEPT !.current = c]
    OBVIOUS
  <2>2. t \in Streaks
    BY <1>3, <2>1 DEF Streaks
  <2>3. t.current = c /\ t.streak = s.streak /\ t.longest = s.longest /\ t.latest = s.latest
    BY <2>1 DEF Streaks
  <2> QED  BY <2>1, <2>2, <2>3
<1>7. \A v \in 1..MaxWeek : Alike(rs, new, v)
  <2> TAKE v \in 1..MaxWeek
  <2>1. v \in Weeks
    BY DEF Weeks
  <2>2. CASE v = w
    BY <1>2, <1>5, <2>2 DEF Alike, Counts
  <2>3. CASE v # w
    BY <1>5, <2>1, <2>3 DEF Alike
  <2> QED  BY <2>2, <2>3
<1>8. Tally(kind, new)[MaxWeek] = Tally(kind, rs)[MaxWeek]
  BY <1>7, TallyAgrees, WeeksAre
<1>9. Matches(t, Tally(kind, new)[MaxWeek])
  BY <1>1, <1>2, <1>6, <1>8 DEF Matches, OrderlyNow, Orderly
<1>10. PICK u \in Stores : u = [rows |-> new, state |-> t]
  BY DEF Stores
<1>11. u.rows = new /\ u.state = t
  BY <1>10
<1>12. \A v \in Weeks : v > week => new[v] = "none"
  BY <1>2, <1>3, <1>5 DEF OrderlyNow, Orderly
<1>13. \A v \in Weeks : v > t.current => ~Counts(new, v)
  <2> TAKE v \in Weeks
  <2> HAVE v > t.current
  <2>1. CASE v = w
    BY <1>5, <2>1 DEF Counts
  <2>2. CASE v # w
    <3>1. v > st.state.current
      BY <1>1, <1>3, <1>6 DEF Weeks, Streaks
    <3> QED  BY <1>2, <1>5, <2>2, <3>1 DEF OrderlyNow, Orderly, Counts
  <2> QED  BY <2>1, <2>2
<1>14. \A v \in Weeks : new[v] \notin {"none", "open", "cadence_complete"} =>
         kind[v] # "eligible" \/ (v < week /\ funded[v] < 2)
  BY <1>2, <1>5 DEF OrderlyNow, Orderly
<1>15. \A v \in Weeks : new[v] = "incomplete_reset" => kind[v] = "eligible"
  BY <1>2, <1>5 DEF OrderlyNow, Orderly
<1>16. \A v \in Weeks : new[v] = "out_of_scope" => kind[v] = "out_of_scope"
  BY <1>2, <1>5 DEF OrderlyNow, Orderly
<1>17. t.current <= week
  BY <1>3, <1>6
<1>18. OrderlyNow(u)
  BY <1>9, <1>11, <1>12, <1>13, <1>14, <1>15, <1>16, <1>17 DEF OrderlyNow, Orderly
<1> QED  BY <1>1, <1>2, <1>4, <1>6, <1>10, <1>18

LEMMA OrderlyIs ==
  ASSUME NEW u \in Stores, u.state.current <= week,
         \A v \in Weeks : v > week => u.rows[v] = "none",
         \A v \in Weeks : v > u.state.current => ~Counts(u.rows, v),
         /\ \A v \in Weeks : u.rows[v] \notin {"none", "open", "cadence_complete"} =>
              kind[v] # "eligible" \/ (v < week /\ funded[v] < 2)
         /\ \A v \in Weeks : u.rows[v] = "incomplete_reset" => kind[v] = "eligible"
         /\ \A v \in Weeks : u.rows[v] = "out_of_scope" => kind[v] = "out_of_scope",
         Matches(u.state, Tally(kind, u.rows)[MaxWeek])
  PROVE  OrderlyNow(u)
BY DEF OrderlyNow, Orderly

\* A row that did not count, and counts now, counts as the last.
LEMMA CountsLast ==
  ASSUME WeekTypes, NEW st, OrderlyNow(st), NEW w \in 1..week, w >= st.state.current,
         ~Counts(st.rows, w), NEW r \in {"cadence_complete", "incomplete_reset"},
         r = "incomplete_reset" => kind[w] = "eligible" /\ w < week /\ funded[w] < 2,
         NEW t \in Streaks, t.current = w,
         NEW new, new = [st.rows EXCEPT ![w] = r],
         NEW s \in Tallied(w - 1), Matches(st.state, s) =>
           Matches(t, Count(kind, new, s, w)),
         s = Tally(kind, st.rows)[w - 1],
         NEW u, u = [rows |-> new, state |-> t]
  PROVE  OrderlyNow(u)
<1>1. PICK rs \in [Weeks -> Statuses] : rs = st.rows
  BY DEF OrderlyNow, Orderly, Stores
<1>2. w \in Weeks /\ week \in 0..MaxWeek /\ w \in 0..MaxWeek /\ w - 1 \in 0..MaxWeek /\ w - 1 < w
  BY WeeksAre DEF WeekTypes, Weeks
<1>3. new \in [Weeks -> Statuses] /\ new[w] = r /\ \A v \in Weeks : v # w => new[v] = rs[v]
  BY <1>1, <1>2 DEF Statuses, Cadence!Final
<1>4. \A v \in 1..w - 1 : Alike(rs, new, v)
  <2> TAKE v \in 1..w - 1
  <2>1. v \in Weeks /\ v # w
    <3>1. w \in Nat /\ MaxWeek \in Nat /\ w <= MaxWeek
      BY <1>2, WeeksAre
    <3> QED  BY <3>1 DEF Weeks
  <2> QED  BY <1>3, <2>1 DEF Alike
<1>5. Tally(kind, new)[w - 1] = s
  <2>1. \A v \in 0..w - 1 : Tally(kind, rs)[v] = Tally(kind, new)[v]
    BY <1>2, <1>4, TallyAgrees
  <2> QED  BY <1>1, <1>2, <2>1
<1>6. Tally(kind, new)[w] = Count(kind, new, s, w)
  BY <1>2, <1>5, TallyIs
<1>7. Tally(kind, new)[MaxWeek] = Tally(kind, new)[w]
  <2>1. \A v \in Weeks : v > w => ~Counts(new, v)
    <3> TAKE v \in Weeks
    <3> HAVE v > w
    <3>1. v > st.state.current /\ v # w
      BY <1>2 DEF OrderlyNow, Orderly, Stores, Streaks, Weeks
    <3> QED  BY <1>1, <1>3, <3>1 DEF OrderlyNow, Orderly, Counts
  <2> QED  BY <1>2, <2>1, TallyEnds
<1>8. Tally(kind, rs)[MaxWeek] = s
  <2>1. \A v \in Weeks : v > w - 1 => ~Counts(rs, v)
    <3> TAKE v \in Weeks
    <3> HAVE v > w - 1
    <3>1. v = w \/ v > st.state.current
      BY <1>2 DEF OrderlyNow, Orderly, Stores, Streaks, Weeks
    <3> QED  BY <1>1, <3>1 DEF OrderlyNow, Orderly
  <2> QED  BY <1>1, <1>2, <2>1, TallyEnds
<1>9. Matches(t, Tally(kind, new)[MaxWeek])
  BY <1>1, <1>6, <1>7, <1>8 DEF OrderlyNow, Orderly
<1>10. u \in Stores
  BY <1>3 DEF Stores
<1>11. u.rows = new /\ u.state = t
  OBVIOUS
<1>12. \A v \in Weeks : v > week => new[v] = "none"
  BY <1>1, <1>2, <1>3 DEF OrderlyNow, Orderly
<1>13. \A v \in Weeks : v > w => ~Counts(new, v)
  <2> TAKE v \in Weeks
  <2> HAVE v > w
  <2>1. v > st.state.current /\ v # w
    BY <1>2 DEF OrderlyNow, Orderly, Stores, Streaks, Weeks
  <2> QED  BY <1>1, <1>3, <2>1 DEF OrderlyNow, Orderly, Counts
<1>14. \A v \in Weeks : new[v] \notin {"none", "open", "cadence_complete"} =>
         kind[v] # "eligible" \/ (v < week /\ funded[v] < 2)
  BY <1>1, <1>3 DEF OrderlyNow, Orderly
<1>15. \A v \in Weeks : new[v] = "incomplete_reset" => kind[v] = "eligible"
  BY <1>1, <1>3 DEF OrderlyNow, Orderly
<1>16. \A v \in Weeks : new[v] = "out_of_scope" => kind[v] = "out_of_scope"
  BY <1>1, <1>3 DEF OrderlyNow, Orderly
<1>17. t.current <= week
  BY <1>2 DEF WeekTypes
<1>18. Matches(u.state, Tally(kind, u.rows)[MaxWeek])
  BY <1>9, <1>11, Zenon
<1>19. \A v \in Weeks : v > week => u.rows[v] = "none"
  BY <1>11, <1>12, Zenon
<1>20. \A v \in Weeks : v > u.state.current => ~Counts(u.rows, v)
  BY <1>11, <1>13, Zenon
<1>21. /\ \A v \in Weeks : u.rows[v] \notin {"none", "open", "cadence_complete"} =>
             kind[v] # "eligible" \/ (v < week /\ funded[v] < 2)
       /\ \A v \in Weeks : u.rows[v] = "incomplete_reset" => kind[v] = "eligible"
       /\ \A v \in Weeks : u.rows[v] = "out_of_scope" => kind[v] = "out_of_scope"
  BY <1>11, <1>14, <1>15, <1>16, Zenon
<1>22. u.state.current <= week
  BY <1>11, <1>17, Zenon
<1> QED  BY <1>10, <1>18, <1>19, <1>20, <1>21, <1>22, OrderlyIs

LEMMA OrderlyTypes ==
  ASSUME WeekTypes, NEW st, OrderlyNow(st)
  PROVE  /\ st \in Stores /\ st.rows \in [Weeks -> Statuses] /\ st.state \in Streaks
         /\ st.state.streak \in Nat /\ st.state.longest \in Nat
         /\ st.state.current \in 0..MaxWeek /\ st.state.latest \in 0..MaxWeek
         /\ st = [rows |-> st.rows, state |-> st.state]
<1>1. st \in Stores
  BY DEF OrderlyNow, Orderly
<1>2. st.rows \in [Weeks -> Statuses] /\ st.state \in Streaks
  BY <1>1 DEF Stores
<1>3. st = [rows |-> st.rows, state |-> st.state]
  BY <1>1 DEF Stores
<1>4. /\ st.state.streak \in Nat /\ st.state.longest \in Nat
      /\ st.state.current \in 0..MaxWeek /\ st.state.latest \in 0..MaxWeek
  BY <1>2 DEF Streaks
<1> QED  BY <1>1, <1>2, <1>3, <1>4

\* ensureConsistencyWeek
LEMMA EnsuredKeeps ==
  ASSUME WeekTypes, NEW st, OrderlyNow(st), NEW w \in 1..week
  PROVE  /\ OrderlyNow(Cadence!Ensured(st, w))
         /\ Cadence!Ensured(st, w).state = st.state
         /\ \A v \in Weeks : Counts(Cadence!Ensured(st, w).rows, v) <=> Counts(st.rows, v)
<1>1. CASE st.rows[w] = "none"
  <2>1. PICK rs \in [Weeks -> Statuses] : rs = st.rows
    BY OrderlyTypes
  <2>2. PICK s \in Streaks : s = st.state
    BY OrderlyTypes
  <2>3. w \in Weeks /\ week \in Nat
    BY WeeksAre DEF WeekTypes, Weeks
  <2>4. Cadence!Ensured(st, w) = [st EXCEPT !.rows[w] = "open"]
    BY <1>1 DEF Cadence!Ensured
  <2>5. [st EXCEPT !.rows[w] = "open"] = [rows |-> [rs EXCEPT ![w] = "open"], state |-> s]
    <3>1. st = [rows |-> rs, state |-> s]
      BY <2>1, <2>2, OrderlyTypes
    <3> QED  BY <3>1
  <2>6. s = [s EXCEPT !.current = s.current]
    BY DEF Streaks
  <2>7. OrderlyNow([rows |-> [st.rows EXCEPT ![w] = "open"], state |-> [st.state EXCEPT !.current = st.state.current]])
    <3>1. ~Counts(st.rows, w)
      BY <1>1 DEF Counts
    <3>2. "open" \in Statuses
      BY DEF Statuses
    <3>3. s.current >= s.current
      BY DEF Streaks
    <3> QED  BY <2>2, <3>1, <3>2, <3>3, SetAside
  <2>8. OrderlyNow(Cadence!Ensured(st, w))
    BY <2>1, <2>2, <2>4, <2>5, <2>6, <2>7
  <2>9. \A v \in Weeks : Counts([rs EXCEPT ![w] = "open"], v) <=> Counts(rs, v)
    BY <1>1, <2>1, <2>3 DEF Counts
  <2> QED  BY <2>1, <2>2, <2>4, <2>5, <2>8, <2>9
<1>2. CASE st.rows[w] # "none"
  BY <1>2 DEF Cadence!Ensured
<1> QED  BY <1>1, <1>2

\* completeWeek: a week that is complete, and not before the one the state is at.
LEMMA CompletedKeeps ==
  ASSUME WeekTypes, NEW st, OrderlyNow(st), NEW w \in 1..week, w >= st.state.current, funded[w] = 2
  PROVE  OrderlyNow(Cadence!Completed(st, w))
<1> DEFINE done == Cadence!Completed(st, w)
<1>1. w \in Weeks /\ week \in 0..MaxWeek /\ w \in 0..MaxWeek /\ w - 1 \in 0..MaxWeek /\ w - 1 < w
  BY WeeksAre DEF WeekTypes, Weeks
<1>2. CASE st.rows[w] = "cadence_complete"
  BY <1>2 DEF Cadence!Completed, Cadence!IsCounted
<1>3. CASE st.rows[w] # "cadence_complete"
  <2>1. ~Counts(st.rows, w)
    BY <1>1, <1>3 DEF OrderlyNow, Orderly, Counts
  <2>2. CASE kind[w] \in {"partial_start", "out_of_scope"}
    <3>1. Cadence!Completed(st, w) = [rows  |-> [st.rows EXCEPT ![w] = "neutral_partial"],
                                      state |-> [st.state EXCEPT !.current = w]]
      BY <1>3, <2>2 DEF Cadence!Completed, Cadence!IsCounted
    <3>2. "neutral_partial" \in Statuses
      BY DEF Statuses, Cadence!Final
    <3>3. kind[w] # "eligible"
      BY <2>2
    <3>4. OrderlyNow([rows |-> [st.rows EXCEPT ![w] = "neutral_partial"], state |-> [st.state EXCEPT !.current = w]])
      BY <2>1, <3>2, <3>3, SetAside
    <3> QED  BY <3>1, <3>4
  <2>3. CASE kind[w] \notin {"partial_start", "out_of_scope"}
    <3>1. PICK s \in Tallied(w - 1) : s = Tally(kind, st.rows)[w - 1]
      BY <1>1, TallyTypes
    <3>2. s.streak \in 0..w - 1 /\ s.longest \in 0..w - 1 /\ s.latest \in 0..w - 1
      BY <3>1 DEF Tallied
    <3>3. PICK t : t = Cadence!Extended(st.state, w)
      OBVIOUS
    <3>4. PICK new : new = [st.rows EXCEPT ![w] = "cadence_complete"]
      OBVIOUS
    <3>5. PICK u : u = [rows |-> new, state |-> t]
      OBVIOUS
    <3>6. Cadence!Completed(st, w) = u
      BY <1>3, <2>3, <3>3, <3>4, <3>5 DEF Cadence!Completed, Cadence!IsCounted
    <3>13. st.state.streak \in Nat /\ st.state.streak + 1 \in Nat
      BY OrderlyTypes
    <3>7. PICK n \in Nat : n = IF Cadence!HasGap(st.state.latest, w) THEN 1 ELSE st.state.streak + 1
      BY <3>13
    <3>8. PICK m \in Nat : m = Cadence!MaxOf(st.state.longest, n)
      BY OrderlyTypes DEF Cadence!MaxOf
    <3>9. t = [streak |-> n, longest |-> m, current |-> w, latest |-> w]
      BY <3>3, <3>7, <3>8 DEF Cadence!Extended
    <3>10. t \in Streaks /\ t.current = w
      BY <1>1, <3>9 DEF Streaks
    <3>11. new[w] = "cadence_complete"
      BY <1>1, <3>4, OrderlyTypes
    <3>12. ASSUME Matches(st.state, s) PROVE Matches(t, Count(kind, new, s, w))
      <4>1. st.state.streak = s.streak /\ st.state.longest = s.longest /\ st.state.latest = s.latest
        BY <3>12 DEF Matches
      <4>2. n = IF Restarts(kind, s, w) THEN 1 ELSE s.streak + 1
        BY <3>7, <4>1 DEF Cadence!HasGap, Restarts
      <4>3. Count(kind, new, s, w) = [s EXCEPT !.streak = n, !.longest = m, !.latest = w]
        BY <3>8, <3>11, <4>1, <4>2 DEF Count
      <4>4. PICK c : c = [s EXCEPT !.streak = n, !.longest = m, !.latest = w]
        OBVIOUS
      <4>5. c.streak = n /\ c.longest = m /\ c.latest = w
        BY <3>1, <4>4 DEF Tallied
      <4>6. t.streak = n /\ t.longest = m /\ t.latest = w
        BY <3>9
      <4> QED  BY <4>3, <4>4, <4>5, <4>6 DEF Matches
    <3> QED  BY <2>1, <3>1, <3>4, <3>5, <3>6, <3>10, <3>12, CountsLast
  <2> QED  BY <2>2, <2>3
<1> QED  BY <1>2, <1>3

\* finalizeOne: a week that has ended, and not before the one the state is at.
LEMMA FinalizedKeeps ==
  ASSUME WeekTypes, NEW st, OrderlyNow(st), NEW w \in 1..week, w >= st.state.current, w < week,
         NEW evidence \in BOOLEAN
  PROVE  /\ OrderlyNow(Cadence!Finalized(st, w, evidence))
         /\ Cadence!Finalized(st, w, evidence).state.current \in {st.state.current, w}
<1> DEFINE end == Cadence!Ending(w, evidence)
<1>1. w \in Weeks /\ week \in 0..MaxWeek /\ w \in 0..MaxWeek /\ w - 1 \in 0..MaxWeek /\ w - 1 < w
  BY WeeksAre DEF WeekTypes, Weeks
<1>2. CASE Cadence!IsClosed(st, w)
  BY <1>2 DEF Cadence!Finalized
<1>3. CASE ~Cadence!IsClosed(st, w) /\ funded[w] = 2
  <2>1. PICK e : e = Cadence!Ensured(st, w)
    OBVIOUS
  <2>2. OrderlyNow(e) /\ e.state = st.state
    BY <2>1, EnsuredKeeps
  <2>3. OrderlyNow(Cadence!Completed(e, w))
    BY <1>3, <2>2, CompletedKeeps
  <2>4. Cadence!Finalized(st, w, evidence) = Cadence!Completed(e, w)
    BY <1>3, <2>1 DEF Cadence!Finalized
  <2>5. Cadence!Completed(e, w).state.current \in {e.state.current, w}
    BY <2>2, OrderlyTypes DEF Cadence!Completed, Cadence!Extended, Streaks
  <2> QED  BY <2>2, <2>3, <2>4, <2>5
<1>4. CASE ~Cadence!IsClosed(st, w) /\ funded[w] # 2
  <2>1. ~Counts(st.rows, w)
    BY <1>4 DEF Cadence!IsClosed, Counts
  <2>2. funded[w] < 2
    BY <1>1, <1>4 DEF WeekTypes
  <2>3. CASE end = "incomplete_reset"
    <3>1. kind[w] = "eligible"
      BY <1>1, <2>3 DEF Cadence!Ending, WeekTypes, Cadence!Kinds
    <3>2. PICK s \in Tallied(w - 1) : s = Tally(kind, st.rows)[w - 1]
      BY <1>1, TallyTypes
    <3>3. PICK new : new = [st.rows EXCEPT ![w] = "incomplete_reset"]
      OBVIOUS
    <3>4. PICK z \in Nat : z = 0
      OBVIOUS
    <3>5. PICK t : t = [st.state EXCEPT !.streak = z, !.current = w]
      OBVIOUS
    <3>6. t \in Streaks /\ t.current = w /\ t.streak = 0
          /\ t.longest = st.state.longest /\ t.latest = st.state.latest
      <4>1. st.state \in Streaks
        BY OrderlyTypes
      <4>2. t \in Streaks
        BY <1>1, <3>5, <4>1 DEF Streaks
      <4>3. t.current = w /\ t.streak = 0 /\ t.longest = st.state.longest /\ t.latest = st.state.latest
        BY <3>4, <3>5, <4>1 DEF Streaks
      <4> QED  BY <4>2, <4>3
    <3>7. PICK u : u = [rows |-> new, state |-> t]
      OBVIOUS
    <3>8. st.state.current <= w
      BY <1>1, OrderlyTypes
    <3>9. Cadence!Finalized(st, w, evidence) = u
      BY <1>4, <2>3, <3>3, <3>4, <3>5, <3>7, <3>8 DEF Cadence!Finalized
    <3>10. new[w] = "incomplete_reset"
      BY <1>1, <3>3, OrderlyTypes
    <3>11. ASSUME Matches(st.state, s) PROVE Matches(t, Count(kind, new, s, w))
      <4>1. PICK c : c = [s EXCEPT !.streak = 0]
        OBVIOUS
      <4>2. c.streak = 0 /\ c.longest = s.longest /\ c.latest = s.latest
        BY <3>2, <4>1 DEF Tallied
      <4>3. Count(kind, new, s, w) = c
        BY <3>10, <4>1 DEF Count
      <4> QED  BY <3>6, <3>11, <4>2, <4>3 DEF Matches
    <3>12. OrderlyNow(u)
      BY <2>1, <2>2, <3>1, <3>2, <3>3, <3>6, <3>7, <3>11, CountsLast
    <3> QED  BY <3>6, <3>7, <3>9, <3>12
  <2>4. CASE end # "incomplete_reset"
    <3>1. Cadence!Finalized(st, w, evidence) = [rows |-> [st.rows EXCEPT ![w] = end], state |-> st.state]
      BY <1>4, <2>4 DEF Cadence!Finalized
    <3>2. end \in Statuses
      BY DEF Cadence!Ending, Statuses, Cadence!Final
    <3>3. end # "cadence_complete" /\ (end = "out_of_scope" => kind[w] = "out_of_scope")
      BY DEF Cadence!Ending
    <3>4. st.state.current >= st.state.current
      BY OrderlyTypes
    <3> HIDE DEF end
    <3>5. OrderlyNow([rows |-> [st.rows EXCEPT ![w] = end], state |-> [st.state EXCEPT !.current = st.state.current]])
      BY <2>1, <2>2, <2>4, <3>2, <3>3, <3>4, SetAside
    <3>6. st.state = [st.state EXCEPT !.current = st.state.current]
      BY OrderlyTypes DEF Streaks
    <3> QED  BY <3>1, <3>5, <3>6
  <2> QED  BY <2>3, <2>4
<1> QED  BY <1>2, <1>3, <1>4

\* applyStandardSessionConsistency: a week that has begun, and not before the one the state is at.
LEMMA AppliedKeeps ==
  ASSUME WeekTypes, NEW st, OrderlyNow(st), NEW w \in 1..week, w >= st.state.current,
         NEW evidence \in BOOLEAN
  PROVE  OrderlyNow(Cadence!Applied(st, w, evidence))
<1>1. PICK before : before = IF st.state.current \in 1..w - 1
                               THEN Cadence!Finalized(st, st.state.current, evidence) ELSE st
  OBVIOUS
<1>2. w \in Weeks /\ week \in 0..MaxWeek /\ w \in 0..MaxWeek /\ st.state.current \in 0..MaxWeek
  BY WeeksAre, OrderlyTypes DEF WeekTypes, Weeks
<1>3. OrderlyNow(before) /\ before.state.current = st.state.current
  <2>1. CASE st.state.current \in 1..w - 1
    <3>1. PICK c \in 1..week : c = st.state.current
      BY <1>2, <2>1
    <3>2. c < week /\ c >= st.state.current
      BY <1>2, <2>1, <3>1
    <3>3. before = Cadence!Finalized(st, c, evidence)
      BY <1>1, <2>1, <3>1
    <3> QED  BY <3>1, <3>2, <3>3, FinalizedKeeps
  <2>2. CASE st.state.current \notin 1..w - 1
    BY <1>1, <2>2
  <2> QED  BY <2>1, <2>2
<1>4. PICK e : e = Cadence!Ensured(before, w)
  OBVIOUS
<1>5. /\ OrderlyNow(e) /\ e.state = before.state
  BY <1>3, <1>4, EnsuredKeeps
<1>6. CASE funded[w] = 2
  <2>1. Cadence!Applied(st, w, evidence) = Cadence!Completed(e, w)
    BY <1>1, <1>4, <1>6 DEF Cadence!Applied
  <2> QED  BY <1>3, <1>5, <1>6, <2>1, CompletedKeeps
<1>7. CASE funded[w] # 2
  <2>1. Cadence!Applied(st, w, evidence) = [e EXCEPT !.state.current = w]
    BY <1>1, <1>4, <1>7 DEF Cadence!Applied
  <2>2. PICK s \in Streaks : s = e.state
    BY <1>5, OrderlyTypes
  <2>3. PICK rs \in [Weeks -> Statuses] : rs = e.rows
    BY <1>5, OrderlyTypes
  <2>4. PICK t : t = [s EXCEPT !.current = w]
    OBVIOUS
  <2>5. t \in Streaks /\ t.current = w /\ t.streak = s.streak /\ t.longest = s.longest /\ t.latest = s.latest
    <3>1. t \in Streaks
      BY <1>2, <2>4 DEF Streaks
    <3>2. t.current = w /\ t.streak = s.streak /\ t.longest = s.longest /\ t.latest = s.latest
      BY <2>4 DEF Streaks
    <3> QED  BY <3>1, <3>2
  <2>6. PICK u \in Stores : u = [rows |-> rs, state |-> t]
    BY <2>5 DEF Stores
  <2>7. u.rows = rs /\ u.state = t
    BY <2>6
  <2>8. [e EXCEPT !.state.current = w] = u
    <3>1. e = [rows |-> rs, state |-> s]
      BY <1>5, <2>2, <2>3, OrderlyTypes
    <3> QED  BY <2>4, <2>6, <3>1
  <2>9. s.current = st.state.current /\ s.current \in Nat
    BY <1>2, <1>3, <1>5, <2>2
  <2>10. u.state.current <= week /\ (\A v \in Weeks : v > u.state.current => v > s.current)
    BY <1>2, <2>5, <2>7, <2>9 DEF Weeks
  <2>11. \A v \in Weeks : v > week => u.rows[v] = "none"
    BY <1>5, <2>3, <2>7 DEF OrderlyNow, Orderly
  <2>12. \A v \in Weeks : v > u.state.current => ~Counts(u.rows, v)
    BY <1>5, <2>2, <2>3, <2>7, <2>10 DEF OrderlyNow, Orderly
  <2>13. /\ \A v \in Weeks : u.rows[v] \notin {"none", "open", "cadence_complete"} =>
              kind[v] # "eligible" \/ (v < week /\ funded[v] < 2)
         /\ \A v \in Weeks : u.rows[v] = "incomplete_reset" => kind[v] = "eligible"
         /\ \A v \in Weeks : u.rows[v] = "out_of_scope" => kind[v] = "out_of_scope"
    BY <1>5, <2>3, <2>7 DEF OrderlyNow, Orderly
  <2>14. Matches(u.state, Tally(kind, u.rows)[MaxWeek])
    BY <1>5, <2>2, <2>3, <2>5, <2>7 DEF OrderlyNow, Orderly, Matches
  <2>15. OrderlyNow(u)
    BY <2>10, <2>11, <2>12, <2>13, <2>14, OrderlyIs
  <2> QED  BY <2>1, <2>8, <2>15
<1> QED  BY <1>6, <1>7

\* reconcilePairWeeks: what it makes of a week, and of the weeks up to one.
SweepsWeek(evidence, s, w) ==
  CASE s.rows[w] = "none" /\ funded[w] = 0 -> s
    [] funded[w] = 2 -> Cadence!Completed(Cadence!Ensured(s, w), w)
    [] OTHER -> IF w < week THEN Cadence!Finalized(s, w, evidence) ELSE Cadence!Ensured(s, w)
IsSwept(st, evidence, f) ==
  f = [w \in 0..MaxWeek |-> IF w = 0 THEN st ELSE SweepsWeek(evidence, f[w - 1], w)]
Swept(st, evidence) == CHOOSE f : IsSwept(st, evidence, f)

LEMMA ReconciledIs ==
  ASSUME NEW st, NEW evidence
  PROVE  Cadence!Reconciled(st, evidence) = Swept(st, evidence)[MaxWeek]
BY DEF Cadence!Reconciled, Swept, IsSwept, SweepsWeek

LEMMA ReconciledKeeps ==
  ASSUME WeekTypes, NEW st, OrderlyNow(st), NEW evidence \in BOOLEAN,
         \A w \in 1..week : kind[w] = "eligible",
         \A w \in 1..week - 1 : Cadence!IsClosed(st, w)
  PROVE  OrderlyNow(Cadence!Reconciled(st, evidence))
<1>1. week \in 1..week /\ week \in Weeks /\ week \in Nat /\ st.state.current \in Nat /\ st.state.current <= week
  BY OrderlyTypes, WeeksAre DEF WeekTypes, Weeks, OrderlyNow, Orderly
<1>2. PICK e : e = Cadence!Ensured(st, week)
  OBVIOUS
<1>3. PICK now : now = SweepsWeek(evidence, st, week)
  OBVIOUS
<1>4. now \in {st, e, Cadence!Completed(e, week)} /\ (funded[week] # 2 => now \in {st, e})
  BY <1>1, <1>2, <1>3 DEF SweepsWeek
<1>5. OrderlyNow(e) /\ e.state.current = st.state.current
  BY <1>1, <1>2, EnsuredKeeps
<1>6. OrderlyNow(now)
  <2>1. CASE funded[week] = 2
    <3>1. OrderlyNow(Cadence!Completed(e, week))
      BY <1>1, <1>5, <2>1, CompletedKeeps
    <3> QED  BY <1>4, <1>5, <3>1
  <2>2. CASE funded[week] # 2
    BY <1>4, <1>5, <2>2
  <2> QED  BY <2>1, <2>2
<1>7. ASSUME NEW w \in 1..week - 1 PROVE SweepsWeek(evidence, st, w) = st
  <2>1. w \in Weeks /\ w \in 1..week /\ w < week /\ Cadence!IsClosed(st, w) /\ kind[w] = "eligible"
    BY <1>1, <1>7, WeeksAre DEF Weeks
  <2>2. st.rows[w] # "none"
    BY <2>1 DEF Cadence!IsClosed
  <2>3. CASE funded[w] = 2
    <3>1. st.rows[w] = "cadence_complete"
      BY <2>1, <2>3 DEF OrderlyNow, Orderly, Cadence!IsClosed
    <3>2. Cadence!Ensured(st, w) = st
      BY <2>2 DEF Cadence!Ensured
    <3>3. Cadence!Completed(st, w) = st
      BY <3>1 DEF Cadence!Completed, Cadence!IsCounted
    <3> QED  BY <2>2, <2>3, <3>2, <3>3 DEF SweepsWeek
  <2>4. CASE funded[w] # 2
    <3>1. Cadence!Finalized(st, w, evidence) = st
      BY <2>1 DEF Cadence!Finalized
    <3> QED  BY <2>1, <2>2, <2>4, <3>1 DEF SweepsWeek
  <2> QED  BY <2>3, <2>4
<1>8. ASSUME NEW w \in Weeks, w > week PROVE SweepsWeek(evidence, now, w) = now
  <2>1. now.rows[w] = "none"
    BY <1>6, <1>8 DEF OrderlyNow, Orderly
  <2>2. funded[w] = 0
    BY <1>8 DEF WeekTypes
  <2> QED  BY <2>1, <2>2 DEF SweepsWeek
<1>9. PICK g : g = [w \in 0..MaxWeek |-> IF w < week THEN st ELSE now]
  OBVIOUS
<1>10. ASSUME NEW w \in Weeks PROVE g[w] = SweepsWeek(evidence, g[w - 1], w)
  <2>1. w \in 0..MaxWeek /\ w - 1 \in 0..MaxWeek /\ w - 1 < w /\ w \in Nat
    BY <1>10, WeeksAre DEF Weeks
  <2>2. CASE w < week
    <3>1. g[w - 1] = st /\ g[w] = st /\ w \in 1..week - 1
      BY <1>1, <1>9, <1>10, <2>1, <2>2 DEF Weeks
    <3> QED  BY <1>7, <3>1
  <2>3. CASE w = week
    <3>1. g[w - 1] = st /\ g[w] = now
      BY <1>1, <1>9, <2>1, <2>3
    <3> QED  BY <1>3, <2>3, <3>1
  <2>4. CASE w > week
    <3>1. g[w - 1] = now /\ g[w] = now
      BY <1>1, <1>9, <2>1, <2>4
    <3> QED  BY <1>8, <2>4, <3>1
  <2> QED  BY <1>1, <2>1, <2>2, <2>3, <2>4
<1>11. g[0] = st
  BY <1>1, <1>9, WeeksAre DEF Weeks
<1>12. IsSwept(st, evidence, g)
  <2>1. g = [w \in 0..MaxWeek |-> g[w]]
    BY <1>9
  <2>2. \A w \in 0..MaxWeek : g[w] = IF w = 0 THEN st ELSE SweepsWeek(evidence, g[w - 1], w)
    BY <1>10, <1>11, WeeksAre
  <2> QED  BY <2>1, <2>2 DEF IsSwept
<1>13. PICK f : f = Swept(st, evidence) /\ IsSwept(st, evidence, f)
  BY <1>12 DEF Swept
<1>14. \A w \in 0..MaxWeek : f[w] = IF w = 0 THEN st ELSE SweepsWeek(evidence, f[w - 1], w)
  BY <1>13 DEF IsSwept
<1> DEFINE S == {w \in 0..MaxWeek : f[w] = g[w]}
<1>15. 0 \in S
  BY <1>11, <1>14, WeeksAre
<1>16. ASSUME NEW i \in 0..MaxWeek, i # MaxWeek, i \in S PROVE i + 1 \in S
  <2>1. i + 1 \in Weeks /\ i + 1 \in 0..MaxWeek /\ i + 1 # 0 /\ i + 1 - 1 = i
    BY <1>16, WeeksAre DEF Weeks
  <2>2. f[i + 1] = SweepsWeek(evidence, f[i + 1 - 1], i + 1) /\ g[i + 1] = SweepsWeek(evidence, g[i + 1 - 1], i + 1)
    BY <1>10, <1>14, <2>1
  <2>3. f[i + 1 - 1] = g[i + 1 - 1]
    BY <1>16, <2>1
  <2> QED  BY <2>1, <2>2, <2>3
<1> HIDE DEF S
<1>17. 0..MaxWeek \subseteq S
  BY <1>15, <1>16, UpTo, WeeksAre
<1>18. f[MaxWeek] = g[MaxWeek]
  BY <1>17, WeeksAre DEF S
<1>19. g[MaxWeek] = now
  BY <1>1, <1>9, WeeksAre DEF Weeks
<1> QED  BY <1>6, <1>13, <1>18, <1>19, ReconciledIs

\* rebuildState: what it makes of a row, and of the rows up to one.
Rebuild(rs, s, w) ==
  LET n == IF s.gap THEN 1 ELSE s.streak + 1
  IN  CASE rs[w] = "cadence_complete" ->
             [streak |-> n, longest |-> Cadence!MaxOf(s.longest, n), latest |-> w, gap |-> FALSE]
        [] rs[w] = "incomplete_reset" -> [s EXCEPT !.streak = 0, !.gap = FALSE]
        [] rs[w] = "out_of_scope" -> [s EXCEPT !.gap = TRUE]
        [] OTHER -> s
IsRegained(rs, f) ==
  f = [w \in 0..MaxWeek |-> IF w = 0 THEN Cadence!NoStreak ELSE Rebuild(rs, f[w - 1], w)]
Regained(rs) == CHOOSE f : IsRegained(rs, f)

LEMMA RebuiltIs ==
  ASSUME NEW st
  PROVE  Cadence!Rebuilt(st) =
           LET s == Regained(st.rows)[MaxWeek]
           IN  [rows |-> st.rows,
                state |-> [streak |-> s.streak, longest |-> s.longest, current |-> week, latest |-> s.latest]]
BY DEF Cadence!Rebuilt, Regained, IsRegained, Rebuild

LEMMA RebuiltKeeps ==
  ASSUME WeekTypes, NEW st, OrderlyNow(st), \A w \in 1..week : kind[w] = "eligible"
  PROVE  OrderlyNow(Cadence!Rebuilt(st))
<1>1. week \in 1..week /\ week \in Weeks /\ week \in 0..MaxWeek /\ st.state.current \in Nat /\ st.state.current <= week
  BY OrderlyTypes, WeeksAre DEF WeekTypes, Weeks, OrderlyNow, Orderly
<1>2. PICK rs \in [Weeks -> Statuses] : rs = st.rows
  BY OrderlyTypes
<1>3. PICK g : g = [w \in 0..MaxWeek |-> Tally(kind, rs)[w]]
  OBVIOUS
<1>4. ASSUME NEW w \in Weeks PROVE g[w] = Rebuild(rs, g[w - 1], w)
  <2>1. w \in 0..MaxWeek /\ w - 1 \in 0..MaxWeek /\ w \in Nat
    BY <1>4, WeeksAre DEF Weeks
  <2>2. PICK t \in Tallied(w - 1) : t = Tally(kind, rs)[w - 1]
    BY <2>1, TallyTypes
  <2>3. g[w - 1] = t /\ g[w] = Count(kind, rs, t, w)
    BY <1>3, <2>1, <2>2, TallyIs
  <2>4. CASE w > week
    <3>1. rs[w] = "none"
      BY <1>2, <2>4 DEF OrderlyNow, Orderly
    <3> QED  BY <2>3, <3>1 DEF Count, Rebuild
  <2>5. CASE w <= week
    <3>1. t.latest \in Nat /\ t.gap = FALSE
      <4>1. t.latest \in 0..w - 1 /\ t.gap \in {FALSE}
        BY <2>2 DEF Tallied
      <4>2. t.latest \in Nat
        BY <2>1, <4>1
      <4>3. t.gap = FALSE
        BY <4>1, Zenon
      <4> QED  BY <4>2, <4>3, Zenon
    <3>2. ~Restarts(kind, t, w)
      <4>1. \A v \in t.latest + 1..w - 1 : v \in 1..week
        BY <1>1, <2>1, <2>5, <3>1
      <4> QED  BY <4>1 DEF Restarts
    <3>3. w \in 1..week
      BY <1>1, <1>4, <2>5 DEF Weeks
    <3>4. rs[w] # "out_of_scope"
      BY <1>2, <3>3 DEF OrderlyNow, Orderly
    <3>5. PICK n : n = t.streak + 1
      OBVIOUS
    <3>6. PICK m : m = Cadence!MaxOf(t.longest, n)
      OBVIOUS
    <3>7. CASE rs[w] = "cadence_complete"
      <4>1. Count(kind, rs, t, w) = [t EXCEPT !.streak = n, !.longest = m, !.latest = w]
        BY <3>2, <3>5, <3>6, <3>7 DEF Count
      <4>2. Rebuild(rs, t, w) = [streak |-> n, longest |-> m, latest |-> w, gap |-> FALSE]
        BY <3>1, <3>5, <3>6, <3>7 DEF Rebuild
      <4>3. PICK b : b = t.gap
        OBVIOUS
      <4>5. b = FALSE
        BY <3>1, <4>3, Zenon
      <4>4. [t EXCEPT !.streak = n, !.longest = m, !.latest = w] =
              [streak |-> n, longest |-> m, latest |-> w, gap |-> b]
        <5>1. t \in [streak : 0..w - 1, longest : 0..w - 1, latest : 0..w - 1, gap : {b}]
          BY <2>2, <4>5, Zenon DEF Tallied
        <5>2. PICK x : x = [t EXCEPT !.streak = n, !.longest = m, !.latest = w]
          OBVIOUS
        <5>3. x.streak = n /\ x.longest = m /\ x.latest = w /\ x.gap = b
          BY <4>3, <5>1, <5>2
        <5>4. x \in [streak : {n} \cup 0..w - 1, longest : {m} \cup 0..w - 1, latest : {w} \cup 0..w - 1, gap : {b}]
          BY <5>1, <5>2
        <5>5. x = [streak |-> x.streak, longest |-> x.longest, latest |-> x.latest, gap |-> x.gap]
          BY <5>4
        <5> QED  BY <5>2, <5>3, <5>5
      <4> QED  BY <2>3, <4>1, <4>2, <4>4, <4>5, Zenon
    <3>8. CASE rs[w] = "incomplete_reset"
      <4>1. Count(kind, rs, t, w) = [t EXCEPT !.streak = 0]
        BY <3>8 DEF Count
      <4>2. Rebuild(rs, t, w) = [t EXCEPT !.streak = 0, !.gap = FALSE]
        BY <3>8 DEF Rebuild
      <4>3. [t EXCEPT !.streak = 0] = [t EXCEPT !.streak = 0, !.gap = FALSE]
        BY <2>2, <3>1 DEF Tallied
      <4> QED  BY <2>3, <4>1, <4>2, <4>3
    <3>9. CASE ~Counts(rs, w)
      <4>1. Count(kind, rs, t, w) = t
        BY <3>9 DEF Count, Counts
      <4>2. Rebuild(rs, t, w) = t
        BY <3>4, <3>9 DEF Rebuild, Counts
      <4> QED  BY <2>3, <4>1, <4>2
    <3> QED  BY <3>7, <3>8, <3>9 DEF Counts
  <2> QED  BY <1>1, <2>1, <2>4, <2>5
<1>5. g[0] = Cadence!NoStreak
  BY <1>3, TallyIs, WeeksAre
<1>6. IsRegained(rs, g)
  <2>1. g = [w \in 0..MaxWeek |-> g[w]]
    BY <1>3
  <2>2. \A w \in 0..MaxWeek : g[w] = IF w = 0 THEN Cadence!NoStreak ELSE Rebuild(rs, g[w - 1], w)
    BY <1>4, <1>5, WeeksAre
  <2> QED  BY <2>1, <2>2 DEF IsRegained
<1>7. PICK f : f = Regained(rs) /\ IsRegained(rs, f)
  BY <1>6 DEF Regained
<1>8. \A w \in 0..MaxWeek : f[w] = IF w = 0 THEN Cadence!NoStreak ELSE Rebuild(rs, f[w - 1], w)
  BY <1>7 DEF IsRegained
<1> DEFINE S == {w \in 0..MaxWeek : f[w] = g[w]}
<1>9. 0 \in S
  BY <1>5, <1>8, WeeksAre
<1>10. ASSUME NEW i \in 0..MaxWeek, i # MaxWeek, i \in S PROVE i + 1 \in S
  <2>1. i + 1 \in Weeks /\ i + 1 \in 0..MaxWeek /\ i + 1 # 0 /\ i + 1 - 1 = i
    BY <1>10, WeeksAre DEF Weeks
  <2>2. f[i + 1] = Rebuild(rs, f[i + 1 - 1], i + 1) /\ g[i + 1] = Rebuild(rs, g[i + 1 - 1], i + 1)
    BY <1>4, <1>8, <2>1
  <2>3. f[i + 1 - 1] = g[i + 1 - 1]
    BY <1>10, <2>1
  <2> QED  BY <2>1, <2>2, <2>3
<1> HIDE DEF S
<1>11. 0..MaxWeek \subseteq S
  BY <1>9, <1>10, UpTo, WeeksAre
<1>12. PICK t \in Tallied(MaxWeek) : t = Tally(kind, rs)[MaxWeek]
  BY TallyTypes, WeeksAre
<1>13. f[MaxWeek] = t
  BY <1>3, <1>11, <1>12, WeeksAre DEF S
<1>14. t.streak \in 0..MaxWeek /\ t.longest \in 0..MaxWeek /\ t.latest \in 0..MaxWeek
  BY <1>12 DEF Tallied
<1>15. PICK s : s = [streak |-> t.streak, longest |-> t.longest, current |-> week, latest |-> t.latest]
  OBVIOUS
<1>16. s \in Streaks
  BY <1>1, <1>14, <1>15 DEF Streaks
<1>17. PICK u \in Stores : u = [rows |-> rs, state |-> s]
  BY <1>16 DEF Stores
<1>18. u.rows = rs /\ u.state = s /\ s.current = week
  BY <1>15, <1>17
<1>19. Cadence!Rebuilt(st) = u
  BY <1>2, <1>7, <1>13, <1>15, <1>17, RebuiltIs
<1>20. \A w \in Weeks : w > week => u.rows[w] = "none"
  BY <1>2, <1>18 DEF OrderlyNow, Orderly
<1>21. \A w \in Weeks : w > u.state.current => ~Counts(u.rows, w)
  BY <1>18, <1>20 DEF Counts
<1>22. /\ \A v \in Weeks : u.rows[v] \notin {"none", "open", "cadence_complete"} =>
             kind[v] # "eligible" \/ (v < week /\ funded[v] < 2)
       /\ \A v \in Weeks : u.rows[v] = "incomplete_reset" => kind[v] = "eligible"
       /\ \A v \in Weeks : u.rows[v] = "out_of_scope" => kind[v] = "out_of_scope"
  BY <1>2, <1>18 DEF OrderlyNow, Orderly
<1>23. Matches(u.state, Tally(kind, u.rows)[MaxWeek])
  BY <1>12, <1>15, <1>18 DEF Matches
<1>24. u.state.current <= week
  BY <1>1, <1>18
<1> QED  BY <1>19, <1>20, <1>21, <1>22, <1>23, <1>24, OrderlyIs

WeeksInv ==
  /\ WeekTypes
  /\ receipt \in [Cadence!Sessions -> 0..2] /\ applied \subseteq Cadence!Sessions
  /\ ordered \in BOOLEAN /\ rebuilt \in BOOLEAN
  /\ ordered /\ ~rebuilt => OrderlyNow(Cadence!Store)

LEMMA WeeksInit == Cadence!Init => WeeksInv
<1> SUFFICES ASSUME Cadence!Init PROVE WeeksInv
  OBVIOUS
<1> USE DEF Cadence!Init
<1>1. 1 \in Weeks /\ 1 \in Nat /\ MaxWeek \in 0..MaxWeek /\ 0 \in 0..MaxWeek
  BY WeeksAre DEF Weeks
<1>2. WeekTypes
  <2>1. week \in Weeks /\ kind \in [Weeks -> Cadence!Kinds]
    BY <1>1 DEF Weeks, Cadence!Weeks
  <2>2. funded \in [Weeks -> 0..2] /\ \A w \in Weeks : funded[w] = 0
    BY DEF Weeks, Cadence!Weeks
  <2> QED  BY <2>1, <2>2 DEF WeekTypes
<1>3. receipt \in [Cadence!Sessions -> 0..2] /\ applied \subseteq Cadence!Sessions
  OBVIOUS
<1>4. ordered \in BOOLEAN /\ rebuilt \in BOOLEAN
  BY Zenon
<1>5. PICK u : u = Cadence!Store
  OBVIOUS
<1>6. \A w \in Weeks : rows[w] = "none"
  BY DEF Weeks, Cadence!Weeks
<1>7. rows \in [Weeks -> Statuses]
  BY DEF Weeks, Cadence!Weeks, Statuses
<1>8. state \in Streaks /\ state.streak = 0 /\ state.longest = 0 /\ state.latest = 0 /\ state.current = 0
  <2>1. state \in Streaks
    BY <1>1 DEF Streaks
  <2> QED  BY <2>1
<1>9. u \in Stores /\ u.rows = rows /\ u.state = state
  BY <1>5, <1>7, <1>8 DEF Stores, Cadence!Store
<1>10. \A w \in Weeks : ~Counts(u.rows, w)
  BY <1>6, <1>9 DEF Counts
<1>11. Tally(kind, u.rows)[MaxWeek] = Tally(kind, u.rows)[0]
  BY <1>1, <1>10, TallyEnds
<1>12. Tally(kind, u.rows)[0] = [streak |-> 0, longest |-> 0, latest |-> 0, gap |-> FALSE]
  BY TallyIs DEF Cadence!NoStreak
<1>13. Matches(u.state, Tally(kind, u.rows)[MaxWeek])
  BY <1>8, <1>9, <1>11, <1>12 DEF Matches
<1>14. u.state.current <= week
  BY <1>8, <1>9
<1>15. OrderlyNow(u)
  BY <1>6, <1>9, <1>10, <1>13, <1>14, OrderlyIs
<1> QED  BY <1>2, <1>3, <1>4, <1>5, <1>15 DEF WeeksInv

\* A step that leaves the weeks and what is funded alone, and keeps the store orderly.
LEMMA StoreStep ==
  ASSUME WeeksInv, UNCHANGED <<week, kind, funded>>, NEW st, Cadence!Becomes(st), OrderlyNow(st)
  PROVE  WeekTypes' /\ OrderlyNow(Cadence!Store)'
<1>1. WeekTypes'
  BY DEF WeeksInv, WeekTypes
<1>2. st = [rows |-> st.rows, state |-> st.state]
  BY OrderlyTypes DEF WeeksInv
<1>3. Cadence!Store' = st
  BY <1>2 DEF Cadence!Store, Cadence!Becomes
<1>4. OrderlyNow(Cadence!Store)' <=> Orderly(week', kind', funded', Cadence!Store')
  BY DEF OrderlyNow
<1>5. Orderly(week, kind, funded, st)
  BY DEF OrderlyNow
<1> QED  BY <1>1, <1>3, <1>4, <1>5

\* A week begins, or a session of the present one is funded.
LEMMA LaterKeeps ==
  ASSUME WeeksInv, NEW st, OrderlyNow(st), NEW wk \in Weeks, wk >= week,
         NEW fs \in [Weeks -> 0..2], \A w \in Weeks : w < week => fs[w] = funded[w]
  PROVE  Orderly(wk, kind, fs, st)
<1>1. week \in Nat /\ wk \in Nat /\ st.state.current \in Nat
  BY OrderlyTypes DEF WeeksInv, WeekTypes, Weeks
<1>2. \A w \in Weeks : w \in Nat
  BY DEF Weeks
<1>3. st.state.current <= wk /\ st \in Stores
  BY <1>1 DEF OrderlyNow, Orderly
<1>4. \A w \in Weeks : w > wk => st.rows[w] = "none"
  BY <1>1, <1>2 DEF OrderlyNow, Orderly
<1>5. \A w \in Weeks : st.rows[w] \notin {"none", "open", "cadence_complete"} =>
         kind[w] # "eligible" \/ (w < wk /\ fs[w] < 2)
  BY <1>1, <1>2 DEF OrderlyNow, Orderly
<1> QED  BY <1>3, <1>4, <1>5 DEF OrderlyNow, Orderly

LEMMA WeeksNext == WeeksInv /\ [Cadence!Next]_(Cadence!vars) => WeeksInv'
<1> SUFFICES ASSUME WeeksInv, [Cadence!Next]_(Cadence!vars) PROVE WeeksInv'
  OBVIOUS
<1> DEFINE Goal == OrderlyNow(Cadence!Store)'
<1>1. CASE Cadence!NextWeek
  <2> USE DEF Cadence!NextWeek
  <2>1. week' \in Weeks /\ week' >= week /\ week \in Nat /\ week' \in Nat
    BY <1>1, WeeksAre DEF WeeksInv, WeekTypes, Weeks
  <2>2. kind' = kind /\ funded' = funded /\ Cadence!Store' = Cadence!Store
        /\ ordered' = ordered /\ rebuilt' = rebuilt /\ receipt' = receipt /\ applied' = applied
    BY <1>1 DEF Cadence!Store
  <2>3. \A w \in Weeks : w > week' => w > week
    BY <1>1, <2>1 DEF Weeks
  <2>4. WeekTypes'
    BY <2>1, <2>2, <2>3 DEF WeeksInv, WeekTypes
  <2>5. ASSUME ordered, ~rebuilt PROVE Goal
    <3>1. Orderly(week', kind, funded, Cadence!Store)
      BY <2>1, <2>5, LaterKeeps DEF WeeksInv, WeekTypes
    <3> QED  BY <2>2, <3>1 DEF OrderlyNow
  <2> QED  BY <2>2, <2>4, <2>5 DEF WeeksInv
<1>2. ASSUME NEW w \in Cadence!Weeks, NEW lives \in BOOLEAN, Cadence!Fund(w, lives) PROVE WeeksInv'
  <2> USE <1>2 DEF Cadence!Fund
  <2>1. w \in Weeks /\ week \in Weeks /\ funded[w] \in 0..2 /\ \A v \in Weeks : v \in Nat
    BY DEF WeeksInv, WeekTypes, Weeks, Cadence!Weeks
  <2>2. PICK n \in 0..2 : n = funded[w] + 1
    BY <2>1
  <2>3. funded' = [funded EXCEPT ![w] = n] /\ funded' \in [Weeks -> 0..2]
    BY <2>1, <2>2 DEF WeeksInv, WeekTypes
  <2>4. week' = week /\ kind' = kind /\ Cadence!Store' = Cadence!Store /\ rebuilt' = rebuilt /\ applied' = applied
    BY DEF Cadence!Store
  <2>5. \A v \in Weeks : v > week => funded'[v] = 0
    <3>1. w <= week
      BY <2>1
    <3> QED  BY <2>1, <2>3, <3>1 DEF WeeksInv, WeekTypes
  <2>6. WeekTypes'
    BY <2>1, <2>3, <2>4, <2>5 DEF WeeksInv, WeekTypes
  <2>7. receipt' \in [Cadence!Sessions -> 0..2]
    BY <2>2 DEF WeeksInv
  <2>8. ordered' \in BOOLEAN /\ (ordered' => ordered /\ w = week)
    BY Zenon DEF WeeksInv
  <2>9. ASSUME ordered', ~rebuilt PROVE Goal
    <3>1. \A v \in Weeks : v < week => funded'[v] = funded[v]
      BY <2>1, <2>3, <2>8, <2>9 DEF WeeksInv, WeekTypes
    <3>2. OrderlyNow(Cadence!Store)
      BY <2>8, <2>9 DEF WeeksInv
    <3>3. week >= week
      BY <2>1
    <3>4. Orderly(week, kind, funded', Cadence!Store)
      BY <2>1, <2>3, <3>1, <3>2, <3>3, LaterKeeps
    <3> QED  BY <2>4, <3>4 DEF OrderlyNow
  <2> QED  BY <2>4, <2>6, <2>7, <2>8, <2>9 DEF WeeksInv
<1>3. ASSUME NEW s \in Cadence!Sessions, NEW evidence \in BOOLEAN, Cadence!Apply(s, evidence) PROVE WeeksInv'
  <2> USE <1>3 DEF Cadence!Apply
  <2>1. PICK w \in Weeks : w = s[1]
    BY DEF Cadence!Sessions, Weeks, Cadence!Weeks
  <2>2. funded[w] \in 1..2
    BY <2>1 DEF Cadence!Sessions, WeeksInv, WeekTypes
  <2>3. w \in 1..week
    BY <2>1, <2>2 DEF WeeksInv, WeekTypes, Weeks
  <2>4. UNCHANGED <<week, kind, funded>> /\ rebuilt' = rebuilt /\ applied' \subseteq Cadence!Sessions
    BY DEF WeeksInv
  <2>5. receipt' \in [Cadence!Sessions -> 0..2]
    <3>1. PICK n \in 0..2 : n = funded[s[1]]
      BY <2>1, <2>2
    <3> QED  BY <3>1 DEF WeeksInv
  <2>6. ordered' \in BOOLEAN /\ (ordered' => ordered /\ w >= state.current)
    BY <2>1, Zenon DEF WeeksInv, Cadence!InOrder
  <2>7. WeekTypes'
    BY <2>4 DEF WeeksInv, WeekTypes
  <2>8. ASSUME ordered', ~rebuilt PROVE Goal
    <3>1. OrderlyNow(Cadence!Store)
      BY <2>6, <2>8 DEF WeeksInv
    <3>2. w >= Cadence!Store.state.current
      BY <2>6, <2>8 DEF Cadence!Store
    <3>3. OrderlyNow(Cadence!Applied(Cadence!Store, w, evidence))
      BY <2>3, <3>1, <3>2, AppliedKeeps DEF WeeksInv
    <3>4. Cadence!Becomes(Cadence!Applied(Cadence!Store, w, evidence))
      BY <2>1
    <3> QED  BY <2>4, <3>3, <3>4, StoreStep
  <2> QED  BY <2>4, <2>5, <2>6, <2>7, <2>8 DEF WeeksInv
<1>4. ASSUME NEW w \in Cadence!Weeks, NEW evidence \in BOOLEAN, Cadence!Finalize(w, evidence) PROVE WeeksInv'
  <2> USE <1>4 DEF Cadence!Finalize
  <2>1. w \in 1..week
    BY DEF WeeksInv, WeekTypes, Weeks, Cadence!Weeks
  <2>2. UNCHANGED <<week, kind, funded>> /\ rebuilt' = rebuilt /\ applied' = applied /\ receipt' = receipt
    OBVIOUS
  <2>3. ordered' \in BOOLEAN /\ (ordered' => ordered /\ w < week /\ w >= state.current)
    BY Zenon DEF WeeksInv, Cadence!InOrder
  <2>4. WeekTypes'
    BY <2>2 DEF WeeksInv, WeekTypes
  <2>5. ASSUME ordered', ~rebuilt PROVE Goal
    <3>1. OrderlyNow(Cadence!Store)
      BY <2>3, <2>5 DEF WeeksInv
    <3>2. w >= Cadence!Store.state.current /\ w < week
      BY <2>3, <2>5 DEF Cadence!Store
    <3>3. OrderlyNow(Cadence!Finalized(Cadence!Store, w, evidence))
      BY <2>1, <3>1, <3>2, FinalizedKeeps DEF WeeksInv
    <3>4. Cadence!Becomes(Cadence!Finalized(Cadence!Store, w, evidence))
      OBVIOUS
    <3> QED  BY <2>2, <3>3, <3>4, StoreStep
  <2> QED  BY <2>2, <2>3, <2>4, <2>5 DEF WeeksInv
<1>5. ASSUME NEW evidence \in BOOLEAN, Cadence!Reconcile(evidence) PROVE WeeksInv'
  <2> USE <1>5 DEF Cadence!Reconcile
  <2>1. UNCHANGED <<week, kind, funded>> /\ applied' = applied /\ receipt' = receipt
    OBVIOUS
  <2>2. rebuilt' \in BOOLEAN /\ (~rebuilt' => ~rebuilt /\ \A w \in 1..week : kind[w] = "eligible")
    BY Zenon DEF WeeksInv
  <2>3. /\ ordered' \in BOOLEAN
        /\ ordered' => ordered /\ \A w \in 1..week - 1 : Cadence!IsClosed(Cadence!Store, w) \/ kind[w] = "out_of_scope"
    BY Zenon DEF WeeksInv
  <2>4. WeekTypes'
    BY <2>1 DEF WeeksInv, WeekTypes
  <2>5. ASSUME ordered', ~rebuilt' PROVE Goal
    <3>1. OrderlyNow(Cadence!Store)
      BY <2>2, <2>3, <2>5 DEF WeeksInv
    <3>2. \A w \in 1..week - 1 : w \in 1..week
      BY DEF WeeksInv, WeekTypes, Weeks
    <3>3. \A w \in 1..week - 1 : Cadence!IsClosed(Cadence!Store, w)
      BY <2>2, <2>3, <2>5, <3>2
    <3>4. PICK r : r = Cadence!Reconciled(Cadence!Store, evidence)
      OBVIOUS
    <3>5. OrderlyNow(r)
      BY <2>2, <2>5, <3>1, <3>3, <3>4, ReconciledKeeps DEF WeeksInv
    <3>6. OrderlyNow(Cadence!Rebuilt(r))
      BY <2>2, <2>5, <3>5, RebuiltKeeps DEF WeeksInv
    <3>7. Cadence!Becomes(Cadence!Rebuilt(r))
      BY <3>4
    <3> QED  BY <2>1, <3>6, <3>7, StoreStep
  <2> QED  BY <2>1, <2>2, <2>3, <2>4, <2>5 DEF WeeksInv
<1>6. CASE UNCHANGED Cadence!vars
  <2>1. /\ week' = week /\ kind' = kind /\ funded' = funded /\ receipt' = receipt /\ applied' = applied
        /\ ordered' = ordered /\ rebuilt' = rebuilt /\ Cadence!Store' = Cadence!Store
    BY <1>6 DEF Cadence!vars, Cadence!Store
  <2>2. WeekTypes'
    BY <2>1 DEF WeeksInv, WeekTypes
  <2>3. OrderlyNow(Cadence!Store) => Goal
    BY <2>1 DEF OrderlyNow
  <2> QED  BY <2>1, <2>2, <2>3 DEF WeeksInv
<1> QED  BY <1>1, <1>2, <1>3, <1>4, <1>5, <1>6 DEF Cadence!Next

\* What the invariant says of the properties of the run.
LEMMA WeeksSuffice ==
  WeeksInv => Cadence!StreakIsTheRecount /\ (ordered /\ ~rebuilt => Cadence!TypeOK)
<1> SUFFICES ASSUME WeeksInv, ordered, ~rebuilt
             PROVE  Cadence!IsRecount /\ Cadence!TypeOK
  BY DEF Cadence!StreakIsTheRecount
<1>1. OrderlyNow(Cadence!Store)
  BY DEF WeeksInv
<1>2. Cadence!Store.rows = rows /\ Cadence!Store.state = state
  BY DEF Cadence!Store
<1>3. PICK t \in Tallied(MaxWeek) : t = Tally(kind, rows)[MaxWeek] /\ t.streak <= t.longest
  BY TallyTypes, WeeksAre
<1>4. state.streak = t.streak /\ state.longest = t.longest
  BY <1>1, <1>2, <1>3 DEF OrderlyNow, Orderly, Matches
<1>5. t.streak \in 0..MaxWeek /\ t.longest \in 0..MaxWeek
  BY <1>3 DEF Tallied
<1>6. Cadence!IsRecount
  BY <1>3, <1>4, RecountIs DEF Cadence!IsRecount
<1>7. state.streak \in 0..MaxWeek /\ state.longest \in state.streak..MaxWeek
  BY <1>3, <1>4, <1>5
<1>8. rows \in [Weeks -> Statuses] /\ state.current \in 0..MaxWeek /\ state.latest \in 0..MaxWeek
  BY <1>1, <1>2, OrderlyTypes DEF WeeksInv
<1>9. Cadence!Weeks = Weeks
  BY DEF Weeks, Cadence!Weeks
<1>10. {ordered, rebuilt} \subseteq BOOLEAN
  BY Zenon DEF WeeksInv
<1>11. Cadence!TypeOK
  BY <1>7, <1>8, <1>9, <1>10 DEF Cadence!TypeOK, WeeksInv, WeekTypes, Statuses
<1> QED  BY <1>6, <1>11

-----------------------------------------------------------------------------
(* The three parts together (MCLearning).                                     *)

LEMMA EveryStep ==
  [MCNext]_<<part, vars, journeyVars, weekVars>> =>
    [Next]_vars /\ [Projection!Next]_(Projection!vars) /\ [Cadence!Next]_(Cadence!vars)
<1> SUFFICES ASSUME [MCNext]_<<part, vars, journeyVars, weekVars>>
             PROVE  [Next]_vars /\ [Projection!Next]_(Projection!vars) /\ [Cadence!Next]_(Cadence!vars)
  OBVIOUS
<1>1. UNCHANGED journeyVars => UNCHANGED Projection!vars
  BY DEF journeyVars, Projection!vars
<1>2. UNCHANGED weekVars => UNCHANGED Cadence!vars
  BY DEF weekVars, Cadence!vars
<1>3. CASE MCNext
  BY <1>1, <1>2, <1>3 DEF MCNext
<1>4. CASE UNCHANGED <<part, vars, journeyVars, weekVars>>
  BY <1>1, <1>2, <1>4
<1> QED  BY <1>3, <1>4

LEMMA ProgressRemains == MCSpec => []ProgressInv
<1>1. MCInit => ProgressInv
  BY ProgressInit DEF MCInit
<1>2. ProgressInv /\ [MCNext]_<<part, vars, journeyVars, weekVars>> => ProgressInv'
  BY EveryStep, ProgressNext
<1> QED  BY <1>1, <1>2, PTL DEF MCSpec

LEMMA JourneyRemains == MCSpec => []JourneyInv
<1>1. MCInit => JourneyInv
  BY JourneyInit DEF MCInit
<1>2. JourneyInv /\ [MCNext]_<<part, vars, journeyVars, weekVars>> => JourneyInv'
  BY EveryStep, JourneyNext
<1> QED  BY <1>1, <1>2, PTL DEF MCSpec

\* MCLearning follows the weeks while they are handled in order.
InOrderStill == ordered /\ ~rebuilt

LEMMA WeeksRemain == MCSpec => [](WeeksInv /\ InOrderStill)
<1>1. MCInit => WeeksInv /\ InOrderStill
  BY WeeksInit DEF MCInit, Cadence!Init, InOrderStill
<1>2. WeeksInv /\ InOrderStill /\ [MCNext]_<<part, vars, journeyVars, weekVars>> => (WeeksInv /\ InOrderStill)'
  <2> SUFFICES ASSUME WeeksInv, InOrderStill, [MCNext]_<<part, vars, journeyVars, weekVars>>
               PROVE  WeeksInv' /\ InOrderStill'
    OBVIOUS
  <2>1. WeeksInv'
    BY EveryStep, WeeksNext
  <2>2. CASE MCNext
    <3>1. UNCHANGED weekVars => InOrderStill'
      <4>1. UNCHANGED weekVars => ordered' = ordered /\ rebuilt' = rebuilt
        BY DEF weekVars
      <4> QED  BY <4>1, Zenon DEF InOrderStill
    <3>2. UNCHANGED weekVars \/ (ordered' /\ ~rebuilt')
      BY <2>2, Zenon DEF MCNext
    <3> QED  BY <2>1, <3>1, <3>2, Zenon DEF InOrderStill
  <2>3. CASE UNCHANGED <<part, vars, journeyVars, weekVars>>
    <3>1. ordered' = ordered /\ rebuilt' = rebuilt
      BY <2>3 DEF weekVars
    <3> QED  BY <2>1, <3>1, Zenon DEF InOrderStill
  <2> QED  BY <2>1, <2>2, <2>3
<1> QED  BY <1>1, <1>2, PTL DEF MCSpec

(* The rows, what was sent and what processes have in hand keep their types in all  *)
(* three parts.                                                                      *)
THEOREM TypesStay == MCSpec => []TypesOK
<1>1. ProgressInv /\ JourneyInv /\ WeeksInv /\ InOrderStill => TypesOK
  BY ProgressSuffices, JourneySuffices, WeeksSuffice DEF TypesOK, InOrderStill
<1> QED  BY <1>1, ProgressRemains, JourneyRemains, WeeksRemain, PTL

(* Requests that follow each other never fork the progress of a learner: each      *)
(* version was made by one accepted checkpoint, completion or recovery, composed   *)
(* on the version before it, whatever another tab sent meanwhile and whatever      *)
(* dies or is retried, for any numbers of requests, processes, versions and        *)
(* sessions (saveCheckpoint, completeLesson, recoverCurrentProgress).              *)
THEOREM ProgressStays == Spec => []ProgressIsNeverForked
<1>1. ProgressInv /\ [Next]_vars => ProgressInv'
  BY ProgressNext
<1>2. ProgressInv => ProgressIsNeverForked
  BY ProgressSuffices
<1> QED  BY <1>1, <1>2, ProgressInit, PTL DEF Spec

(* With requests in turn the journey shows what was sent and earned, and not what   *)
(* was revoked; what a purge took is never shown again, whichever outbox entries are *)
(* retried afterwards (projectLessonOutbox, projectAchievementOutbox,                *)
(* purgeLearnerJourneyIfDue, reconcileLearnerRetentionState).                        *)
THEOREM JourneyStays == MCSpec => []JourneyFollowsItsSources
<1>1. JourneyInv => JourneyFollowsItsSources
  BY JourneySuffices DEF JourneyFollowsItsSources
<1> QED  BY <1>1, JourneyRemains, PTL

(* The same of the journey alone, whose sources need not come one at a time: any     *)
(* number of lessons, achievements and milestones, however often it is purged.       *)
THEOREM SourcesStayShown ==
  Projection!Spec => [](Projection!JourneyFollowsItsSources /\ Projection!NothingPurgedIsShown)
<1>1. JourneyInv /\ [Projection!Next]_(Projection!vars) => JourneyInv'
  BY JourneyNext
<1> QED  BY <1>1, JourneyInit, JourneySuffices, PTL DEF Projection!Spec

(* The streak is the one of the weeks, for any number of them, while they are       *)
(* handled in order and no reconciliation went over a week that is not fully         *)
(* covered, whichever of the queue, the finalisation and reconciliations handles a   *)
(* week and however often (completeWeek, finalizeOne, rebuildState).                 *)
THEOREM StreakStays == Cadence!Spec => []Cadence!StreakIsTheRecount
<1>1. WeeksInv /\ [Cadence!Next]_(Cadence!vars) => WeeksInv'
  BY WeeksNext
<1> QED  BY <1>1, WeeksInit, WeeksSuffice, PTL DEF Cadence!Spec

(* The same of the behaviours the run follows, in which no week is ever handled out *)
(* of order.                                                                         *)
THEOREM StreakRemains == MCSpec => [](StreakIsTheRecount /\ Cadence!IsRecount)
<1>1. WeeksInv /\ InOrderStill => StreakIsTheRecount /\ Cadence!IsRecount
  BY WeeksSuffice DEF StreakIsTheRecount, InOrderStill, Cadence!StreakIsTheRecount
<1> QED  BY <1>1, WeeksRemain, PTL
===============================================================================
