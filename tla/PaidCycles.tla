----------------------------- MODULE PaidCycles ------------------------------
(****************************************************************************)
(* The paid cycles of one subscription and the periods of one app they       *)
(* create: which period bears the credit allocation, the repair of missing   *)
(* cycles and batches, and the incidents that repair opens instead of        *)
(* rewriting a cycle that disagrees with billing.                            *)
(*                                                                          *)
(* A cycle disagrees once the subscription is reassigned to another learner. *)
(****************************************************************************)
EXTENDS Integers, FiniteSets, SequencesExt

CONSTANTS
  Cycles,       \* paid cycles
  Learners,     \* learners of the purchaser
  Keys,         \* idempotency keys of the operators' actions
  Procs,        \* processes that serve requests
  Start, End,   \* boundaries of each cycle's period, by rank: created_at and id order equal starts
  MaxVersion,   \* bound on an incident's version
  MaxIncidents  \* bound on the incidents

VARIABLES
  assigned,   \* the subscription's learner
  learner,    \* the learner of each applied entitlement_cycle
  role,       \* effective_source_role of the cycle's period
  batch,      \* number of credit batches of the cycle's period
  incidents,  \* of each cycle: the incidents in the order they were opened
  acted,      \* entitlement_integrity_incident_actions
  work,       \* the request each process serves
  calm,       \* no two requests have overlapped (history)
  ordered     \* cycles have been applied by the start of their period (history)

vars == <<assigned, learner, role, batch, incidents, acted, work, calm, ordered>>

Nobody   == "nobody"
Roles    == {"none", "bearing", "supporting"}
Outcome  == [resolve_false_positive |-> "resolved_false_positive",
             open_refund_case |-> "routed_refund_case"]
Actions  == DOMAIN Outcome \cup {"retry"}
Statuses == {"open", "resolved_repaired"} \cup {Outcome[a] : a \in DOMAIN Outcome}
Incident == [status : Statuses, version : Nat \ {0}]
Opened   == [status |-> "open", version |-> 1]

NoRoles == [c \in Cycles |-> "none"]
Idle == [op |-> "idle", cycle |-> {}, for |-> Nobody, roles |-> NoRoles, found |-> {}, row |-> Opened,
         key |-> {}, action |-> "none"]
Busy(p, op) == work[p].op = op
CycleOf(p)  == CHOOSE c \in Cycles : c \in work[p].cycle
Goes(p, w)  == work' = [work EXCEPT ![p] = w]
Arrive(p, w) ==
  /\ Busy(p, "idle")
  /\ Goes(p, w)
  /\ calm' = (calm /\ \A q \in Procs : Busy(q, "idle"))
  /\ ordered' = (ordered /\ calm')

------------------------------------------------------------------------------
\* recomputeEffectiveEntitlement walks the periods by their start: one bears the allocation
\* when no bearing one before it ends after it starts; the others only support access.
IsWalk(B, S) ==
  \A c \in S : c \in B <=> \A d \in B : Start[d] < Start[c] => End[d] <= Start[c]
Bearing(S) == CHOOSE B \in SUBSET S : IsWalk(B, S)
RoleIn(S, c) == IF c \in Bearing(S) THEN "bearing" ELSE "supporting"
OfLearner(l) == {c \in Cycles : learner[c] = l}

\* classifyPaidCycleGap
IsMissing(c) == learner[c] = Nobody
Disagrees(c) == ~IsMissing(c) /\ learner[c] # assigned
ActiveOf(c)  == {i \in DOMAIN incidents[c] : incidents[c][i].status = "open"}

Opens == FoldFunction(LAMBDA s, n : n + Len(s), 0, incidents)
\* reconcilePaidCycle, or applyPaidCycle for the provider's event, which are the same when the
\* cycle is missing.
Reconcile(p, c) ==
  /\ \A i \in ActiveOf(c) : incidents[c][i].version < MaxVersion
  /\ Disagrees(c) /\ ActiveOf(c) = {} => Opens < MaxIncidents
  /\ Arrive(p, IF IsMissing(c) THEN [Idle EXCEPT !.op = "cycle", !.cycle = {c}, !.for = assigned]
               ELSE IF Disagrees(c) THEN [Idle EXCEPT !.op = "incident", !.cycle = {c}, !.found = ActiveOf(c)]
               ELSE [Idle EXCEPT !.op = "batches", !.cycle = {c}, !.roles = role])
  /\ UNCHANGED <<assigned, learner, role, batch, incidents, acted>>

\* Its transaction inserts the period and reads the learner's others, ...
CycleDerive(p) ==
  /\ Busy(p, "cycle")
  /\ Goes(p, [work[p] EXCEPT !.op = "derive", !.found = OfLearner(work[p].for), !.roles = role])
  /\ UNCHANGED <<assigned, learner, role, batch, incidents, acted, calm, ordered>>

\* ... and writes the roles that differ from those it read, and a batch for a bearing period.
\* The unique paid_cycle_id refuses the second of two, and the unique learner and app of the
\* effective entitlement the second of two first cycles.
IsNotFirst(p) == work[p].found = {} /\ OfLearner(work[p].for) # {}
CycleRefused(p) ==
  ~IsMissing(CycleOf(p)) \/ IsNotFirst(p)
CycleCommit(p) ==
  LET c == CycleOf(p)
      S == work[p].found \cup {c}
  IN  /\ Busy(p, "derive")
      /\ IF CycleRefused(p)
           THEN UNCHANGED <<learner, role, batch, ordered>>
           ELSE /\ learner' = [learner EXCEPT ![c] = work[p].for]
                /\ role' = [d \in Cycles |-> IF d \in S /\ RoleIn(S, d) # work[p].roles[d]
                                             THEN RoleIn(S, d) ELSE role[d]]
                /\ batch' = [batch EXCEPT ![c] = IF c \in Bearing(S) THEN @ + 1 ELSE @]
                /\ ordered' = (ordered /\ \A d \in OfLearner(work[p].for) : Start[d] < Start[c])
      /\ Goes(p, Idle)
      /\ UNCHANGED <<assigned, incidents, acted, calm>>

\* A cycle that agrees: ensureEntitlementPeriodStandardAllocation if its bearing period has no
\* batch; a concurrent insertion wins by unique(entitlement_period_id).
AnyCycle(c) == TRUE
LacksBatch(c) == batch[c] = 0
BatchRepair(p) ==
  LET c == CycleOf(p)
  IN  /\ Busy(p, "batches")
      /\ batch' = [batch EXCEPT ![c] = IF work[p].roles[c] = "bearing" /\ LacksBatch(c) THEN @ + 1 ELSE @]
      /\ Goes(p, Idle)
      /\ UNCHANGED <<assigned, learner, role, incidents, acted, calm, ordered>>

\* openOrUpdateIncident: the incident found is counted up; otherwise one is opened unless
\* another request did.
MayOpen(c)   == ActiveOf(c) = {}
Touched(c, found) ==
  IF found # {} THEN [i \in DOMAIN incidents[c] |-> IF i \in found
                        THEN [incidents[c][i] EXCEPT !.version = @ + 1] ELSE incidents[c][i]]
  ELSE IF MayOpen(c) THEN Append(incidents[c], Opened)
  ELSE incidents[c]
IncidentCommit(p) ==
  LET c == CycleOf(p)
  IN  /\ Busy(p, "incident")
      /\ incidents' = [incidents EXCEPT ![c] = Touched(c, work[p].found)]
      /\ Goes(p, Idle)
      /\ UNCHANGED <<assigned, learner, role, batch, acted, calm, ordered>>

------------------------------------------------------------------------------
\* applyIncidentAction: a key is answered from its receipt; the transaction compares the version
\* the operator saw, ...
IsRepeated(c, i, key) == \E r \in acted : r.cycle = c /\ r.nr = i /\ r.key = key
ActRead(p, c, i, key, action) ==
  /\ i \in DOMAIN incidents[c] /\ incidents[c][i].version < MaxVersion
  /\ ~IsRepeated(c, i, key)
  /\ Arrive(p, [Idle EXCEPT !.op = "act", !.cycle = {c}, !.found = {i}, !.key = {key},
                  !.action = action, !.row = incidents[c][i]])
  /\ UNCHANGED <<assigned, learner, role, batch, incidents, acted>>

\* ... and writes by id. A retry repairs the cycle in the same transaction and resolves the
\* incident if nothing disagrees any more; otherwise the repair counts up or opens the active
\* incident. unique(incident_id, idempotency_key) rolls back the second of two.
Verdict(action, agrees, status) ==
  IF action \in DOMAIN Outcome THEN Outcome[action]
  ELSE IF agrees THEN "resolved_repaired" ELSE status
ActedOn(row, read, verdict) ==
  [status |-> IF verdict = read.status THEN row.status ELSE verdict, version |-> row.version + 1]
ActCommit(p) ==
  LET c == CycleOf(p)
      i == CHOOSE n \in work[p].found : TRUE
      key == CHOOSE k \in Keys : k \in work[p].key
      action == work[p].action
      tried == IF action = "retry" /\ Disagrees(c) THEN Touched(c, ActiveOf(c)) ELSE incidents[c]
      verdict == Verdict(action, ~Disagrees(c), work[p].row.status)
  IN  /\ Busy(p, "act")
      /\ Len(tried) > Len(incidents[c]) => Opens < MaxIncidents
      /\ IF IsRepeated(c, i, key)
           THEN UNCHANGED <<incidents, acted>>
           ELSE /\ incidents' = [incidents EXCEPT ![c] =
                     [tried EXCEPT ![i] = ActedOn(@, work[p].row, verdict)]]
                /\ acted' = acted \cup {[cycle |-> c, nr |-> i, key |-> key, version |-> work[p].row.version]}
      /\ Goes(p, Idle)
      /\ UNCHANGED <<assigned, learner, role, batch, calm, ordered>>

\* The reassignment of the subscription, and a request that dies.
Reassign(l) ==
  /\ assigned # l
  /\ assigned' = l
  /\ UNCHANGED <<learner, role, batch, incidents, acted, work, calm, ordered>>

Abandon(p) ==
  /\ ~Busy(p, "idle")
  /\ Goes(p, Idle)
  /\ UNCHANGED <<assigned, learner, role, batch, incidents, acted, calm, ordered>>

Init ==
  /\ assigned \in Learners
  /\ learner = [c \in Cycles |-> Nobody]
  /\ role = NoRoles
  /\ batch = [c \in Cycles |-> 0]
  /\ incidents = [c \in Cycles |-> << >>]
  /\ acted = {}
  /\ work = [p \in Procs |-> Idle]
  /\ calm = TRUE /\ ordered = TRUE

Next ==
  \/ \E p \in Procs :
       \/ \E c \in Cycles : Reconcile(p, c)
       \/ CycleDerive(p) \/ CycleCommit(p) \/ BatchRepair(p) \/ IncidentCommit(p)
       \/ \E c \in Cycles, i \in 1 .. MaxIncidents, key \in Keys, action \in Actions :
            ActRead(p, c, i, key, action)
       \/ ActCommit(p) \/ Abandon(p)
  \/ \E l \in Learners : Reassign(l)

Spec == Init /\ [][Next]_vars

------------------------------------------------------------------------------
\* Columns keep their types, and a period has a role when its cycle is applied.
TypeOK ==
  /\ assigned \in Learners
  /\ learner \in [Cycles -> Learners \cup {Nobody}]
  /\ role \in [Cycles -> Roles] /\ \A c \in Cycles : role[c] = "none" <=> IsMissing(c)
  /\ \A c \in Cycles : incidents[c] \in Seq(Incident)

Overlap(c, d) == c # d /\ learner[c] = learner[d] /\ Start[c] < End[d] /\ Start[d] < End[c]

\* Whatever the provider's events, the repairs and the operators' retries do at once, a paid
\* cycle is allocated at most one credit batch. When a learner's cycles are applied in the order
\* of their periods and nothing overlaps, overlapping purchases allocate once; and in whatever
\* order they are applied one by one, bearing periods do not overlap and each supporting one
\* starts within a bearing one.
AllocatedOnce ==
  /\ \A c \in Cycles : batch[c] <= 1
  /\ ordered => \A c, d \in Cycles : batch[c] > 0 /\ batch[d] > 0 => ~Overlap(c, d)
  /\ calm => /\ \A c, d \in Cycles : role[c] = "bearing" /\ role[d] = "bearing" => ~Overlap(c, d)
             /\ \A c \in Cycles : role[c] = "supporting" =>
                  \E d \in Cycles : role[d] = "bearing" /\ Overlap(c, d) /\ Start[d] <= Start[c]

\* A cycle has at most one active incident, whoever opens them, and while nothing overlaps a
\* version of an incident is acted on once: a second operator who saw it is refused.
IncidentsAreActedOnce ==
  /\ \A c \in Cycles : Cardinality(ActiveOf(c)) <= 1
  /\ calm => \A r, s \in acted : r.cycle = s.cycle /\ r.nr = s.nr /\ r.version = s.version => r = s
==============================================================================
