---------------------------- MODULE MCEntitlement ----------------------------
(****************************************************************************)
(* The ledger of lifecycle events and the paid cycles meet in one statement: *)
(* a paid cycle overwrites the state of the row. Entitlement has that        *)
(* statement with any outcome (RebuildCommit), PaidCycles has where it comes *)
(* from; Assignment has whom the cycles are paid for. Each behaviour of this *)
(* specification is one of a single part.                                    *)
(****************************************************************************)
EXTENDS Entitlement, TLC

CONSTANTS Cycles, Start, End, Learners, MaxVersion, MaxIncidents, c1

\* Two paid cycles whose periods overlap.
TwoStarts == [c \in Cycles |-> IF c = c1 THEN 0 ELSE 1]
TwoEnds   == [c \in Cycles |-> TwoStarts[c] + 2]

VARIABLES part, assigned, learner, role, batch, incidents, acted, tasks, quiet, ordered
VARIABLES sub, reassignment, unmoved, unpaid, revived, overlapped, request
paidVars == <<assigned, learner, role, batch, incidents, acted, tasks, quiet, ordered>>
assignedVars == <<sub, reassignment, unmoved, unpaid, revived, overlapped, request>>
Paid == INSTANCE PaidCycles WITH work <- tasks, calm <- quiet, Keys <- Reports
Assigned == INSTANCE Assignment WITH case <- reassignment, job <- request,
                                     Subscriptions <- Reports, Cases <- Cycles

\* No learner has the name that stands for none.
ASSUME SomebodyAssumption == Paid!Nobody \notin Learners

\* A period ends after it starts. Its start ranks it among the periods: of two that start at one
\* instant, the one created first, or of the smaller id, ranks first, and whatever ends at that
\* instant ranks before both.
ASSUME PeriodsAssumption ==
  /\ Start \in [Cycles -> Nat] /\ End \in [Cycles -> Nat]
  /\ \A c \in Cycles : Start[c] < End[c]
  /\ \A c, d \in Cycles : Start[c] = Start[d] => c = d

MCInit ==
  /\ part \in {"ledger", "paid", "assigned"}
  /\ Init /\ Paid!Init /\ Assigned!Init

\* Bounds: once two requests have overlapped, no event becomes known to the ledger, and no
\* request begins that concerns an assignment; those in flight end in every order.
NothingNew    == ~calm => Known' \subseteq Known
NobodyArrives == overlapped => \A p \in Procs : request[p] = Assigned!Idle => request'[p] = Assigned!Idle

MCNext ==
  \/ part = "ledger" /\ Next /\ NothingNew /\ UNCHANGED <<part, paidVars, assignedVars>>
  \/ part = "paid" /\ Paid!Next /\ UNCHANGED <<part, vars, assignedVars>>
  \/ part = "assigned" /\ Assigned!Next /\ NobodyArrives /\ UNCHANGED <<part, vars, paidVars>>
MCSpec == MCInit /\ [][MCNext]_<<part, vars, paidVars, assignedVars>>

\* The types of the three parts.
TypesOK == TypeOK /\ Paid!TypeOK /\ Assigned!TypeOK

\* A paid cycle, and overlapping ones together, are allocated once; a cycle has one active
\* incident, and a version of it is acted on once (PaidCycles).
AllocatedOnce == Paid!AllocatedOnce /\ Paid!IncidentsAreActedOnce

\* Two live subscriptions of one app never serve one learner, and a pending reassignment has its
\* one scheduled case (Assignment).
OneSubscriptionPerLearner == Assigned!OneSubscriptionPerLearner /\ Assigned!PendingIsScheduled

\* The reports' names serve as the operators' keys and as the subscriptions, which only have
\* to differ; so do the cycles' names as the cases.
Symmetric == Permutations(Reports) \cup Permutations(Procs) \cup Permutations(Learners)
==============================================================================
