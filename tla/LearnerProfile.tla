----------------------------- MODULE LearnerProfile -----------------------------
(****************************************************************************)
(* The learners of a parent: made, renamed, and given a limit of sessions by *)
(* the staff.  The parent's requests have a key; a change names the version  *)
(* its author saw, which is compared with what was read and again by the     *)
(* UPDATE, whose row count nobody looks at.                                  *)
(****************************************************************************)
EXTENDS Naturals, FiniteSets

CONSTANTS Procs,      \* processes of the server
          Learners,   \* ids of learners
          Names,      \* normalized names
          Keys,       \* idempotency keys of the parent
          MaxVersion  \* bound: versions of a learner

VARIABLES
  account,     \* profiles.account_status
  onboarding,  \* profiles.onboarding_status
  learner,     \* learners
  creations,   \* learner_creation_requests: the learner a key made
  updates,     \* learner_profile_update_requests: the version a key was answered
  work,        \* what a request has read
  told,        \* changes of a learner that were acknowledged, and the last name among them
  calm         \* no two requests have overlapped

vars == <<account, onboarding, learner, creations, updates, work, told, calm>>

Idle == [at |-> "idle"]
None == "none"
Rows == [name : Names \cup {None}, version : 0..MaxVersion, unlimited : BOOLEAN]

TypeOK ==
  /\ account \in {"active", "deleted"} /\ onboarding \in {"learner_pending", "complete"}
  /\ learner \in [Learners -> Rows]
  /\ creations \in [Keys -> Learners \cup {None}]
  /\ updates \in [Learners \X Keys -> 0..MaxVersion]
  /\ DOMAIN work = Procs
  /\ told \in [Learners -> [changes : Nat, name : Names \cup {None}]]
  /\ calm \in BOOLEAN

\* The parent has given the account's own details.
Init ==
  /\ account = "active" /\ onboarding = "learner_pending"
  /\ learner = [l \in Learners |-> [name |-> None, version |-> 0, unlimited |-> FALSE]]
  /\ creations = [k \in Keys |-> None] /\ updates = [lk \in Learners \X Keys |-> 0]
  /\ work = [p \in Procs |-> Idle]
  /\ told = [l \in Learners |-> [changes |-> 0, name |-> None]]
  /\ calm = TRUE

Arrive(p, request) ==
  /\ work[p] = Idle
  /\ work' = [work EXCEPT ![p] = request]
  /\ calm' = (calm /\ \A q \in Procs : work[q] = Idle)
Done(p) == work' = [work EXCEPT ![p] = Idle]
Made == {l \in Learners : learner[l].version > 0}
\* Unique in the parent's learners.
NameIsFree(n, l) == \A m \in Made \ {l} : learner[m].name # n

\* Mutant: the key's row is written over.
AnyKey(k) == k \in Keys
\* A key that has made a learner is answered with it.
NewKey(k) == creations[k] = None
CreateRead(p, k, n) ==
  /\ NewKey(k) /\ Arrive(p, [at |-> "create", key |-> k, name |-> n])
  /\ UNCHANGED <<account, onboarding, learner, creations, updates, told>>
\* One transaction, from the account's status to the completion of the key's row.
CreateLearner(p, l) ==
  /\ work[p].at = "create" /\ account = "active"
  /\ NewKey(work[p].key) /\ l \notin Made /\ NameIsFree(work[p].name, l)
  /\ learner' = [learner EXCEPT ![l] = [name |-> work[p].name, version |-> 1, unlimited |-> FALSE]]
  /\ creations' = [creations EXCEPT ![work[p].key] = l]
  /\ onboarding' = "complete"
  /\ told' = [told EXCEPT ![l].name = work[p].name]
  /\ Done(p)
  /\ UNCHANGED <<account, updates, calm>>

\* Mutant: the version is left to the UPDATE.
AnyVersion(l, v) == v <= learner[l].version
SameVersion(l, v) == v = learner[l].version
UpdateRead(p, l, k, n, v) ==
  /\ account = "active" /\ l \in Made /\ updates[<<l, k>>] = 0
  /\ SameVersion(l, v)
  /\ Arrive(p, [at |-> "update", learner |-> l, key |-> k, name |-> n, expected |-> v,
                changed |-> n # learner[l].name])
  /\ UNCHANGED <<account, onboarding, learner, creations, updates, told>>
\* The change is audited and acknowledged, whether or not the UPDATE found the version.
UpdateLearner(p) ==
  /\ work[p].at = "update"
  /\ LET w == work[p]
         l == w.learner
         found == w.changed /\ learner[l].version = w.expected
     IN
     /\ updates[<<l, w.key>>] = 0
     /\ found => NameIsFree(w.name, l) /\ learner[l].version < MaxVersion
     /\ learner' = IF found THEN [learner EXCEPT ![l].name = w.name, ![l].version = @ + 1] ELSE learner
     /\ updates' = [updates EXCEPT ![<<l, w.key>>] = learner'[l].version]
     /\ told' = IF w.changed THEN [told EXCEPT ![l] = [changes |-> @.changes + 1, name |-> w.name]]
                             ELSE told
  /\ Done(p)
  /\ UNCHANGED <<account, onboarding, creations, calm>>

\* A change of the limit is one statement, and refused when it finds no row.
SetLearnerSessionLimitOverride(l, v, unlimited) ==
  /\ l \in Made /\ v = learner[l].version /\ v < MaxVersion
  /\ learner' = [learner EXCEPT ![l].unlimited = unlimited, ![l].version = @ + 1]
  /\ told' = [told EXCEPT ![l].changes = @ + 1]
  /\ calm' = (calm /\ \A q \in Procs : work[q] = Idle)
  /\ UNCHANGED <<account, onboarding, creations, updates, work>>

DeleteAccount ==
  /\ account = "active" /\ account' = "deleted"
  /\ UNCHANGED <<onboarding, learner, creations, updates, work, told, calm>>
Abandon(p) ==
  /\ work[p] # Idle /\ Done(p)
  /\ UNCHANGED <<account, onboarding, learner, creations, updates, told, calm>>

Begin(p) ==
  \/ \E k \in Keys, n \in Names : CreateRead(p, k, n)
  \/ \E l \in Learners, k \in Keys, n \in Names, v \in 1..MaxVersion : UpdateRead(p, l, k, n, v)
Continue(p) == (\E l \in Learners : CreateLearner(p, l)) \/ UpdateLearner(p) \/ Abandon(p)

Next ==
  \/ \E p \in Procs : Begin(p) \/ Continue(p)
  \/ \E l \in Learners, v \in 1..MaxVersion, u \in BOOLEAN : SetLearnerSessionLimitOverride(l, v, u)
  \/ DeleteAccount

Spec == Init /\ [][Next]_vars
-----------------------------------------------------------------------------
\* A key makes one learner, learners have names of their own, and onboarding is complete with the
\* first of them (learner-repo.ts:62-157).
OneLearnerPerKey ==
  /\ \A l \in Made : Cardinality({k \in Keys : creations[k] = l}) = 1 /\ NameIsFree(learner[l].name, l)
  /\ onboarding = "complete" <=> Made # {}

\* Of requests that follow each other: the version counts the acknowledged changes, and the name is
\* the one acknowledged last (learner-repo.ts:198-318, 367-403).
ChangesAreKept ==
  calm => \A l \in Made : /\ learner[l].version = 1 + told[l].changes
                          /\ learner[l].name = told[l].name

LearnersAreKept == OneLearnerPerKey /\ ChangesAreKept
=================================================================================
