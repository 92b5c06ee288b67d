------------------------------ MODULE Assignment ------------------------------
(****************************************************************************)
(* Which learner each subscription of a parent is for: the checkout that     *)
(* names him, its activation, and the correction that administrators grant,  *)
(* at once or at the next paid boundary.  All subscriptions are of one app.  *)
(*                                                                          *)
(* That no two of them serve one learner is looked up before every           *)
(* transaction that makes a subscription live or moves it, and by nothing    *)
(* in the database.  The dates and the payments are those of Subscription;   *)
(* here a subscription only lives, falls due, lapses and ends.               *)
(****************************************************************************)
EXTENDS Naturals, FiniteSets

CONSTANTS
  Subscriptions,   \* subscriptions, each of one checkout and its idempotency key
  Learners,        \* learners of the parent
  Cases,           \* reassignment cases, each of one idempotency key
  Procs            \* requests and provider events at work at once

VARIABLES
  sub,         \* rows of subscriptions
  case,        \* rows of subscription_reassignment_cases
  unmoved,     \* the processes that have read the version a subscription still has
  unpaid,      \* the processes that have read the boundary at which it still ends
  revived,     \* the subscriptions that lapsed, and that a late event brought back (history)
  overlapped,  \* a request has begun while another was served (history)
  job          \* what each process is doing

vars == <<sub, case, unmoved, unpaid, revived, overlapped, job>>

Row  == [status : {"none", "pending_payment", "active", "past_due", "expired", "cancelled"},
         learner : SUBSET Learners, pending : SUBSET Learners]
Case == [status : {"none", "open", "scheduled", "executed"}, sub : SUBSET Subscriptions,
         source : SUBSET Learners, target : SUBSET Learners]
Steps == {"idle", "checkout", "activate", "fail", "request", "immediate", "next_period",
          "boundary", "move", "renew"}
Job  == [at : Steps, sub : SUBSET Subscriptions, case : SUBSET Cases,
         source : SUBSET Learners, learner : SUBSET Learners]
Idle == [at |-> "idle", sub |-> {}, case |-> {}, source |-> {}, learner |-> {}]

At(p, step) == job[p].at = step

\* A request that ends forgets what it read.
Done(p) ==
  /\ job' = [job EXCEPT ![p] = Idle]
  /\ unpaid' = [s \in Subscriptions |-> unpaid[s] \ {p}]
Leave(p) == Done(p) /\ unmoved' = [s \in Subscriptions |-> unmoved[s] \ {p}]

\* A request reads the subscription, and goes on from what it has read: what is written later
\* compares the version of a reassignment, and the boundary of a renewal.
Begin(p, j) ==
  LET reading(steps) == IF j.at \in steps THEN j.sub ELSE {} IN
  /\ At(p, "idle")
  /\ job' = [job EXCEPT ![p] = j]
  /\ overlapped' = (overlapped \/ \E q \in Procs : ~At(q, "idle"))
  /\ unmoved' = [s \in Subscriptions |-> unmoved[s] \cup
                   (IF s \in reading({"immediate", "next_period"}) THEN {p} ELSE {})]
  /\ unpaid' = [s \in Subscriptions |-> unpaid[s] \cup
                   (IF s \in reading({"boundary", "renew"}) THEN {p} ELSE {})]

AnyVersion(p, s)  == sub[s].status # "none"      \* mutant: the version is not compared
SameVersion(p, s) == p \in unmoved[s]

\* An UPDATE raises the version.
Update(s, row) ==
  /\ sub' = [sub EXCEPT ![s] = row]
  /\ unmoved' = [unmoved EXCEPT ![s] = {}]

Live == {"active", "past_due"}
\* Another subscription serves the learner; what is pending for him is not looked at.
Covered(l, but) == \E s \in Subscriptions \ but : sub[s].status \in Live /\ sub[s].learner = {l}

-----------------------------------------------------------------------------
(* Checkout and activation *)

CheckoutRead(p) ==
  /\ \E s \in Subscriptions, l \in Learners :
       /\ sub[s].status = "none" /\ ~Covered(l, {})
       /\ Begin(p, [Idle EXCEPT !.at = "checkout", !.sub = {s}, !.learner = {l}])
  /\ UNCHANGED <<sub, case, revived>>

CheckoutCommit(p) ==
  /\ At(p, "checkout")
  /\ \E s \in job[p].sub :
       /\ sub[s].status = "none"
       /\ Update(s, [status |-> "pending_payment", learner |-> job[p].learner, pending |-> {}])
  /\ Done(p)
  /\ UNCHANGED <<case, revived, overlapped>>

\* What overlaps stays pending, for someone to resolve.
ActivateRead(p) ==
  /\ \E s \in Subscriptions, settled \in BOOLEAN :
       /\ sub[s].status = "pending_payment"
       /\ settled => \A l \in sub[s].learner : ~Covered(l, {})
       /\ Begin(p, [Idle EXCEPT !.at = IF settled THEN "activate" ELSE "fail", !.sub = {s}])
  /\ UNCHANGED <<sub, case, revived>>

\* The activation names the status it found; the failure does not.
ActivateCommit(p) ==
  /\ \E s \in job[p].sub :
       \/ At(p, "activate") /\ sub[s].status = "pending_payment"
                            /\ Update(s, [sub[s] EXCEPT !.status = "active"])
       \/ At(p, "fail") /\ Update(s, [sub[s] EXCEPT !.status = "cancelled"])
  /\ Done(p)
  /\ UNCHANGED <<case, revived, overlapped>>

\* What the module Subscription says in detail: a failed renewal, the end of its grace, and
\* the end of a subscription that was cancelled.
Ages(s) ==
  /\ \/ sub[s].status = "active"   /\ Update(s, [sub[s] EXCEPT !.status = "past_due"])
     \/ sub[s].status = "past_due" /\ Update(s, [sub[s] EXCEPT !.status = "expired"])
     \/ sub[s].status \in Live     /\ Update(s, [sub[s] EXCEPT !.status = "cancelled"])
  /\ UNCHANGED <<case, unpaid, revived, overlapped, job>>

-----------------------------------------------------------------------------
(* Reassignment: the parent's case, and what an administrator makes of it. *)

RequestCase(p) ==
  /\ \E s \in Subscriptions, l \in Learners :
       /\ sub[s].status # "none" /\ l \notin sub[s].learner
       /\ Begin(p, [Idle EXCEPT !.at = "request", !.sub = {s}, !.source = sub[s].learner,
                                !.learner = {l}])
  /\ UNCHANGED <<sub, case, revived>>

CreateCase(p) ==
  /\ At(p, "request")
  /\ \E c \in Cases, s \in job[p].sub :
       /\ case[c].status = "none"
       /\ case' = [case EXCEPT ![c] = [status |-> "open", sub |-> {s}, source |-> job[p].source,
                                       target |-> job[p].learner]]
  /\ Leave(p)
  /\ UNCHANGED <<sub, revived, overlapped>>

AnyTarget(s, l) == sub[s].status \in Live      \* mutant: whom the target is served by is not looked up
\* validateReassignment; a session in progress refuses as well, which is an Abandon.
Valid(s, l)     == sub[s].status \in Live /\ ~Covered(l, {s})

\* Whether something was learned already decides what an administrator may ask for.
ExecuteRead(p) ==
  /\ \E c \in Cases, mode \in {"immediate", "next_period"} : \E s \in case[c].sub :
       /\ case[c].status = "open" /\ case[c].source = sub[s].learner
       /\ \A l \in case[c].target : Valid(s, l)
       /\ Begin(p, [Idle EXCEPT !.at = mode, !.sub = {s}, !.case = {c}, !.learner = case[c].target])
  /\ UNCHANGED <<sub, case, revived>>

Resolve(C, from, to) ==
  case' = [c \in Cases |-> IF c \in C /\ case[c].status = from THEN [case[c] EXCEPT !.status = to]
                           ELSE case[c]]

ExecuteCommit(p) ==
  /\ \E s \in job[p].sub :
       /\ SameVersion(p, s)
       /\ \/ /\ At(p, "immediate")
             /\ Update(s, [sub[s] EXCEPT !.learner = job[p].learner])
             /\ Resolve(job[p].case, "open", "executed")
          \/ /\ At(p, "next_period") /\ sub[s].pending = {}
             /\ Update(s, [sub[s] EXCEPT !.pending = job[p].learner])
             /\ Resolve(job[p].case, "open", "scheduled")
  /\ Done(p)
  /\ UNCHANGED <<revived, overlapped>>

-----------------------------------------------------------------------------
(* applyRenewal: a settled renewal, or a recovery within the grace that may be delivered *)
(* after it, moves the subscription to whom it is pending for and then renews it.        *)

RenewRead(p) ==
  /\ \E s \in Subscriptions :
       /\ sub[s].status \in Live \cup {"expired"}
       /\ Begin(p, [Idle EXCEPT !.at = IF sub[s].pending = {} THEN "renew" ELSE "boundary",
                                !.sub = {s}])
  /\ UNCHANGED <<sub, case, revived>>

\* applyDueSubscriptionReassignment reads the subscription again, with its scheduled case;
\* what it refuses rejects the renewal (Abandon).
MoveRead(p) ==
  /\ At(p, "boundary")
  /\ \E s \in job[p].sub :
       \/ /\ sub[s].pending = {}
          /\ job' = [job EXCEPT ![p].at = "renew"]
          /\ UNCHANGED unmoved
       \/ /\ \A l \in sub[s].pending : Valid(s, l)
          /\ \E c \in Cases :
               /\ case[c].status = "scheduled" /\ case[c].sub = {s} /\ case[c].target = sub[s].pending
               /\ job' = [job EXCEPT ![p].at = "move", ![p].case = {c}, ![p].learner = sub[s].pending]
          /\ unmoved' = [unmoved EXCEPT ![s] = @ \cup {p}]
  /\ UNCHANGED <<sub, case, unpaid, revived, overlapped>>

MoveCommit(p) ==
  /\ At(p, "move")
  /\ \E s \in job[p].sub :
       /\ SameVersion(p, s)
       /\ Update(s, [sub[s] EXCEPT !.learner = job[p].learner, !.pending = {}])
  /\ Resolve(job[p].case, "scheduled", "executed")
  /\ job' = [job EXCEPT ![p] = [Idle EXCEPT !.at = "renew", !.sub = job[p].sub]]
  /\ UNCHANGED <<unpaid, revived, overlapped>>

\* The UPDATE names the boundary, and not the status.
RenewCommit(p) ==
  /\ At(p, "renew")
  /\ \E s \in job[p].sub :
       /\ p \in unpaid[s]
       /\ Update(s, [sub[s] EXCEPT !.status = "active"])
       /\ unpaid' = [unpaid EXCEPT ![s] = {}]
       /\ revived' = IF sub[s].status = "expired" THEN revived \cup {s} ELSE revived
  /\ job' = [job EXCEPT ![p] = Idle]
  /\ UNCHANGED <<case, overlapped>>

\* A request is refused, throws, loses or dies.
Abandon(p) ==
  /\ ~At(p, "idle")
  /\ Leave(p)
  /\ UNCHANGED <<sub, case, revived, overlapped>>

Init ==
  /\ sub = [s \in Subscriptions |-> [status |-> "none", learner |-> {}, pending |-> {}]]
  /\ case = [c \in Cases |-> [status |-> "none", sub |-> {}, source |-> {}, target |-> {}]]
  /\ unmoved = [s \in Subscriptions |-> {}] /\ unpaid = [s \in Subscriptions |-> {}]
  /\ revived = {} /\ overlapped = FALSE
  /\ job = [p \in Procs |-> Idle]

Next ==
  \/ \E p \in Procs :
       \/ CheckoutRead(p) \/ CheckoutCommit(p) \/ ActivateRead(p) \/ ActivateCommit(p)
       \/ RequestCase(p) \/ CreateCase(p) \/ ExecuteRead(p) \/ ExecuteCommit(p)
       \/ RenewRead(p) \/ MoveRead(p) \/ MoveCommit(p) \/ RenewCommit(p) \/ Abandon(p)
  \/ \E s \in Subscriptions : Ages(s)

Spec == Init /\ [][Next]_vars

-----------------------------------------------------------------------------
(* Properties *)

TypeOK ==
  /\ sub \in [Subscriptions -> Row] /\ case \in [Cases -> Case]
  /\ unmoved \in [Subscriptions -> SUBSET Procs] /\ unpaid \in [Subscriptions -> SUBSET Procs]
  /\ revived \subseteq Subscriptions /\ overlapped \in BOOLEAN
  /\ job \in [Procs -> Job]

\* Requests that follow each other never leave a learner with two live subscriptions of one
\* app, whatever was pending for him when he was given one of his own: the only exception
\* is a subscription that had lapsed and that a late payment event brings back.
OneSubscriptionPerLearner ==
  ~overlapped =>
    \A l \in Learners :
      Cardinality({s \in Subscriptions \ revived : sub[s].status \in Live /\ sub[s].learner = {l}}) <= 1

\* A subscription waits for a learner exactly while one scheduled case says so, however the
\* requests and the renewals overlap: without its case every later renewal is rejected.
PendingIsScheduled ==
  \A s \in Subscriptions :
    LET scheduled == {c \in Cases : case[c].status = "scheduled" /\ case[c].sub = {s}} IN
    /\ Cardinality(scheduled) <= 1
    /\ sub[s].pending = UNION {case[c].target : c \in scheduled}
===============================================================================
