------------------------------ MODULE Deployment ------------------------------
(****************************************************************************)
(* Production deployments of one app: a release is staged, a window is       *)
(* scheduled for it, the sweep or an administrator promotes it, its safety   *)
(* is observed, and a failing one is rolled back.                           *)
(*                                                                          *)
(* A promotion and a rollback call the provider between two transactions.    *)
(* What serialises them is a row of deployment_operation_requests that one   *)
(* transaction looks for and then inserts.  Every such row outlives the      *)
(* process that inserted it.                                                *)
(****************************************************************************)
EXTENDS Naturals, FiniteSets

CONSTANTS
  Releases,        \* releases of the app, whose gates passed
  Windows,         \* ids of app_deployment_windows
  AdminKeys,       \* idempotency keys of the administrators' requests
  Procs,           \* requests and sweeps at work at once
  MaxDeployments   \* bound: production deployments

VARIABLES
  release,   \* status of the releases
  window,    \* app_deployment_windows: status, release, and where now is in it
  unmoved,   \* the sweeps that have read the version a window still has
  pub,       \* app_environment_publications: the two pointers, sets of at most one
  dep,       \* production rows of app_deployments: status, and the window they came by
  drain,     \* app_deployment_launch_controls: the window whose times a deployment carries
  obs,       \* status in app_deployment_safety_observations
  op,        \* deployment_operation_requests: "approve" and "rollback" are processing ones
  told,      \* the deployments whose last alert is of an automated rollback that was triggered
  calm,      \* no request began or staged on what another had changed (history)
  job        \* what each process is doing

vars == <<release, window, unmoved, pub, dep, drain, obs, op, told, calm, job>>
published == <<pub, dep, drain, obs>>

Deployments == 1 .. MaxDeployments
Keys == ({"window"} \X Windows) \cup ({"safety"} \X Deployments) \cup ({"admin"} \X AdminKeys)
Due  == {"scheduled", "draining", "executing", "extended_safe_block"}
Steps == {"idle", "staging", "sweep", "approve", "clear", "promoting", "failing",
          "observe", "rollback", "rollbackClear", "restoring"}
Job  == [at : Steps, release : SUBSET Releases, window : SUBSET Windows,
         deployment : SUBSET Deployments, target : SUBSET Deployments, key : SUBSET Keys]
Idle == [at |-> "idle", release |-> {}, window |-> {},
         deployment |-> {}, target |-> {}, key |-> {}]

At(p, step)  == job[p].at = step
Go(p, step)  == job' = [job EXCEPT ![p].at = step]
Done(p)      == job' = [job EXCEPT ![p] = Idle]
Begin(p, j)  == At(p, "idle") /\ job' = [job EXCEPT ![p] = j]
Automatic(k) == k[1] # "admin"

\* A window's row is written: whoever has read it has read an old version.
Write(w, status) ==
  /\ window' = [window EXCEPT ![w].status = status]
  /\ unmoved' = [unmoved EXCEPT ![w] = {}]

-----------------------------------------------------------------------------
(* Releases: created by CI, and staged, which nothing serialises and whose last write *)
(* is by id alone: it takes back whatever the release has become meanwhile.           *)

CreateRelease(r) ==
  /\ release[r] = "none"
  /\ \E status \in {"created", "gate_failed"} : release' = [release EXCEPT ![r] = status]
  /\ UNCHANGED <<window, unmoved, published, op, told, calm, job>>

Unstaged == {"created", "staging_failed"}

StagingRead(p) ==
  /\ \E r \in Releases : /\ release[r] \in Unstaged
                         /\ Begin(p, [Idle EXCEPT !.at = "staging", !.release = {r}])
  /\ UNCHANGED <<release, window, unmoved, published, op, told, calm>>

StagingCommit(p) ==
  /\ At(p, "staging")
  /\ \E r \in job[p].release, outcome \in {"verified", "staging_failed"} :
       /\ release' = [release EXCEPT ![r] = outcome]
       /\ calm' = (calm /\ release[r] \in Unstaged)
  /\ Done(p)
  /\ UNCHANGED <<window, unmoved, published, op, told>>

-----------------------------------------------------------------------------
(* Windows.  Their times are projected onto the launch controls of the deployment *)
(* that is current when they are written.                                         *)

Project(W) == drain' = [d \in Deployments |-> IF d \in pub.current THEN W ELSE drain[d]]

ScheduleWindow(w, r) ==
  /\ window[w].status = "none"
  /\ release[r] = "verified"
  /\ \A v \in Windows : window[v].status \notin Due
  /\ window' = [window EXCEPT ![w] = [status |-> "scheduled", release |-> {r}, phase |-> "ahead"]]
  /\ Project({w})
  /\ UNCHANGED <<release, unmoved, pub, dep, obs, op, told, calm, job>>

RescheduleWindow(w) ==
  /\ window[w].status = "scheduled"
  /\ window' = [window EXCEPT ![w].phase = "ahead"]
  /\ unmoved' = [unmoved EXCEPT ![w] = {}]
  /\ Project({w})
  /\ UNCHANGED <<release, pub, dep, obs, op, told, calm, job>>

CancelWindow(w) ==
  /\ window[w].status \in {"scheduled", "draining"}
  /\ Write(w, "cancelled")
  /\ Project({})
  /\ UNCHANGED <<release, pub, dep, obs, op, told, calm, job>>

\* starts_at passes, and then ends_at.
TimePasses(w) ==
  /\ window[w].status \in Due /\ window[w].phase # "over"
  /\ window' = [window EXCEPT ![w].phase = IF @ = "ahead" THEN "open" ELSE "over"]
  /\ UNCHANGED <<release, unmoved, published, op, told, calm, job>>

\* sweepDeploymentWindows reads the windows that are due, one after the other ...
SweepRead(p) ==
  /\ \E w \in Windows :
       /\ window[w].status \in Due /\ window[w].phase # "ahead"
       /\ Begin(p, [Idle EXCEPT !.at = "sweep", !.window = {w}])
       /\ unmoved' = [unmoved EXCEPT ![w] = @ \cup {p}]
  /\ UNCHANGED <<release, window, published, op, told, calm>>

\* Whether ends_at had passed when the sweep began; it may have passed since.
Overrun(w) == IF window[w].phase = "over" THEN BOOLEAN ELSE {FALSE}

\* ... and postpones while production sessions are reserved, or goes on to promote, whether
\* its guarded update found the row or not.
SweepDecide(p) ==
  /\ At(p, "sweep")
  /\ \E w \in job[p].window, reserved \in BOOLEAN : \E overrun \in Overrun(w) :
       /\ IF p \in unmoved[w]
          THEN Write(w, IF ~reserved THEN "executing"
                        ELSE IF overrun THEN "extended_safe_block" ELSE "draining")
          ELSE UNCHANGED <<window, unmoved>>
       /\ IF reserved THEN Done(p)
          ELSE job' = [job EXCEPT ![p].at = "approve", ![p].key = {<<"window", w>>}]
  /\ UNCHANGED <<release, published, op, told, calm>>

\* What the sweep writes, by id alone, when the promotion throws.
SweepFails(p) ==
  /\ At(p, "failing")
  /\ IF \E k \in job[p].key : Automatic(k)
     THEN \E w \in job[p].window : \E overrun \in Overrun(w) :
            Write(w, IF overrun THEN "extended_safe_block" ELSE "failed")
     ELSE UNCHANGED <<window, unmoved>>
  /\ Done(p)
  /\ UNCHANGED <<release, published, op, told, calm>>

-----------------------------------------------------------------------------
(* approveProduction, by the sweep or by an administrator. *)

\* The operations of the app that are processing, of the named kinds.
InFlight(kinds) == {k \in Keys : op[k] \in kinds}

Ready(w) == window[w].status \in {"scheduled", "executing"} /\ window[w].phase # "ahead"
Promotable(w) == Ready(w) /\ \A r \in window[w].release : release[r] = "verified"

ApproveRequest(p) ==
  /\ \E w \in Windows, k \in AdminKeys :
       /\ window[w].status # "none"
       /\ Begin(p, [Idle EXCEPT !.at = "approve", !.window = {w}, !.key = {<<"admin", k>>}])
  /\ UNCHANGED <<release, window, unmoved, published, op, told, calm>>

\* The checks before the operation: what is promoted, or answered already, is answered again.
\* The look for operations in flight is the last of them; what happens between two checks
\* can as well happen between the look and the insert.
ApproveCheck(p) ==
  /\ At(p, "approve")
  /\ \E w \in job[p].window, k \in job[p].key :
       CASE ~Ready(w) -> Go(p, "failing")
         [] Ready(w) /\ \E r \in window[w].release : release[r] = "promoted" -> Done(p)
         [] Promotable(w) /\ op[k] = "completed" -> Done(p)
         [] Promotable(w) /\ op[k] = "none" /\ InFlight({"approve"}) = {} -> Go(p, "clear")
         [] OTHER -> Go(p, "failing")
  /\ UNCHANGED <<release, window, unmoved, published, op, told, calm>>

\* The app is not active, its binding not verified, or a learner's progress not readable.
ApproveRefused(p) ==
  /\ At(p, "approve") /\ Go(p, "failing")
  /\ UNCHANGED <<release, window, unmoved, published, op, told, calm>>

ApproveBegin(p) ==
  /\ At(p, "clear")
  /\ \E w \in job[p].window, k \in job[p].key :
       IF op[k] # "none" THEN Go(p, "failing") /\ UNCHANGED <<op, calm>>
       ELSE /\ op' = [op EXCEPT ![k] = "approve"]
            /\ calm' = (calm /\ InFlight({"approve", "rollback"}) = {} /\ Promotable(w))
            /\ Go(p, "promoting")
  /\ UNCHANGED <<release, window, unmoved, published, told>>

\* The provider did not promote, or the result is not fit: the publication stays.
PromotionFails(p) ==
  /\ At(p, "promoting")
  /\ \E k \in job[p].key : op' = [op EXCEPT ![k] = "completed"]
  /\ Go(p, "failing")
  /\ UNCHANGED <<release, window, unmoved, published, told, calm>>

Unused == {d \in Deployments : dep[d].status = "none"}
Retired(d)    == IF d \in pub.current THEN "retired" ELSE dep[d].status \* mutant: its control's status
Superseded(d) == IF d \in pub.current THEN "superseded" ELSE dep[d].status

PromotionCommits(p) ==
  /\ At(p, "promoting")
  /\ \E w \in job[p].window, k \in job[p].key, d \in Unused :
       /\ \A e \in Unused : d <= e
       /\ dep' = [e \in Deployments |-> IF e = d THEN [status |-> "published", window |-> {w}]
                                        ELSE [dep[e] EXCEPT !.status = Superseded(e)]]
       /\ Project({})
       /\ pub' = [current |-> {d}, previous |-> pub.current]
       /\ release' = [r \in Releases |-> IF r \in window[w].release THEN "promoted" ELSE release[r]]
       /\ obs' = [obs EXCEPT ![d] = "observing"]
       /\ Write(w, "completed")
       /\ op' = [op EXCEPT ![k] = "completed"]
  /\ Done(p)
  /\ UNCHANGED <<told, calm>>

-----------------------------------------------------------------------------
(* The safety observation and rollbackProduction. *)

ObserveRead(p) ==
  /\ \E d \in Deployments : /\ obs[d] = "observing"
                            /\ Begin(p, [Idle EXCEPT !.at = "observe", !.deployment = {d}])
  /\ UNCHANGED <<release, window, unmoved, published, op, told, calm>>

\* Not critical: the status is written over whatever it is by now.
ObserveFine(p) ==
  /\ At(p, "observe")
  /\ \E d \in job[p].deployment, status \in {"observing", "passed"} :
       obs' = [obs EXCEPT ![d] = status]
  /\ Done(p)
  /\ UNCHANGED <<release, window, unmoved, pub, dep, drain, op, told, calm>>

\* An identity failure, or the third failure in a row.
ObserveCritical(p) ==
  /\ At(p, "observe")
  /\ job' = [job EXCEPT ![p].at = "rollback", ![p].key = {"safety"} \X job[p].deployment]
  /\ UNCHANGED <<release, window, unmoved, published, op, told, calm>>

RollbackRequest(p) ==
  /\ \E d \in pub.current, k \in AdminKeys :
       Begin(p, [Idle EXCEPT !.at = "rollback", !.deployment = {d}, !.key = {<<"admin", k>>}])
  /\ UNCHANGED <<release, window, unmoved, published, op, told, calm>>

\* The observation reports what came of its rollback.
Report(p, alert) ==
  LET about == {d \in Deployments : <<"safety", d>> \in job[p].key} IN
  told' = IF alert = "triggered" THEN told \cup about ELSE told \ about

Restorable(p) == pub.current = job[p].deployment /\ pub.previous # {}

\* A key that is answered is answered again, with whatever its first attempt came to.
RollbackCheck(p) ==
  /\ At(p, "rollback")
  /\ \E k \in job[p].key :
       CASE Restorable(p) /\ op[k] = "completed" -> Done(p) /\ Report(p, "triggered")
         [] Restorable(p) /\ op[k] = "none" /\ InFlight({"approve", "rollback"}) = {}
              -> /\ job' = [job EXCEPT ![p].at = "rollbackClear", ![p].target = pub.previous]
                 /\ UNCHANGED told
         [] OTHER -> Done(p) /\ Report(p, "failed")
  /\ UNCHANGED <<release, window, unmoved, published, op, calm>>

RollbackBegin(p) ==
  /\ At(p, "rollbackClear")
  /\ \E k \in job[p].key :
       IF op[k] # "none" THEN Done(p) /\ Report(p, "failed") /\ UNCHANGED <<op, calm>>
       ELSE /\ op' = [op EXCEPT ![k] = "rollback"]
            /\ calm' = (calm /\ InFlight({"approve", "rollback"}) = {}
                             /\ pub = [current |-> job[p].deployment, previous |-> job[p].target])
            /\ Go(p, "restoring")
            /\ UNCHANGED told
  /\ UNCHANGED <<release, window, unmoved, published>>

RollbackFails(p) ==
  /\ At(p, "restoring")
  /\ \E k \in job[p].key : op' = [op EXCEPT ![k] = "completed"]
  /\ Done(p) /\ Report(p, "failed")
  /\ UNCHANGED <<release, window, unmoved, published, calm>>

\* mutant: the pointers are swapped
Swapped(deployment, target)  == [current |-> target, previous |-> deployment]
\* Nothing further back is tracked.
Restored(deployment, target) == [current |-> target, previous |-> {}]

RollbackCommits(p) ==
  LET from == job[p].deployment  to == job[p].target IN
  /\ At(p, "restoring")
  /\ dep' = [d \in Deployments |->
              [dep[d] EXCEPT !.status = IF d \in from THEN "rolled_back"
                                        ELSE IF d \in to THEN "published" ELSE @]]
  /\ pub' = Restored(from, to)
  /\ drain' = [d \in Deployments |-> IF d \in from \cup to THEN {} ELSE drain[d]]
  /\ obs' = [d \in Deployments |-> IF d \in from THEN "rollback_triggered" ELSE obs[d]]
  /\ \E k \in job[p].key : op' = [op EXCEPT ![k] = "completed"]
  /\ Done(p) /\ Report(p, "triggered")
  /\ UNCHANGED <<release, window, unmoved, calm>>

-----------------------------------------------------------------------------
\* purgeDeploymentArtifacts forgets answered operations, and only those, after a day: no
\* process has one of them under way.
PurgeOperation(k) ==
  /\ op[k] = "completed" /\ \A p \in Procs : At(p, "idle")
  /\ op' = [op EXCEPT ![k] = "none"]
  /\ UNCHANGED <<release, window, unmoved, published, told, calm, job>>

\* The process dies; what it has inserted stays.
Abandon(p) ==
  /\ ~At(p, "idle")
  /\ Done(p)
  /\ UNCHANGED <<release, window, unmoved, published, op, told, calm>>

\* An app with one deployment or two, whose observations are over.
Init ==
  /\ release = [r \in Releases |-> "none"]
  /\ window = [w \in Windows |-> [status |-> "none", release |-> {}, phase |-> "ahead"]]
  /\ unmoved = [w \in Windows |-> {}]
  /\ \E n \in {1, 2} :
       /\ pub = [current |-> {n}, previous |-> {n - 1} \ {0}]
       /\ dep = [d \in Deployments |->
                   [status |-> IF d > n THEN "none" ELSE IF d = n THEN "published" ELSE "superseded",
                    window |-> {}]]
       /\ obs = [d \in Deployments |-> IF d <= n THEN "passed" ELSE "none"]
  /\ drain = [d \in Deployments |-> {}]
  /\ op = [k \in Keys |-> "none"]
  /\ told = {} /\ calm = TRUE
  /\ job = [p \in Procs |-> Idle]

Approve(p) ==
  \/ ApproveRequest(p) \/ ApproveCheck(p) \/ ApproveRefused(p)
  \/ ApproveBegin(p)   \/ PromotionFails(p) \/ PromotionCommits(p)
Rollback(p) ==
  \/ RollbackRequest(p) \/ RollbackCheck(p) \/ RollbackBegin(p)
  \/ RollbackFails(p)   \/ RollbackCommits(p)
Work(p) ==
  \/ StagingRead(p) \/ StagingCommit(p) \/ SweepRead(p) \/ SweepDecide(p) \/ SweepFails(p)
  \/ Approve(p)     \/ Rollback(p)
  \/ ObserveRead(p) \/ ObserveFine(p)   \/ ObserveCritical(p) \/ Abandon(p)

Next ==
  \/ \E p \in Procs : Work(p)
  \/ \E w \in Windows : TimePasses(w) \/ RescheduleWindow(w) \/ CancelWindow(w)
  \/ \E w \in Windows, r \in Releases : ScheduleWindow(w, r)
  \/ \E r \in Releases : CreateRelease(r)
  \/ \E k \in Keys : PurgeOperation(k)

Spec == Init /\ [][Next]_vars

-----------------------------------------------------------------------------
(* Properties *)

TypeOK ==
  /\ release \in [Releases -> {"none", "created", "gate_failed", "verified", "staging_failed",
                            "promoted"}]
  /\ window \in [Windows -> [status : Due \cup {"none", "completed", "cancelled", "failed"},
                             release : SUBSET Releases, phase : {"ahead", "open", "over"}]]
  /\ unmoved \in [Windows -> SUBSET Procs]
  /\ pub \in [current : SUBSET Deployments, previous : SUBSET Deployments]
  /\ dep \in [Deployments -> [status : {"none", "published", "superseded", "rolled_back"},
                              window : SUBSET Windows]]
  /\ drain \in [Deployments -> SUBSET Windows]
  /\ obs \in [Deployments -> {"none", "observing", "passed", "rollback_triggered"}]
  /\ op \in [Keys -> {"none", "approve", "rollback", "completed"}]
  /\ told \subseteq Deployments /\ calm \in BOOLEAN
  /\ job \in [Procs -> Job]

\* The publication names the one published deployment, and as the one to go back to only
\* one that was superseded; only the deployment it names carries the times of a window.
\* This holds as long as no operation begins while another is processing (the look-up and
\* the insert are two statements, and a promotion does not look for rollbacks) or on a
\* publication that moved after it was read, and no staging ends on a release that another
\* request has staged or promoted meanwhile.
PublicationIsConsistent ==
  calm =>
    /\ {d \in Deployments : dep[d].status = "published"} = pub.current
    /\ \A d \in pub.previous : dep[d].status = "superseded"
    /\ \A d \in Deployments : drain[d] # {} => d \in pub.current

\* "The window is a one-shot approval target": a window promotes once, by the sweep or by
\* an administrator, over retries, failed attempts and restarts (with the same exception).
WindowsPromoteOnce ==
  calm => \A w \in Windows : Cardinality({d \in Deployments : w \in dep[d].window}) <= 1

\* Administrators who are told that an automated rollback was triggered can rely on it:
\* the deployment is no longer the published one.
RollbackToldIsDone == told \cap pub.current = {}
===============================================================================
