--------------------------------- MODULE DailyRun ----------------------------------
(****************************************************************************)
(* The anonymous daily figures of one calendar date: contributions into the  *)
(* date's buffer, each with a receipt, and the run that reads the buffer,    *)
(* replaces the date's aggregates and then deletes buffer and receipts.  The *)
(* run's row is the only lock; scheduler and administrators call it as often *)
(* as they like, and a process may die after any statement.                 *)
(****************************************************************************)
EXTENDS Naturals, FiniteSets

CONSTANTS Contributions,  \* contribution ids of the date
          Procs,          \* processes of the server
          MaxFailures     \* bound: failed runs of the date

VARIABLES
  run,       \* the date's row of analytics_daily_runs
  buffer,    \* how often the buffer's rows contain a contribution
  receipts,  \* analytics_contribution_receipts of the date
  counted,   \* how often the committed aggregates contain a contribution
  work,      \* what a process is about to do, and has read
  applied,   \* contributions that have ever been answered "applied"
  inTime,    \* those of them before the latest read of the buffer
  heard      \* no commit of a run succeeded without its process hearing of it

vars == <<run, buffer, receipts, counted, work, applied, inTime, heard>>

Statuses == {"none", "running", "completed", "failed"}
Counts == [Contributions -> Nat]
Idle == [at |-> "idle"]

TypeOK ==
  /\ run \in [status : Statuses, version : Nat]
  /\ buffer \in Counts /\ counted \in Counts
  /\ receipts \subseteq Contributions /\ applied \subseteq Contributions /\ inTime \subseteq Contributions
  /\ work \in [Procs -> {Idle} \cup [at : {"applying"}, c : Contributions]
                         \cup [at : {"claimed", "unheard", "purging"}]
                         \cup [at : {"read"}, rows : Counts]]
  /\ heard \in BOOLEAN

Nothing == [c \in Contributions |-> 0]

Init ==
  /\ run = [status |-> "none", version |-> 0]
  /\ buffer = Nothing /\ counted = Nothing
  /\ receipts = {} /\ applied = {} /\ inTime = {}
  /\ work = [p \in Procs |-> Idle]
  /\ heard = TRUE

Goes(p, next) == work' = [work EXCEPT ![p] = next]

\* applyDailyContribution looks for the receipt first ...
BeginApply(p, c) ==
  /\ work[p] = Idle
  /\ c \notin receipts
  /\ Goes(p, [at |-> "applying", c |-> c])
  /\ UNCHANGED <<run, buffer, receipts, counted, applied, inTime, heard>>

\* Mutant: a receipt without a key.
NoReceipt(c) == TRUE
\* ... and its primary key refuses a second one, and with it the addition to the buffer.
ReceiptIsNew(c) == c \notin receipts
Apply(p) ==
  /\ work[p].at = "applying"
  /\ LET c == work[p].c
     IN IF ReceiptIsNew(c)
        THEN /\ receipts' = receipts \cup {c}
             /\ buffer' = [buffer EXCEPT ![c] = @ + 1]
             /\ applied' = applied \cup {c}
        ELSE UNCHANGED <<receipts, buffer, applied>>
  /\ Goes(p, Idle)
  /\ UNCHANGED <<run, counted, inTime, heard>>

\* Mutant: a completed date may be run again.
NotRunning(status) == status # "running"
\* A date without a row, or whose run failed, is claimed.
Claimable(status) == status \in {"none", "failed"}
Claim(p) ==
  /\ work[p] = Idle
  /\ Claimable(run.status)
  /\ run.version <= MaxFailures
  /\ run' = [status |-> "running", version |-> run.version + 1]
  /\ Goes(p, [at |-> "claimed"])
  /\ UNCHANGED <<buffer, receipts, counted, applied, inTime, heard>>

\* A call that finds the run completed has its purge to repeat; one that finds it running returns.
ClaimRefused(p) ==
  /\ work[p] = Idle
  /\ run.status = "completed"
  /\ Goes(p, [at |-> "purging"])
  /\ UNCHANGED <<run, buffer, receipts, counted, applied, inTime, heard>>

ReadBuffer(p) ==
  /\ work[p].at = "claimed"
  /\ Goes(p, [at |-> "read", rows |-> buffer])
  /\ inTime' = applied
  /\ UNCHANGED <<run, buffer, receipts, counted, applied, heard>>

\* Exact replacement; the process may lose the connection and take the commit for a failure.
CommitAggregates(p) ==
  /\ work[p].at = "read"
  /\ counted' = work[p].rows
  /\ run' = [run EXCEPT !.status = "completed"]
  /\ \E h \in BOOLEAN :
       /\ heard' = (heard /\ h)
       /\ Goes(p, [at |-> IF h THEN "purging" ELSE "unheard"])
  /\ UNCHANGED <<buffer, receipts, applied, inTime>>

\* A level that is unknown, totals that differ, a statement that fails: by the date alone.
MarkFailed(p) ==
  /\ work[p].at \in {"claimed", "read", "unheard"}
  /\ run' = [run EXCEPT !.status = "failed"]
  /\ Goes(p, Idle)
  /\ UNCHANGED <<buffer, receipts, counted, applied, inTime, heard>>

MayPurge(status) == status = "completed"
Purge(p) ==
  /\ work[p].at = "purging"
  /\ IF MayPurge(run.status)
     THEN buffer' = Nothing /\ receipts' = {}
     ELSE UNCHANGED <<buffer, receipts>>
  /\ Goes(p, Idle)
  /\ UNCHANGED <<run, counted, applied, inTime, heard>>

\* The process dies: a run it had claimed stays "running".
Abandon(p) ==
  /\ work[p] # Idle
  /\ Goes(p, Idle)
  /\ UNCHANGED <<run, buffer, receipts, counted, applied, inTime, heard>>

Step(p) ==
  \/ \E c \in Contributions : BeginApply(p, c)
  \/ Apply(p) \/ Claim(p) \/ ClaimRefused(p) \/ ReadBuffer(p)
  \/ CommitAggregates(p) \/ MarkFailed(p) \/ Purge(p) \/ Abandon(p)
Next == \E p \in Procs : Step(p)

Spec == Init /\ [][Next]_vars

(****************************************************************************)
(* The published figures of a date contain every contribution applied before *)
(* its run read the buffer exactly once, and no contribution twice, however  *)
(* often contributions are repeated, runs fail and are retried, purges are   *)
(* repeated and processes die, unless a commit went unheard.                *)
(****************************************************************************)
CountedExactlyOnce == heard /\ run.status = "completed" =>
  /\ \A c \in inTime : counted[c] = 1
  /\ \A c \in Contributions : counted[c] <= 1
===================================================================================
