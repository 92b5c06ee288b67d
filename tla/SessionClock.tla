----------------------------- MODULE SessionClock -----------------------------
(****************************************************************************)
(* The accounting of time of one launched session: how long its app was     *)
(* connected, how long the learner was away, and the engaged seconds that    *)
(* analytics receives of it.  Time 0 is the usable launch.                   *)
(*                                                                          *)
(* disconnectLearnerSession and resumeLearnerSession read the row, compute,  *)
(* and write the result back by id alone; finalizeCore and                   *)
(* markSessionResumable guard their UPDATE by the status.  Contributions are *)
(* applied after the transaction that made them, and a request may die in    *)
(* between.  Each request carries the server's time of its arrival.          *)
(****************************************************************************)
EXTENDS Naturals, FiniteSets

CONSTANTS
  Procs,          \* requests served at once
  MaxConnected,   \* maximum_connected_seconds                (2700 in the code)
  Window,         \* total seconds a learner may be away       (900 in the code)
  HardExpiry,     \* hard_expires_at, after the launch        (3600 in the code)
  Reports,        \* the connected seconds an app may report
  MaxTime,        \* bound: the clock stops here
  MaxEpisodes     \* bound: interruption episodes

ASSUME ClockAssumption ==
  /\ {MaxConnected, Window, HardExpiry, MaxTime, MaxEpisodes} \subseteq Nat \ {0}
  /\ Reports \subseteq Nat

VARIABLES
  now,        \* the server's clock
  row,        \* the session's row in learner_sessions
  engaged,    \* engaged_seconds of the session in analytics_daily_buffer
  receipts,   \* analytics_contribution_receipts of the session
  away,       \* the time it spent disconnected with no request under way, as long as no
              \* requests overlap (history)
  overlapped, \* a request has arrived while another was served (history)
  work        \* the request each process serves

history == <<away, overlapped>>
vars == <<now, row, engaged, receipts, history, work>>

Times    == 0 .. MaxTime
Open     == {"active", "disconnected", "resumable"}
Statuses == Open \cup {"completed", "interrupted"}
\* The ids of contributions: of an interruption episode, of the time limit, of the end.
Ids == {<<"disconnected", n>> : n \in 1 .. MaxEpisodes} \cup {<<"limit", 0>>, <<"end", 0>>}
Row == [status : Statuses, connected : 0 .. MaxConnected, absent : 0 .. Window,
        left : Times, deadline : Nat, episodes : 0 .. MaxEpisodes]
Ops == {"idle", "disconnect", "limit", "resume", "interrupt", "mark", "finalize", "sweep",
        "apply", "applyThenEnd", "endByLimit"}
Work == [op : Ops, at : Times, saw : Row, reported : Nat, id : Ids, delta : Times]

Least(a, b) == IF a <= b THEN a ELSE b
Most(a, b)  == IF a >= b THEN a ELSE b

FreshRow == [status |-> "active", connected |-> 0, absent |-> 0, left |-> 0,
             deadline |-> 0, episodes |-> 0]
Idle == [op |-> "idle", at |-> 0, saw |-> FreshRow, reported |-> 0,
         id |-> <<"end", 0>>, delta |-> 0]

Busy(p, op) == work[p].op = op
Done(p)     == work' = [work EXCEPT ![p] = Idle]

\* The requests that write what they computed from the row and the time they noted.
Computing == {"disconnect", "limit", "resume", "finalize"}
\* A request arrives: it notes the time, the row and what the app reports.
Arrive(p, op, reported) ==
  /\ Busy(p, "idle")
  /\ work' = [work EXCEPT ![p] =
       IF op \in Computing
       THEN [Idle EXCEPT !.op = op, !.at = now, !.saw = row, !.reported = reported]
       ELSE [Idle EXCEPT !.op = op, !.saw.status = row.status]]
  /\ overlapped' = (overlapped \/ \E q \in Procs : ~Busy(q, "idle"))
  /\ away' = IF overlapped' THEN 0 ELSE away
  /\ UNCHANGED <<now, row, engaged, receipts>>

\* After its transaction a request applies the contribution it made, and then ends or
\* goes on to finalize.
Contribute(p, next, id, delta) ==
  work' = [work EXCEPT ![p] = [Idle EXCEPT !.op = next, !.id = id, !.delta = delta,
                                           !.at = IF next = "apply" THEN 0 ELSE work[p].at]]

-----------------------------------------------------------------------------
(* The arithmetic. *)

\* mutant: the report is believed
\* acceptConnectedSeconds: the report, capped by the maximum and by the wall clock, and
\* never less than what was accepted before.
Accepted(r, reported, at) ==
  Most(r.connected, Least(reported, Least(MaxConnected, at)))

\* mutant: the final report replaces what was accepted before
\* acceptFinalConnectedSeconds: an interrupted session keeps what it had.
FinallyAccepted(r, reported, at) ==
  IF r.status = "active" THEN Accepted(r, reported, at) ELSE r.connected

\* mutant: only the current interruption is counted
AwayThisTime(r, at) == IF r.status = "resumable" THEN r.absent ELSE at - r.left
\* The seconds away, up to a resume at this time.
AwaySoFar(r, at) == IF r.status = "resumable" THEN r.absent ELSE r.absent + (at - r.left)

\* mutant: the deadline alone decides
PastDeadline(r, at) == at >= HardExpiry \/ (r.status = "disconnected" /\ at > r.deadline)
Overdue(r, at) ==
  \/ at >= HardExpiry
  \/ r.status = "disconnected" /\ (at > r.deadline \/ AwaySoFar(r, at) > Window)

\* mutant: what is contributed is the running total
TotalEngaged(r, accepted) == accepted
\* The engaged seconds a request contributes: what it adds to the row it read.
NewlyEngaged(r, accepted) == accepted - r.connected

-----------------------------------------------------------------------------
(* The handlers. *)

DisconnectRead(p) ==
  /\ row.status = "active"
  /\ row.episodes < MaxEpisodes
  /\ \E reported \in Reports :
       Arrive(p, IF Accepted(row, reported, now) >= MaxConnected THEN "limit"
                                                                  ELSE "disconnect", reported)

DisconnectCommit(p) ==
  LET w        == work[p]
      accepted == Accepted(w.saw, w.reported, w.at)
  IN
  /\ Busy(p, "disconnect")
  /\ row.episodes < MaxEpisodes
  /\ row' = [row EXCEPT !.status = "disconnected", !.left = w.at, !.connected = accepted,
                        !.deadline = Least(w.at + (Window - w.saw.absent), HardExpiry),
                        !.episodes = @ + 1]
  /\ Contribute(p, "apply", <<"disconnected", row.episodes + 1>>,
                NewlyEngaged(w.saw, accepted))
  /\ UNCHANGED <<now, engaged, receipts, history>>

\* The connected time is used up: the row is written, and finalized after the commit.
LimitCommit(p) ==
  LET w        == work[p]
      accepted == Accepted(w.saw, w.reported, w.at)
  IN
  /\ Busy(p, "limit")
  /\ row' = [row EXCEPT !.connected = accepted]
  /\ Contribute(p, "applyThenEnd", <<"limit", 0>>, NewlyEngaged(w.saw, accepted))
  /\ UNCHANGED <<now, engaged, receipts, history>>

\* applyDailyContribution: a receipt makes a second application a no-op.
Apply(p) ==
  LET w == work[p] IN
  /\ w.op \in {"apply", "applyThenEnd"}
  /\ engaged' = IF w.id \in receipts THEN engaged ELSE engaged + w.delta
  /\ receipts' = receipts \cup {w.id}
  /\ UNCHANGED <<now, row, history>>
  /\ IF w.op = "apply" THEN Done(p)
     ELSE work' = [work EXCEPT ![p] = [Idle EXCEPT !.op = "endByLimit", !.at = w.at]]

ResumeRead(p) ==
  /\ row.status \in {"disconnected", "resumable"}
  /\ Arrive(p, IF Overdue(row, now) THEN "interrupt" ELSE "resume", 0)

ResumeCommit(p) ==
  LET w == work[p] IN
  /\ Busy(p, "resume")
  /\ row' = [row EXCEPT !.status = "active", !.absent = AwaySoFar(w.saw, w.at)]
  /\ Done(p)
  /\ UNCHANGED <<now, engaged, receipts, history>>

InterruptCommit(p) ==
  /\ Busy(p, "interrupt")
  /\ row' = [row EXCEPT !.status = "interrupted"]
  /\ Done(p)
  /\ UNCHANGED <<now, engaged, receipts, history>>

\* markSessionResumable: the time away is no longer counted.
MarkRead(p) ==
  /\ row.status = "active" /\ now < HardExpiry
  /\ Arrive(p, "mark", 0)

MarkCommit(p) ==
  /\ Busy(p, "mark")
  /\ row' = IF row.status = "active" THEN [row EXCEPT !.status = "resumable"] ELSE row
  /\ Done(p)
  /\ UNCHANGED <<now, engaged, receipts, history>>

\* finalizeLearnerSession.
FinalizeRead(p) ==
  /\ row.status \in Open
  /\ \E reported \in Reports : Arrive(p, "finalize", reported)

\* finalizeSessionAutomatically, with what it reads of the row.
EndByLimitRead(p) ==
  /\ Busy(p, "endByLimit")
  /\ IF row.status \notin Open THEN Done(p)
     ELSE work' = [work EXCEPT ![p].op = "finalize", ![p].saw = row,
                               ![p].reported = row.connected]
  /\ UNCHANGED <<now, row, engaged, receipts, history>>

FinalizeCommit(p) ==
  LET w        == work[p]
      accepted == FinallyAccepted(w.saw, w.reported, w.at)
  IN
  /\ Busy(p, "finalize")
  /\ row' = IF row.status \in Open
            THEN [row EXCEPT !.status = "completed", !.connected = accepted] ELSE row
  /\ Contribute(p, "apply", <<"end", 0>>, NewlyEngaged(w.saw, accepted))
  /\ UNCHANGED <<now, engaged, receipts, history>>

\* sweepExpiredLearnerSessions.
SweepRead(p) ==
  /\ \/ row.status = "disconnected" /\ row.deadline < now
     \/ row.status \in Open /\ HardExpiry <= now
  /\ Arrive(p, "sweep", 0)

SweepCommit(p) ==
  /\ Busy(p, "sweep")
  /\ row.episodes < MaxEpisodes
  /\ row' = IF row.status \in Open
            THEN [row EXCEPT !.status = "interrupted",
                             !.episodes = @ + (IF work[p].saw.status = "active" THEN 1 ELSE 0)]
            ELSE row
  /\ Done(p)
  /\ UNCHANGED <<now, engaged, receipts, history>>

\* A request dies: what it committed stays, its contribution is lost.
Abandon(p) ==
  /\ ~Busy(p, "idle")
  /\ Done(p)
  /\ UNCHANGED <<now, row, engaged, receipts, history>>

Tick ==
  /\ now < MaxTime
  /\ now' = now + 1
  /\ away' = IF row.status = "disconnected" /\ ~overlapped /\ \A p \in Procs : Busy(p, "idle")
             THEN away + 1 ELSE away
  /\ UNCHANGED <<row, engaged, receipts, overlapped, work>>

Init ==
  /\ now = 0 /\ row = FreshRow
  /\ engaged = 0 /\ receipts = {} /\ away = 0 /\ overlapped = FALSE
  /\ work = [p \in Procs |-> Idle]

Handler(p) ==
  \/ DisconnectRead(p) \/ DisconnectCommit(p) \/ LimitCommit(p) \/ Apply(p)
  \/ ResumeRead(p)     \/ ResumeCommit(p)     \/ InterruptCommit(p)
  \/ MarkRead(p)       \/ MarkCommit(p)
  \/ FinalizeRead(p)   \/ EndByLimitRead(p)  \/ FinalizeCommit(p)
  \/ SweepRead(p)      \/ SweepCommit(p)

Next == (\E p \in Procs : Handler(p) \/ Abandon(p)) \/ Tick

Spec == Init /\ [][Next]_vars

-----------------------------------------------------------------------------
(* Properties *)

TypeOK ==
  /\ now \in Times
  /\ row \in Row
  /\ engaged \in Nat
  /\ receipts \subseteq Ids
  /\ away \in Times /\ overlapped \in BOOLEAN
  /\ work \in [Procs -> Work]

\* A session is never credited with more connected time than the clock has measured,
\* however many requests report it and in whatever order they are committed; and analytics
\* never receives more engaged time of it than that, crashes included: a request contributes
\* what it added, and "a receipt row makes re-applying the same id a no-op so retries never
\* double count".  A learner who is learning was away for at most the window in all, over any
\* number of interruptions, and the row accounts for all of it.  Two overlapping disconnects
\* do count the same seconds twice, under two episode numbers, and each adds to what it read.
CountedTimeIsReal ==
  /\ row.connected <= now
  /\ ~overlapped => /\ engaged <= row.connected
                    /\ row.status = "active" => away <= row.absent /\ row.absent <= Window
============================================================================
