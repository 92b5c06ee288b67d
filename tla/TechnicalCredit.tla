---------------------------- MODULE TechnicalCredit ----------------------------
(****************************************************************************)
(* Technical replacement credits of one learner and app: a credit is claimed *)
(* for a session that ended, reserved by a Start, consumed when that start   *)
(* is confirmed, restored when it is not, and expires a month after it was   *)
(* granted.                                                                  *)
(*                                                                          *)
(* As in LearningSession, a request reads and later commits.  The UPDATEs of *)
(* reserve, consume and restore name the credit by its id alone and write    *)
(* what the request had decided when it read the credit.                     *)
(****************************************************************************)
EXTENDS Naturals, FiniteSets

CONSTANTS
  Sessions,   \* learner_sessions that are funded by a technical credit
  Past,       \* sessions that credits can be claimed for
  Credits,    \* row ids of learner_session_credits
  Keys,       \* idempotency keys of claims
  Procs

VARIABLES
  session,    \* status of the sessions that use a credit
  funds,      \* session_credit_id: the credit the session is funded by, a set of one
  lapsed,     \* the reservations that have expired
  claimable,  \* past sessions that ended, at most seven days ago
  credit,     \* status of the credit
  source,     \* source_learner_session_id, a set of at most one
  holder,     \* reserved_session_id, a set of at most one
  due,        \* credits whose expires_at has passed
  receipt,    \* technical_credit_claim_requests: the credit each key was answered
  overlapped, \* a request has arrived while another was served (history)
  work        \* the request each process serves

creditVars  == <<credit, source, holder, receipt>>
sessionVars == <<session, funds>>
envVars     == <<lapsed, claimable, due>>
vars == <<sessionVars, creditVars, envVars, overlapped, work>>

Ops  == {"idle", "claim", "start", "confirm", "consume", "cancel", "release",
         "releaseCredit", "releaseRow"}
Work == [op : Ops, rows : SUBSET Sessions, prior : SUBSET Sessions, past : SUBSET Past,
         credit : SUBSET Credits, new : BOOLEAN, restores : SUBSET Credits, key : SUBSET Keys]
Idle == [op |-> "idle", rows |-> {}, prior |-> {}, past |-> {}, credit |-> {},
         new |-> FALSE, restores |-> {}, key |-> {}]

Busy(p, op) == work[p].op = op
Go(p, op)   == work' = [work EXCEPT ![p].op = op] /\ UNCHANGED overlapped
Done(p)     == work' = [work EXCEPT ![p] = Idle] /\ UNCHANGED overlapped

\* A request arrives and goes on to its transaction with what it has read.
Arrive(p, request) ==
  /\ Busy(p, "idle")
  /\ work' = [work EXCEPT ![p] = request]
  /\ overlapped' = (overlapped \/ \E q \in Procs : ~Busy(q, "idle"))
  /\ UNCHANGED <<sessionVars, creditVars, envVars>>

Live(s)     == session[s] \in {"starting", "active"}
OnlyLive(S) == \A s \in Sessions : Live(s) => s \in S /\ session[s] = "starting"

-----------------------------------------------------------------------------
(* What the statements do to the credits. *)

\* restoreTechnicalCredit, reading: only a credit reserved by the session is restored.
NeverRestores(s) == {}      \* mutant: the release forgets technical credits
Restores(s) == {c \in funds[s] : credit[c] = "reserved" /\ holder[c] = {s}}

\* ... and writing: available again, or expired when it is past its time.
Restored(R) == [c \in Credits |-> IF c \notin R THEN credit[c]
                                  ELSE IF c \in due THEN "expired" ELSE "available"]
StillHeld(R) == holder      \* mutant: reserved_session_id is not cleared
Unheld(R)   == [c \in Credits |-> IF c \in R THEN {} ELSE holder[c]]

\* expireTechnicalCredits, one conditional UPDATE.
Expired(cr) == [c \in Credits |->
                 IF c \in due /\ cr[c] \in {"available", "reserved"} THEN "expired" ELSE cr[c]]

\* mutant: the status of the credit is not asked
AnyStatus(c, cr) == cr[c] # "none"
\* reserveTechnicalCredit takes a credit that is available once the due ones are expired.
Reservable(c, cr) == Expired(cr)[c] = "available"

-----------------------------------------------------------------------------
(* Claims. *)

CreditOf(x) == {c \in Credits : source[c] = {x}}

\* claimTechnicalCredit: the session's credit if it has one, else a new one.
ClaimRead(p, k, x) ==
  /\ receipt[k] = {} /\ x \in claimable
  /\ \E c \in Credits :
       /\ IF CreditOf(x) # {} THEN c \in CreditOf(x)
          ELSE credit[c] = "none" /\ \A q \in Procs : c \notin work[q].credit
       /\ Arrive(p, [Idle EXCEPT !.op = "claim", !.key = {k}, !.past = {x},
                                 !.credit = {c}, !.new = (CreditOf(x) = {})])

\* unique(source_learner_session_id, credit_type) and the key's primary key.
OneForSource(w) == w.new => \A x \in w.past : CreditOf(x) = {}
KeyIsNew(w) == \A k \in w.key : receipt[k] = {}

ClaimCommit(p) ==
  LET w == work[p] IN
  /\ Busy(p, "claim")
  /\ IF OneForSource(w) /\ KeyIsNew(w)
     THEN /\ credit' = [c \in Credits |-> IF w.new /\ c \in w.credit THEN "available"
                                                                     ELSE credit[c]]
          /\ source' = [c \in Credits |-> IF c \in w.credit THEN w.past ELSE source[c]]
          /\ receipt' = [k \in Keys |-> IF k \in w.key THEN w.credit ELSE receipt[k]]
          /\ UNCHANGED holder
     ELSE UNCHANGED creditVars
  /\ Done(p)
  /\ UNCHANGED <<sessionVars, envVars>>

\* expireTechnicalCredits, as the learner home and the parent's list call it.
Expire ==
  /\ credit' = Expired(credit)
  /\ credit' # credit
  /\ UNCHANGED <<sessionVars, source, holder, receipt, envVars, overlapped, work>>

-----------------------------------------------------------------------------
(* A session on a technical credit. *)

\* startLearnerSession: a lapsed start gives way and its credit is restored, then a
\* credit is reserved.
StartRead(p, s, c) ==
  LET prior    == {r \in Sessions : Live(r)}
      restores == UNION {Restores(r) : r \in prior}
  IN
  /\ session[s] = "none" /\ \A q \in Procs : s \notin work[q].rows
  /\ \A r \in prior : session[r] = "starting" /\ r \in lapsed
  /\ Reservable(c, Restored(restores))
  /\ Arrive(p, [Idle EXCEPT !.op = "start", !.rows = {s}, !.prior = prior,
                            !.credit = {c}, !.restores = restores])

StartCommit(p) ==
  LET w == work[p] IN
  /\ Busy(p, "start")
  /\ IF ~OnlyLive(w.prior) THEN UNCHANGED <<sessionVars, creditVars>>
     ELSE /\ session' = [s \in Sessions |-> IF s \in w.rows THEN "starting"
                                            ELSE IF s \in w.prior /\ session[s] = "starting"
                                                 THEN "cancelled" ELSE session[s]]
          /\ funds' = [s \in Sessions |-> IF s \in w.rows THEN w.credit ELSE funds[s]]
          /\ credit' = [c \in Credits |-> IF c \in w.credit THEN "reserved"
                                          ELSE Expired(Restored(w.restores))[c]]
          /\ holder' = [c \in Credits |-> IF c \in w.credit THEN w.rows
                                          ELSE Unheld(w.restores)[c]]
          /\ UNCHANGED <<source, receipt>>
  /\ Done(p)
  /\ UNCHANGED envVars

\* confirmUsableLaunch: a lapsed start is released outside any transaction.
ConfirmRead(p, s) ==
  /\ session[s] = "starting"
  /\ Arrive(p, [Idle EXCEPT !.op = IF s \in lapsed THEN "release" ELSE "confirm",
                            !.rows = {s}, !.credit = funds[s]])

\* consumeTechnicalCredit, reading: the credit must be reserved by this session and not
\* be due; an expired one rolls everything back, its own 'expired' included.
ConsumeRead(p) ==
  /\ Busy(p, "confirm")
  /\ \E s \in work[p].rows, c \in work[p].credit :
       IF /\ session[s] = "starting"
          /\ holder[c] = {s} /\ credit[c] = "reserved" /\ c \notin due
       THEN Go(p, "consume") ELSE Done(p)
  /\ UNCHANGED <<sessionVars, creditVars, envVars>>

\* mutant: the number of rows that the session's UPDATE changed is not asked
OneChanged(s) == session[s] = "starting"

\* ... and the commit of both rows.
ConsumeCommit(p) ==
  /\ Busy(p, "consume")
  /\ \E s \in work[p].rows, c \in work[p].credit :
       IF OneChanged(s)
       THEN /\ session' = [session EXCEPT ![s] = IF @ = "starting" THEN "active" ELSE @]
            /\ credit'  = [credit EXCEPT ![c] = "consumed"]
            /\ UNCHANGED <<funds, source, holder, receipt>>
       ELSE UNCHANGED <<sessionVars, creditVars>>
  /\ Done(p)
  /\ UNCHANGED envVars

\* cancelStartReservation, in one transaction.
CancelRead(p, s) ==
  /\ session[s] = "starting"
  /\ Arrive(p, [Idle EXCEPT !.op = "cancel", !.rows = {s}, !.restores = Restores(s)])

Cancelled(R) == [s \in Sessions |-> IF s \in R /\ session[s] = "starting"
                                    THEN "cancelled" ELSE session[s]]

CancelCommit(p) ==
  LET w == work[p] IN
  /\ Busy(p, "cancel")
  /\ session' = Cancelled(w.rows)
  /\ credit' = Restored(w.restores) /\ holder' = Unheld(w.restores)
  /\ Done(p)
  /\ UNCHANGED <<funds, source, receipt, envVars>>

\* sweepExpiredStartReservations, and the release of a late confirmation: statement by
\* statement.
SweepRead(p, s) ==
  /\ session[s] = "starting" /\ s \in lapsed
  /\ Arrive(p, [Idle EXCEPT !.op = "release", !.rows = {s}])

ReleaseReadCredit(p) ==
  /\ Busy(p, "release")
  /\ \E s \in work[p].rows :
       work' = [work EXCEPT ![p].restores = Restores(s),
                            ![p].op = IF Restores(s) = {} THEN "releaseRow" ELSE "releaseCredit"]
  /\ UNCHANGED <<sessionVars, creditVars, envVars, overlapped>>

ReleaseCredit(p) ==
  /\ Busy(p, "releaseCredit")
  /\ credit' = Restored(work[p].restores) /\ holder' = Unheld(work[p].restores)
  /\ Go(p, "releaseRow")
  /\ UNCHANGED <<sessionVars, source, receipt, envVars>>

ReleaseRow(p) ==
  /\ Busy(p, "releaseRow")
  /\ session' = Cancelled(work[p].rows)
  /\ Done(p)
  /\ UNCHANGED <<funds, creditVars, envVars>>

-----------------------------------------------------------------------------

Abandon(p) ==
  /\ ~Busy(p, "idle")
  /\ Done(p)
  /\ UNCHANGED <<sessionVars, creditVars, envVars>>

\* The session ends, one way or another; its reservation lapses; a credit is a month old;
\* a past session can no longer be claimed.
EndSession(s) ==
  /\ session[s] = "active"
  /\ session' = [session EXCEPT ![s] = "ended"]
  /\ UNCHANGED <<funds, creditVars, envVars, overlapped, work>>

TimePasses ==
  /\ \/ /\ \E s \in Sessions \ lapsed : session[s] = "starting" /\ lapsed' = lapsed \cup {s}
        /\ UNCHANGED <<claimable, due>>
     \/ /\ \E c \in Credits \ due : credit[c] # "none" /\ due' = due \cup {c}
        /\ UNCHANGED <<lapsed, claimable>>
     \/ /\ \E x \in claimable : claimable' = claimable \ {x}
        /\ UNCHANGED <<lapsed, due>>
  /\ UNCHANGED <<sessionVars, creditVars, overlapped, work>>

Init ==
  /\ session = [s \in Sessions |-> "none"] /\ funds = [s \in Sessions |-> {}]
  /\ lapsed = {} /\ claimable = Past /\ due = {}
  /\ credit = [c \in Credits |-> "none"]
  /\ source = [c \in Credits |-> {}] /\ holder = [c \in Credits |-> {}]
  /\ receipt = [k \in Keys |-> {}] /\ overlapped = FALSE
  /\ work = [p \in Procs |-> Idle]

Handler(p) ==
  \/ \E k \in Keys, x \in Past : ClaimRead(p, k, x)
  \/ \E s \in Sessions : \/ \E c \in Credits : StartRead(p, s, c)
                         \/ ConfirmRead(p, s) \/ CancelRead(p, s) \/ SweepRead(p, s)
  \/ ClaimCommit(p)       \/ StartCommit(p)   \/ ConsumeRead(p) \/ ConsumeCommit(p)
  \/ CancelCommit(p)      \/ ReleaseReadCredit(p) \/ ReleaseCredit(p) \/ ReleaseRow(p)

Next ==
  \/ \E p \in Procs : Handler(p) \/ Abandon(p)
  \/ Expire \/ TimePasses
  \/ \E s \in Sessions : EndSession(s)

Spec == Init /\ [][Next]_vars

-----------------------------------------------------------------------------
(* Properties *)

\* Types, and what a credit's status says of its other columns.
TypeOK ==
  /\ session \in [Sessions -> {"none", "starting", "active", "ended", "cancelled"}]
  /\ funds \in [Sessions -> SUBSET Credits]
  /\ lapsed \subseteq Sessions /\ claimable \subseteq Past /\ due \subseteq Credits
  /\ credit \in [Credits -> {"none", "available", "reserved", "consumed", "expired"}]
  /\ source \in [Credits -> SUBSET Past] /\ holder \in [Credits -> SUBSET Sessions]
  /\ receipt \in [Keys -> SUBSET Credits]
  /\ overlapped \in BOOLEAN /\ work \in [Procs -> Work]
  /\ \A c \in Credits : /\ credit[c] = "none" <=> source[c] = {}
                        /\ credit[c] = "available" => holder[c] = {}
                        /\ credit[c] = "reserved" => holder[c] # {}

Launched(c) == {s \in Sessions : funds[s] = {c} /\ session[s] \in {"active", "ended"}}

\* A reservation is never orphaned: a reserved credit belongs to a start under way, so a
\* learner's credit is not stranded by crashes between the statements of a release; and a
\* credit is consumed by a session that was launched on it, not by one that was not.
CreditFollowsSession == \A c \in Credits :
  /\ credit[c] = "reserved" =>
       \E s \in Sessions : session[s] = "starting" /\ funds[s] = {c} /\ holder[c] = {s}
  /\ credit[c] = "consumed" => Launched(c) # {}

\* However many actors claim it, with whatever keys, a session that failed is replaced by
\* one credit, which pays for one session when requests follow each other, crashes included:
\* a start "permanently consumes the reserved credit".  A restore that overlaps the
\* consumption makes the credit available again.
CreditPaysOnce ==
  /\ \A x \in Past : Cardinality(CreditOf(x)) <= 1
  /\ \A k \in Keys : \A c \in receipt[k] : source[c] # {}
  /\ ~overlapped => \A c \in Credits : Cardinality(Launched(c)) <= 1
=============================================================================
