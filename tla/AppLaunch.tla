------------------------------ MODULE AppLaunch ------------------------------
(****************************************************************************)
(* The launch of one session's app: the platform dispatches a launch code    *)
(* through the browser, the app's backend exchanges it for a provisional     *)
(* grant, confirms the usable launch under that grant, and loses the grant   *)
(* when the session ends.                                                   *)
(*                                                                          *)
(* dispatchAppLaunch and exchangeAppLaunch check everything before their     *)
(* transaction.  The UPDATE of an exchange names the session and the status  *)
(* 'prepared', not the attempt that was checked.                             *)
(****************************************************************************)
EXTENDS Naturals, FiniteSets

CONSTANTS
  Attempts,   \* launch attempt ids, each with its code
  Keys,       \* idempotency keys of exchanges
  Jtis,       \* ids of the app's client assertions
  Procs

VARIABLES
  session,     \* status of the session
  launch,      \* learner_session_launch_state: its status, and the attempt as a set
  grant,       \* status of the row in app_session_grants
  receipts,    \* app_launch_exchange_receipts: the attempt each key exchanged, a set
  replays,     \* app_client_assertion_replays
  expired,     \* attempts whose 60 seconds are over
  dispatched,  \* attempts that were dispatched (history)
  overlapped,  \* a request has arrived while another was served (history)
  uses,        \* how often the code of an attempt was accepted (history)
  taken,       \* how many exchanges were (history)
  work         \* the request each process serves

launchVars == <<launch, grant, receipts>>
counts     == <<uses, taken>>
history    == <<dispatched, counts, overlapped>>
vars == <<session, launchVars, replays, expired, history, work>>

NoLaunch == [status |-> "none", attempt |-> {}]
Ops  == {"idle", "dispatch", "exchange", "confirm", "finalize", "release", "revoke", "purge"}
Work == [op : Ops, attempt : SUBSET Attempts, key : SUBSET Keys, jti : SUBSET Jtis]
Idle == [op |-> "idle", attempt |-> {}, key |-> {}, jti |-> {}]

Busy(p, op) == work[p].op = op
Done(p)     == work' = [work EXCEPT ![p] = Idle]

\* A request whose checks passed goes on to its transaction.
Checked(p, request) ==
  /\ Busy(p, "idle")
  /\ work' = [work EXCEPT ![p] = request]
  /\ overlapped' = (overlapped \/ \E q \in Procs : ~Busy(q, "idle"))
  /\ UNCHANGED <<session, launchVars, replays, expired, dispatched, counts>>

-----------------------------------------------------------------------------
(* dispatchAppLaunch: a new attempt replaces the one before it. *)

DispatchRead(p) ==
  /\ session = "starting"
  /\ \E a \in Attempts \ dispatched :
       /\ \A q \in Procs : a \notin work[q].attempt
       /\ Checked(p, [Idle EXCEPT !.op = "dispatch", !.attempt = {a}])

DispatchCommit(p) ==
  /\ Busy(p, "dispatch")
  /\ launch' = [status |-> "prepared", attempt |-> work[p].attempt]
  /\ dispatched' = dispatched \cup work[p].attempt
  /\ Done(p)
  /\ UNCHANGED <<session, grant, receipts, replays, expired, counts, overlapped>>

-----------------------------------------------------------------------------
(* exchangeAppLaunch. *)

ExchangeRead(p, a, k, j) ==
  /\ j \notin replays /\ receipts[k] = {}
  /\ launch = [status |-> "prepared", attempt |-> {a}]
  /\ a \notin expired
  /\ session = "starting"
  /\ Checked(p, [op |-> "exchange", attempt |-> {a}, key |-> {k}, jti |-> {j}])

\* mutant: the number of rows changed by the UPDATE is not asked
\* The UPDATE ... where learner_session_id = ? and status = 'prepared'.
StillPrepared(w) == launch.status = "prepared"

\* mutant: the code stays valid
Exchanged(l) == [l EXCEPT !.status = "exchanged"]

\* mutant: the jti is checked before the transaction only
AnyJti(w) == TRUE
\* The primary keys of the replays and of the receipts.
FirstOfItsKeys(w) == /\ w.jti \cap replays = {}
                     /\ \A k \in w.key : receipts[k] = {}

\* issueInitialAppGrant: the session's grant, a new one if it has none.
GrantOf(g) == IF g = "none" THEN "provisional" ELSE g

ExchangeCommit(p) ==
  LET w == work[p] IN
  /\ Busy(p, "exchange")
  /\ IF FirstOfItsKeys(w) /\ StillPrepared(w)
     THEN /\ launch' = Exchanged(launch)
          /\ grant' = GrantOf(grant)
          /\ replays' = replays \cup w.jti
          /\ receipts' = [k \in Keys |-> IF k \in w.key THEN w.attempt ELSE receipts[k]]
          /\ uses' = [a \in Attempts |-> IF a \in w.attempt THEN uses[a] + 1 ELSE uses[a]]
          /\ taken' = taken + 1
     ELSE UNCHANGED <<launchVars, replays, counts>>
  /\ Done(p)
  /\ UNCHANGED <<session, expired, dispatched, overlapped>>

-----------------------------------------------------------------------------
(* The session's other requests, as they touch the grant. *)

\* confirmUsableLaunch, of an app whose grant is live.
ConfirmRead(p) ==
  /\ session = "starting" /\ grant = "provisional"
  /\ Checked(p, [Idle EXCEPT !.op = "confirm"])

\* activateAppGrant, whose answer is not asked.
Activated(g) == IF g = "provisional" THEN "active" ELSE g

ConfirmCommit(p) ==
  /\ Busy(p, "confirm")
  /\ IF session = "starting" THEN session' = "active" /\ grant' = Activated(grant)
                             ELSE UNCHANGED <<session, grant>>
  /\ Done(p)
  /\ UNCHANGED <<launch, receipts, replays, expired, history>>

\* finalizeCore: the grant is revoked, and the launch state.
FinalizeRead(p) ==
  /\ session = "active"
  /\ Checked(p, [Idle EXCEPT !.op = "finalize"])

Revoked(g) == IF g = "active" THEN "revoked" ELSE g

FinalizeCommit(p) ==
  /\ Busy(p, "finalize")
  /\ session' = IF session = "active" THEN "ended" ELSE session
  /\ grant' = Revoked(grant)
  /\ launch' = IF launch = NoLaunch THEN launch ELSE [launch EXCEPT !.status = "revoked"]
  /\ Done(p)
  /\ UNCHANGED <<receipts, replays, expired, history>>

\* releaseStartReservation of a start, revokeSessionRows of a running session: the row,
\* then purgeLaunchDataForSession.
EndRead(p) ==
  /\ session # "ended"
  /\ Checked(p, [Idle EXCEPT !.op = IF session = "starting" THEN "release" ELSE "revoke"])

EndCommit(p) ==
  /\ work[p].op \in {"release", "revoke"}
  /\ session' = IF Busy(p, "revoke") \/ session = "starting" THEN "ended" ELSE session
  /\ work' = [work EXCEPT ![p].op = "purge"]
  /\ UNCHANGED <<launchVars, replays, expired, history>>

Deleted(l) == NoLaunch

Purge(p) ==
  /\ Busy(p, "purge")
  /\ launch' = Deleted(launch)
  /\ grant' = "none"
  /\ receipts' = [k \in Keys |-> receipts[k] \ launch.attempt]
  /\ Done(p)
  /\ UNCHANGED <<session, replays, expired, history>>

-----------------------------------------------------------------------------

CodeExpires ==
  /\ \E a \in dispatched \ expired : expired' = expired \cup {a}
  /\ UNCHANGED <<session, launchVars, replays, history, work>>

Abandon(p) ==
  /\ ~Busy(p, "idle")
  /\ Done(p)
  /\ UNCHANGED <<session, launchVars, replays, expired, history>>

Init ==
  /\ session = "starting"
  /\ launch = NoLaunch /\ grant = "none" /\ receipts = [k \in Keys |-> {}]
  /\ replays = {} /\ expired = {}
  /\ dispatched = {} /\ uses = [a \in Attempts |-> 0] /\ taken = 0
  /\ overlapped = FALSE
  /\ work = [p \in Procs |-> Idle]

Handler(p) ==
  \/ DispatchRead(p) \/ DispatchCommit(p)
  \/ \E a \in Attempts, k \in Keys, j \in Jtis : ExchangeRead(p, a, k, j)
  \/ ExchangeCommit(p)
  \/ ConfirmRead(p)  \/ ConfirmCommit(p)
  \/ FinalizeRead(p) \/ FinalizeCommit(p)
  \/ EndRead(p)      \/ EndCommit(p)     \/ Purge(p)

Next == (\E p \in Procs : Handler(p) \/ Abandon(p)) \/ CodeExpires

Spec == Init /\ [][Next]_vars

-----------------------------------------------------------------------------
(* Properties *)

\* Types; and the launch state and the grant are written together: a code that was
\* exchanged has a grant, whatever purges and late exchanges interleave.
TypeOK ==
  /\ session \in {"starting", "active", "ended"}
  /\ launch \in [status : {"none", "prepared", "exchanged", "revoked"},
                 attempt : SUBSET Attempts]
  /\ grant \in {"none", "provisional", "active", "revoked"}
  /\ receipts \in [Keys -> SUBSET Attempts]
  /\ replays \subseteq Jtis /\ expired \subseteq Attempts /\ dispatched \subseteq Attempts
  /\ uses \in [Attempts -> Nat] /\ taken \in Nat /\ overlapped \in BOOLEAN
  /\ work \in [Procs -> Work]
  /\ launch.attempt = {} <=> launch.status = "none"
  /\ launch.status = "exchanged" => grant # "none"

\* However exchanges overlap, no more of them succeed than codes were dispatched, and every
\* client assertion pays for one.  A launch code is "single-use" for requests that follow each
\* other, crashes included: an exchange that overlaps another one of its code and a new
\* dispatch is accepted on the spent code.
CodesAreSpentOnce ==
  /\ taken <= Cardinality(dispatched)
  /\ taken = Cardinality(replays)
  /\ ~overlapped => \A a \in Attempts : uses[a] <= 1
=============================================================================
