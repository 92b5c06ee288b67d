------------------------------ MODULE MCRuntime ------------------------------
(****************************************************************************)
(* Small instances of SessionClock, TechnicalCredit and AppLaunch, the       *)
(* transactional parts of a session that share nothing but its status: each  *)
(* behaviour of this specification is one of a single part, and the others   *)
(* stay as they start.                                                      *)
(****************************************************************************)
EXTENDS SessionClock, TLC

CONSTANTS Sessions, Past, Credits, Keys, Attempts, Jtis

VARIABLES part,
  session, funds, lapsed, claimable, credit, source, holder, due, receipt, claims,
  launched, launch, grant, exchanges, replays, expired, dispatched, uses, taken, calls

creditPart == <<session, funds, lapsed, claimable, credit, source, holder, due, receipt, claims>>
launchPart == <<launched, launch, grant, exchanges, replays, expired, dispatched, uses, taken, calls>>
clockPart  == <<now, row, engaged, receipts, away, work>>

Credit == INSTANCE TechnicalCredit WITH work <- claims
Launch == INSTANCE AppLaunch WITH session <- launched, receipts <- exchanges, work <- calls

MCInit == part \in {"clock", "credit", "launch"} /\ Init /\ Credit!Init /\ Launch!Init
MCNext ==
  \/ part = "clock"  /\ Next        /\ UNCHANGED <<part, creditPart, launchPart>>
  \/ part = "credit" /\ Credit!Next /\ UNCHANGED <<part, clockPart, launchPart>>
  \/ part = "launch" /\ Launch!Next /\ UNCHANGED <<part, clockPart, creditPart>>
MCSpec == MCInit /\ [][MCNext]_<<part, vars, creditPart, launchPart>>

\* The types of the three parts.
TypesOK == TypeOK /\ Credit!TypeOK /\ Launch!TypeOK

\* A session is replaced once, and its credit, never stranded or held by two sessions, pays once
\* (TechnicalCredit).
CreditPaysOnce == Credit!CreditPaysOnce /\ Credit!CreditFollowsSession

\* A launch code and a client assertion are spent once (AppLaunch).
CodesAreSpentOnce == Launch!CodesAreSpentOnce

Symmetry == Permutations(Procs) \cup Permutations(Credits)
=============================================================================
