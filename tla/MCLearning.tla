------------------------------ MODULE MCLearning ------------------------------
(****************************************************************************)
(* What a committed lesson or session leaves behind for the learner to see:  *)
(* the progress of the app, the journey, and the weekly consistency. Each is *)
(* written after the other has committed and never writes back, so that a    *)
(* behaviour of this specification is one of any of the three.               *)
(****************************************************************************)
EXTENDS AppProgress, TLC

CONSTANTS JourneyLessons, Achievements, Milestones, MaxGeneration, MaxWeek

ASSUME LearningAssumption == MaxGeneration \in Nat /\ MaxWeek \in Nat \ {0}

VARIABLES part, entitled, ret, status, old, outbox, projected, events, projector, calm,
          week, kind, funded, receipt, applied, rows, state, ordered, rebuilt
journeyVars == <<entitled, ret, status, old, outbox, projected, events, projector, calm>>
weekVars    == <<week, kind, funded, receipt, applied, rows, state, ordered, rebuilt>>

\* A lesson projects as an achievement does that is never revoked, so that TLC needs none.
Projection == INSTANCE Journey WITH Lessons <- JourneyLessons, receipts <- projected, job <- projector
Cadence    == INSTANCE Consistency

OneSource == Cardinality({s \in DOMAIN status : status[s] # "none"}) <= 1
MCInit ==
  /\ Init /\ Projection!Init /\ Cadence!Init
  /\ part \in {"progress", "journey", "weeks"}
  /\ part # "progress" => ~shared
  /\ part # "weeks" => \A w \in 1..MaxWeek : kind[w] = "eligible"

\* Nothing is said of weeks once they were handled out of order. The sources of a journey meet in
\* the retention state alone, so that one of them at a time is enough.
MCNext ==
  \/ part = "progress" /\ Next /\ UNCHANGED <<part, journeyVars, weekVars>>
  \/ part = "journey" /\ Projection!Next /\ OneSource' /\ UNCHANGED <<part, vars, weekVars>>
  \/ part = "weeks" /\ Cadence!Next /\ ordered' /\ ~rebuilt' /\ UNCHANGED <<part, vars, journeyVars>>
MCSpec == MCInit /\ [][MCNext]_<<part, vars, journeyVars, weekVars>>

\* The types of the three parts.
TypesOK == TypeOK /\ Projection!TypeOK /\ Cadence!TypeOK

\* With requests in turn, the journey is what its sources say, and what was purged is never shown
\* again (Journey).
JourneyFollowsItsSources == Projection!JourneyFollowsItsSources /\ Projection!NothingPurgedIsShown

\* With weeks handled in order, the streak is the one of the weeks (Consistency).
StreakIsTheRecount == Cadence!StreakIsTheRecount

Symmetric == Permutations(Requests) \cup Permutations(Workers)
==============================================================================
