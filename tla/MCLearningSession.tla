-------------------------- MODULE MCLearningSession --------------------------
(* Small instances of LearningSession, and what a comment says of sessions    *)
(* which the code does not keep: its run shows how it is broken.              *)
EXTENDS LearningSession, TLC

CONSTANTS k1, k2, k3
AllStandard  == [k \in Keys |-> "standard_monthly"]
AllNormal    == [k \in Keys |-> "normal"]
Symmetry     == Permutations(Sessions) \cup Permutations(Procs)

\* "correctness never depends on this running ... it just tidies up": a reservation that
\* has not lapsed, of a learner still entitled, is backed by a credit its batch holds for
\* it, so that the confirmation can be paid, whatever sweeps and retries are under way.
FreshReservationBacked ==
  entitled => \A s \in Sessions :
    status[s] = "starting" /\ FromBatch(s) /\ ~Lapsed(s) => batch[terms[s].month].reserved > 0
=============================================================================
