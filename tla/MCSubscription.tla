--------------------------- MODULE MCSubscription ---------------------------
(* Small instances of Subscription. *)
EXTENDS Subscription, TLC

Symmetry == Permutations(Events) \cup Permutations(Procs)
=============================================================================
