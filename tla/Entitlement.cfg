SPECIFICATION MCSpec
CONSTANTS
  c1 = c1
  Reports = {e1, e2}
  Notices = {n1}
  RefundCases = {f1}
  Offered = {"grace_expired", "fraud", "reversal", "refund"}
  MaxEvents = 2
  Cycles = {c1, c2}
  Start <- TwoStarts
  End <- TwoEnds
  Learners = {l1, l2}
  MaxVersion = 2
  MaxIncidents = 1
  Procs = {p1, p2}
SYMMETRY Symmetric
CHECK_DEADLOCK FALSE
INVARIANTS
  TypesOK
  EffectsHappenOnce
  NewestDecisionStands
  AllocatedOnce
  OneSubscriptionPerLearner
