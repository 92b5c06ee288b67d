CONSTANTS
  s1 = s1
  s2 = s2
  s3 = s3
  p1 = p1
  p2 = p2
  k1 = k1
  k2 = k2
  k3 = k3
  Sessions = {s1, s2}
  Procs = {p1, p2}
  Keys = {k1, k2}
  Source <- AllNormal
  Granted = 1
  PlainWeek = 1
  CatchUpWeek = 2
  NormalLimit = 1
  Unlimited = FALSE
  MaxWeek = 1
  MaxMonth = 2
SPECIFICATION Spec
SYMMETRY Symmetry
CHECK_DEADLOCK FALSE
INVARIANTS
  NormalSlotsExact
