SPECIFICATION MCSpec
CONSTANTS
  Procs = {p1, p2}
  MaxConnected = 2
  Window = 1
  HardExpiry = 2
  Reports = {0, 9}
  MaxTime = 3
  MaxEpisodes = 2
  Sessions = {s1, s2}
  Past = {x1}
  Credits = {c1, c2}
  Keys = {k1, k2}
  Attempts = {a1, a2, a3}
  Jtis = {j1, j2}
SYMMETRY Symmetry
CHECK_DEADLOCK FALSE
INVARIANTS
  TypesOK
  CountedTimeIsReal
  CreditPaysOnce
  CodesAreSpentOnce
