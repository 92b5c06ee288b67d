CONSTANTS
  p1 = p1
  p2 = p2
  Procs = {p1, p2}
  e1 = e1
  e2 = e2
  e3 = e3
  Events = {e1, e2, e3}
  Period = 2
  Grace = 1
  CheckoutEnds = 0
  MaxTime = 4
  MaxVersion = 3
SPECIFICATION Spec
SYMMETRY Symmetry
CHECK_DEADLOCK FALSE
INVARIANTS
  TypeOK
  PaymentsBuyDistinctTime
  RowFollowsLedger
  UnpaidOnlyAfterGrace
PROPERTIES
  GraceKeepsItsDeadline
  NoCutoffIsUndone
