SPECIFICATION Spec
CONSTANTS
  Releases = {r1}
  Windows = {w1}
  AdminKeys = {k1}
  Procs = {p1}
  MaxDeployments = 3
CHECK_DEADLOCK FALSE
INVARIANTS
  RollbackToldIsDone
