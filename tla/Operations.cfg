SPECIFICATION MCSpec
CONSTANTS
  Releases = {r1}
  Windows = {w1}
  AdminKeys = {k1}
  Procs = {p1, p2}
  MaxDeployments = 3
  Reservation = 1
  HardExpiry = 1
  MaxTime = 2
  MaxVersion = 3
  Notices = {n1}
  Runs = {u1, u2}
  MaxAttempts = 2
  MaxChanges = 2
  Employees = {a1, a2}
  Founders = {a1}
  MaxCodes = 1
  Contributions = {c1, c2}
  MaxFailures = 2
  MaxContexts = 2
  Ids = {x1, x2}
  Learners = {l1, l2}
  Passkeys = {key}
  Challenges = {h1}
  CaseKeys = {j1, j2, j3, j4}
  Labels = {n1, n2, n3}
  EmailRequests = {1, 2}
  MaxLinks = 2
SYMMETRY Symmetry
CHECK_DEADLOCK FALSE
INVARIANTS
  TypesOK
  PublicationIsConsistent
  MaintenanceIsRespected
  MailsAreSettled
  StaffAccessHolds
  CountedExactlyOnce
  LauncherStaysInItsContext
  AuthorityIsHeld
  ParentAccountHolds
  CasesAreOrderly
PROPERTIES
  ActivationIsChecked
