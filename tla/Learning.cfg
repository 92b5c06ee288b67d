SPECIFICATION MCSpec
CONSTANTS
  Requests = {k1, k2}
  Lessons = {l1}
  Workers = {p1, p2}
  MaxVersion = 3
  MaxSessions = 2
  MaxTries = 2
  JourneyLessons = {}
  Achievements = {a1}
  Milestones = {m1}
  MaxGeneration = 2
  MaxWeek = 3
SYMMETRY Symmetric
CHECK_DEADLOCK FALSE
INVARIANTS
  TypesOK
  ProgressIsNeverForked
  JourneyFollowsItsSources
  StreakIsTheRecount
