SPECIFICATION Spec
CONSTANTS
  MaxWeek = 3
CHECK_DEADLOCK FALSE
INVARIANTS
  GapsRestartTheStreak
