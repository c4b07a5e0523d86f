SPECIFICATION StreakSpec
CONSTANTS
  target = target
  Targets <- OneTarget
  TargetOf <- AllOneTarget
  Intents = {l1, l2}
  HighRisk = {}
  Workers = {w1}
  Reviewers = {}
  Python = FALSE
  MaxRetries = 0
  RetryLimit = 0
  MaxOps = 9
  MaxJobs = 4
  MaxFaults = 0
SYMMETRY Symmetry
PROPERTIES
  BreakerStopsStreak
CHECK_DEADLOCK FALSE
