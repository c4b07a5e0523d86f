SPECIFICATION BreakerSpec
CONSTANTS
  target = target
  Targets <- OneTarget
  TargetOf <- AllOneTarget
  Intents = {l1, l2, l3, l4}
  HighRisk = {}
  Workers = {w1, w2}
  Reviewers = {}
  Python = FALSE
  MaxRetries = 0
  RetryLimit = 0
  MaxOps = 9
  MaxFaults = 0
  MaxJobs = 4
VIEW WithoutReceipts
SYMMETRY Symmetry
PROPERTIES
  BreakerLatches
CHECK_DEADLOCK FALSE
