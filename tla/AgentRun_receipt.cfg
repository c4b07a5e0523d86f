SPECIFICATION Spec
CONSTANTS
  target = target
  Targets <- OneTarget
  TargetOf <- AllOneTarget
  Intents = {l}
  HighRisk = {}
  Workers = {w1}
  Reviewers = {}
  Python = FALSE
  MaxRetries = 1
  RetryLimit = 0
  MaxOps = 9
  MaxJobs = 1
  MaxFaults = 0
INVARIANTS
  CompletedHasProof
CHECK_DEADLOCK FALSE
