SPECIFICATION LiveSpec
CONSTANTS
  target = target
  Targets <- OneTarget
  TargetOf <- AllOneTarget
  Intents = {h}
  HighRisk = {h}
  Workers = {w1}
  Reviewers = {r1}
  Python = FALSE
  MaxRetries = 3
  RetryLimit = 2
  MaxOps = 9
  MaxFaults = 2
  MaxJobs = 2
  Calls = {c1}
  Turns = {t1, t2}
  Clients = {"k1", "k2", "k3", "k4", "k5"}
INVARIANTS
  TypeOK
  ListenersCounted
PROPERTIES
  GateSpec
  JobsSettle
  UnsureReachesHuman
  ListenerReturns
CHECK_DEADLOCK FALSE
