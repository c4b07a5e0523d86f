SPECIFICATION ScenariosSpec
CONSTANTS
  target = target
  Targets <- OneTarget
  TargetOf <- NodeTargetOf
  Intents = {h}
  HighRisk = {h}
  Workers = {w1, w2}
  Reviewers = {r1, r2}
  Python = FALSE
  MaxRetries = 1
  RetryLimit = 1
  MaxOps = 9
  MaxJobs = 3
  MaxFaults = 1
  ServiceIntents = {l}
  ServiceReviewers = {r1}
  LimitIntents = {l1, l2, l3}
VIEW WithoutReceipts
SYMMETRY Symmetry
INVARIANTS
  HighRiskApproved
  RequestsMatchRows
  LimitOvershootBound
PROPERTIES
  NodeReopenedOnlyByRedelivery
CHECK_DEADLOCK FALSE
