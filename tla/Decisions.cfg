SPECIFICATION DecisionsSpec
CONSTANTS
  Tokens = {t1}
  Nonces = {n1, n2, t1}
  Handlers = {h1, h2}
  Skew = 1
  Ttl = 2
  Retention = 2
  MaxTime = 4
  MaxNamed = 1
  Edits = {"e1", "e2", "e3"}
  Texts = {"x", "y"}
  MaxVersions = 4
  Publishers = {o1, o2, n1, n2}
  MaxMoment = 2
  Caps = {15, 50}
  MaxBid = 30
  Interval = 2
  KeyTtl = 4
  MaxLedgerTime = 6
  MaxLives = 1
  Owners = {o1, o2}
  Daily = {"w1"}
  Asked = {"w2"}
  Tiers = 1
  NoCeiling = 9
  Distills = {o1, o2}
  Reports = {h1, h2}
  MinSamples = 1
  AutoSamples = 2
  FailureLimit = 3
  MaxPatterns = 2
  MaxStreak = 4
  Followed = {1}
  ReportRuns = {1, 2, 3}
  Slots = 2
  Polls = 1
  Timeout = 1
  Margin = 2
  TokenLife = 3
  MaxSecond = 5
SYMMETRY Symmetry
INVARIANTS
  TypesOK
  TokenOnce
  NonceOnce
  TokenRedeemable
  VersionsKept
  PipelineKept
  ClientKept
  CompletedInBounds
  WrittenTwiceOnlyIfSlow
  FailingIsDemoted
PROPERTIES
  RaisedWithinCeiling
CHECK_DEADLOCK FALSE
