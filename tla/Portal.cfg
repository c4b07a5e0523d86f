SPECIFICATION PortalSpec
CONSTANTS
  Calls = {c1, c2}
  Turns = {t1, t2}
  MaxCloses = 2
  MaxFaults = 1
  MaxCrashes = 1
  Forms = {c1, c2}
  Cooldown = 1
  Lifetime = 2
  MaxAttempts = 2
  MaxCodes = 2
  MaxClock = 3
  Conns = {"x1", "x2", "x3", "x4"}
  MaxPerKey = 2
  MaxPieces = 4
  MaxBubbles = 4
  KnowledgeEntries = {1}
  Jobs = {c1, c2}
  Votes = {t1, t2}
  FullWeight = 4
  DecayingAt = 4
  DormantAt = 3
  ArchiveAfter = 0
  PageSize = 1
  MaxRate = 3
  MaxDay = 1
  Tabs = {"tab"}
  MaxTokens = 2
  MaxLost = 1
  MaxChanges = 2
SYMMETRY Symmetry
INVARIANTS
  TypesOK
  WritebackOnce
  CodeUsedUp
  PlacesAccounted
  NotWornTwice
  PagesKept
PROPERTIES
  ClosedStaysClosed
  YoungCodeKept
  FinishedKept
CHECK_DEADLOCK FALSE
