SPECIFICATION MasterSpec
CONSTANTS
  Keys = {k}
  ProductKeys = {k}
  Products = {p1}
  TwoProducts = {p1, p2}
  Handlers = {h1, h2}
  DualWrite = FALSE
  MaxRows = 2
  MaxVersion = 3
  Changes = {h1, h2}
  Listings = {p1, p2}
  Commodities = {c1, c2}
  Requests = {h1, h2}
  Prices = {1, 2}
  MaxClock = 3
  Months = 2
  Length = 3
  MaxDay = 8
  Models = {"flash", "old"}
  Legacy = {"old"}
  Default = "flash"
  Savers = {"a1", "a2"}
  RoleOf <- RoleOfSaver
  Drafts <- OneForm
  ApiKeys = {"k"}
  MaxSaves = 3
  Tenants = {"t"}
  MaxCalls = 2
  MaxToggles = 2
  Size = 3
  Maps = {"m"}
  MaxDepth = 4
  MaxEdits = 3
  MaxFaults = 1
SYMMETRY Symmetry
INVARIANTS
  TypesOK
  OneApprovedPerKey
  HistoryComplete
  RevokedFrozen
  CostsKept
  StagesRolledUp
  AveragedAfterSecond
  ConsoleKept
  CatalogueKept
CHECK_DEADLOCK FALSE
