SPECIFICATION LibrarySpec
CONSTANTS
  Colls = {"A", "B"}
  Pages = {"p", "r"}
  Objects = {"x", "y"}
  Content <- ContentOf
  DirectWriters = TRUE
  MaxRuns = 2
  MaxPurges = 1
  MaxLosses = 1
  Parts <- TwoParts
  Selected = {1, 3, 4}
  MaxEdits = 1
  MaxDumpStops = 2
  MaxImports = 2
  Order <- OneArticle
  MaxGap = 1
  Retention = 2
  Overlap = 1
  MaxChanges = 4
  MaxHidden = 1
  MaxStops = 1
  Op = {"q1", "q2", "d"}
  Dumps = {"d"}
  Slots = 2
  Budget = 3
  MaxResponse = 2
  Rate = 1
  Ticks = 2
  Attempts = 2
  InitialDelay = 1
  MaxDelay = 1
  Threshold = 1
  OpenFor = 2
  MaxChunk = 2
  MaxTime = 2
  Caller = {"c1", "c2"}
  Length <- TwoEditions
  MaxFiles = 2
  MaxKills = 1
  MaxPowerLosses = 1
  SigningKeys = {"k1", "k2"}
  MaxHead = 2
  MaxTrustOps = 4
  MaxCrashes = 1
  Appender = {"daemon"}
  Collection = {1}
  WikiPage = {1, 2}
  PageOfRevision <- PagesOfRevisions
  Illustrated = {2}
  FirstMembers <- FirstPage
  ShardEntries = 1
  MaxPlacements = 1
  MaxSyncs = 2
  MaxAppendStops = 2
  MaxMoves = 1
INVARIANTS
  LibraryTypeOK
  PurgesAuthenticated
  AuthorizationStaysCurrent
  ImportMissesNothing
  CheckpointCovers
  TransportLimitsHold
  PublishedIsWhole
  AuditTellsLossFromPurge
  AnchorsRetained
  ManifestsTellWhatRunsCaptured
PROPERTY
  OnlyExclusivePayloadGoes
CHECK_DEADLOCK FALSE
