SPECIFICATION SyncSpec
CONSTANTS
  Page <- Pages2
  Dynamic = TRUE
  KeepTracking = FALSE
  DirectUpdate = TRUE
  MaxClock = 3
  MaxChanges = 1
  MaxFailures = 1
  MaxStops = 1
  Documents <- AllDumps
  Sound <- SoundDumps
  SiteFields = {"dbname"}
  PageFields = {"ns"}
  RevisionFields = {"model"}
  Wanted <- MainNamespace
  Models <- MainNamespace
  MaxDepth = 6
  MaxSiteInfo = 12
  MaxPageXml = 20
  MaxText = 2
  MaxField = 1
  MaxPages = 2
  MaxNamespaces = 2
  Libraries <- KnownLibraries
  PageSize = 2
  QuickLimit = 2
  MaxRevision = 5
INVARIANTS
  SyncTypeOK
  ShownHeadsDurable
  AtMostOneUnmanifested
  YieldsWhatTheDumpSays
  ConclusionHolds
PROPERTIES
  CheckpointBehindContent
CHECK_DEADLOCK FALSE
