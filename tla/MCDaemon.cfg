SPECIFICATION DaemonSpec
CONSTANTS
  Procs = {d, c1, c2}
  Daemons = {d}
  Inodes = {1, 2, 3}
  None = None
  Clients = {a, b}
  NoClient = NoClient
  Chunks = 2
  MaxTokens = 3
  MaxBacklog = 2
  MaxAdded = 1
  Period = 3
  Offset = 1
  Configured = 5
  Horizon = 7
  Selectable = {1, 2}
  Answers = {{1}, {1, 2}}
  Editors = {"cli", "gui"}
  MaxGeneration = 3
  Contents <- FourObjects
  MaxDeltaDepth = 2
  CandidateWindow = 3
  FullEntryInterval = 5
  SizeRatio = 2
  Affinities = {0, 1}
  MaxPacks = 2
  Folders = {"x", "y"}
  NoFolder = NoFolder
  Category = {1, 2, 3, 4, 5}
  Article = {6, 7, 8}
  RootCategory = 1
  Wikis <- SomeWikis
  Aliases = {1, 2, 3}
  MaxCategories = 4
  MaxArticles = 2
  MaxBatches = 7
  MaxRecursion = 2
  ListedPerRequest = 2
  TitlesPerRequest = 2
  MaxMoves = 1
INVARIANTS
  PreviewTellsTheWiki
  DaemonTypeOK
  OneReachedWriter
  OneClientPerDraft
  NextRunIsEarliest
  PacksReadBack
PROPERTIES
  SavesOverWhatWasSeen
  ShowsWhatIsSo
CHECK_DEADLOCK FALSE
