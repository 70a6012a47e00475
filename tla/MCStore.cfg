SPECIFICATION MCStoreSpec
CONSTANTS
  Object = {o1, o2}
  MaxPacks = 2
  MaxPackObjects = 2
  MaxAborts = 1
  MaxLosses = 1
  OrderedMetadata = TRUE
  RecoverFirst = FALSE
  Album = {1, 2}
  Contents <- TwoAlbums
  FirstShown <- TwoRevisions
  Passive = {"a", "b"}
  FilesOf <- Uploads
  ByteLimit <- TwoLimits
  LargestEdge = 2
  MaxWikiEdits = 2
  MaxPolicyEdits = 1
  MaxCaptures = 3
  MaxMediaStops = 1
  Saver = {1, 2}
  ExportPages <- TwinPages
  Revisions <- LeapRevisions
  FirstHeld <- HeldFirst
  Targets <- Asked
  MaxExports = 3
  MaxExportFaults = 1
  MaxChanges = 1
SYMMETRY Symmetry
INVARIANTS
  StoreTypeOK
  RowsDurable
  CapturedReadable
  UnfinishedJournalAccepted
  ExportsKept
PROPERTIES
  CompletedPurgeErased
  ImplementsArchive
  MediaTellsWhatWasShown
