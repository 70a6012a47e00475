SPECIFICATION PurgeSpec
CONSTANTS
  Object = {o1, o2}
  MaxPacks = 2
  MaxPackObjects = 2
  MaxAborts = 1
  MaxLosses = 0
  OrderedMetadata = TRUE
  RecoverFirst = FALSE
SYMMETRY Symmetry
PROPERTIES
  CompletedPurgeDurable
