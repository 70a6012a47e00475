SPECIFICATION SyncSpec
CONSTANTS
  Collection = {a}
  NoCollection = none
  Policies <- AllPolicies
  RevisionLimit = 2
  MaxRevision = 6
  MaxStops = 2
INVARIANTS
  NoGap
PROPERTIES
  HistoryCatchesUp
  RunEndsUnlessStuck
  HeadsCatchUp
CHECK_DEADLOCK FALSE
