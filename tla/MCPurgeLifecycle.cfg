SPECIFICATION LifeSpec
CONSTANTS
  Colls = {"A", "B"}
  Pages = {"p"}
  Objects = {"x", "y"}
  Content <- MCContent
  DirectWriters = TRUE
  MaxRuns = 1
  MaxPurges = 1
  MaxLosses = 1
PROPERTIES
  PurgeEnds
CHECK_DEADLOCK FALSE
