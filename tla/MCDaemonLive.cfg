SPECIFICATION LiveSpec
CONSTANTS
  Scheduled = {1, 2}
  Every = 3
  RetryDelay = 1
  MaxCost = 2
  MaxByHand = 1
  Colls = {"A", "B"}
  Pages = {"p"}
  Objects = {"x", "y"}
  Content <- ContentOf
  DirectWriters = TRUE
  MaxRuns = 1
  MaxPurges = 1
  MaxLosses = 1
PROPERTIES
  DueIsServedUnlessTwoFail
  PurgeEndsUnlessMeddled
  PurgeCompletes
CHECK_DEADLOCK FALSE
