SPECIFICATION EditionSpec
CONSTANTS
  Order <- MCOrder
  MaxGap = 1
  Retention = 2
  Overlap = 1
  MaxChanges = 3
  MaxHidden = 0
  MaxStops = 1
INVARIANTS
  InterruptedEditionResumes
CHECK_DEADLOCK FALSE
