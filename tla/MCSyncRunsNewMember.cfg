SPECIFICATION Spec
CONSTANTS
  Page <- Pages2
  Dynamic = TRUE
  KeepTracking = FALSE
  DirectUpdate = FALSE
  MaxClock = 2
  MaxChanges = 1
  MaxFailures = 0
  MaxStops = 0
INVARIANT SelectionCaptured

