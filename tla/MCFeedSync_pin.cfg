CONSTANTS
  Size = 3
  Carried = {0, 1}
  MaxBuffered = 2
  Burst = 1
  MaxUpdates = 2
  MaxRestarts = 0
  PageSize = 2
  Quiet = FALSE
  MaxCrashes = 0
SPECIFICATION Spec
INVARIANT NothingSkipped
CHECK_DEADLOCK FALSE
