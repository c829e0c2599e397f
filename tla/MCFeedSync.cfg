CONSTANTS
  Size = 3
  Carried = {0, 1}
  MaxBuffered = 2
  Burst = 1
  MaxUpdates = 3
  MaxRestarts = 1
  PageSize = 1
  Quiet = TRUE
  MaxCrashes = 1
SPECIFICATION FairSpec
INVARIANTS Synced NothingSkipped SinceIsExact
PROPERTIES  EventuallySynced
CHECK_DEADLOCK FALSE
