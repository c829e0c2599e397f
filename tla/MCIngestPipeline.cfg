CONSTANTS
  Workers = {w1, w2}
  PageMax = 1
  FlushSize = 2
  MaxPending = 2
  MaxPosition = 2
  MaxEnq = 4
  MaxCrashes = 1
SPECIFICATION Spec
SYMMETRY Symmetry
INVARIANT NothingDropped
PROPERTY CursorPromise
CHECK_DEADLOCK FALSE
