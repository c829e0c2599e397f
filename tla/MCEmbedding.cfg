CONSTANTS
  Runs = {r1, r2}
  First = 3
  Last = 5
  Batch = 2
  MaxStarts = 4
SPECIFICATION Spec
INVARIANT RerunIsSafe
PROPERTY BackfillEnds
CHECK_DEADLOCK FALSE
