CONSTANTS
  Procs = {p1, p2}
  PgFiles = 3
  ChFiles = 1
  Statements = 2
  Repeatable = {2}
  MaxCrashes = 2
SPECIFICATION FairSpec
INVARIANTS RecordedIsApplied InOrder
PROPERTY CompletesUnlessTorn
