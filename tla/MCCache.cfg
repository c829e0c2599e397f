CONSTANTS
  Requests = {r1, r2}
  Keys = {k1}
  None = None
  MaxVersion = 2
SPECIFICATION FairSpec
INVARIANTS OneFill
PROPERTIES NeverBackwards RequestsEnd
CHECK_DEADLOCK FALSE
