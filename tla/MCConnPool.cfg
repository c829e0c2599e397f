CONSTANTS
  Conns = {c1, c2, c3}
  Handlers = {r1, r2, r3}
  Slugs = {s1, s2}
  None = None
SPECIFICATION FairPoolSpec
INVARIANTS PoolDrains
PROPERTY RequestsEnd
