CONSTANTS
  Clients = {c1, c2}
  FlushSize = 2
  MaxPending = 2
  MaxBatch = 3
  MaxEnq = 4
SPECIFICATION ScheduledSpec
INVARIANTS CountersAgree NothingLost BufferIsNewest BoundedMemory ReleasedIsDurable NoRowAfterDrain
PROPERTIES ShutdownEnds WaitersReturn
CHECK_DEADLOCK FALSE
