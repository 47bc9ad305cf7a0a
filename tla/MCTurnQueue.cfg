SPECIFICATION Spec
CONSTANTS
  MaxMessages = 3
  MaxQueued = 2
  MaxRuns = 2
  MaxTurns = 1
INVARIANTS
  InOnePlace
  IdleQueueIsKept
PROPERTIES
  OnlySteerIsDropped
  ReservedIsReadFirst
CHECK_DEADLOCK FALSE
