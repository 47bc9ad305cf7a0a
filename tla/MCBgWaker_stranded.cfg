SPECIFICATION FairSpec
CONSTANTS
  t1 = t1
  t2 = t2
  Tasks <- TwoTasks
  MaxWakes = 2
  MaxAttempts = 1
  MaxUserTurns = 2
  Faults = {}
INVARIANT QueuedIsDrained
CHECK_DEADLOCK FALSE
