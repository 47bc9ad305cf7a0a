SPECIFICATION FairSpec
CONSTANTS
  t1 = t1
  t2 = t2
  Tasks <- TwoTasks
  MaxWakes = 1
  MaxAttempts = 1
  MaxUserTurns = 2
  Faults = {"error", "shutdown"}

  
  
PROPERTIES
  WokenOnce
  
  AssumesTheContract
CHECK_DEADLOCK FALSE
