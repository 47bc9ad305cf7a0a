SPECIFICATION Spec
CONSTANTS
  MaxTasks = 1
  MaxEpochs = 1
INVARIANT ClearSparesRunning
CHECK_DEADLOCK FALSE
