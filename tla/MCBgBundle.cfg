SPECIFICATION Spec
CONSTANTS
  MaxTasks = 2
  MaxEpochs = 3

  
  
  
PROPERTY IdsAreFresh
CHECK_DEADLOCK FALSE
