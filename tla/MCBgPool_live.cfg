\* One task of either kind, two callers with every operation: what is told to end
\* ends, and everybody returns.
SPECIFICATION FairSpec
CONSTANTS
  NoSpec = NoSpec
  s1 = s1
  s2 = s2
  c1 = c1
  c2 = c2
  Specs <- TwoKinds
  Callers <- TwoCallers
  OpsOf <- AllOpsSplit
  MaxConcurrent = 1
  MaxTasks = 1
  StopMayFail = FALSE
PROPERTIES
  LimitedTaskSettles
  
  AnnouncesEveryEnd
CHECK_DEADLOCK FALSE
