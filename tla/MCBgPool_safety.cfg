\* Two commands of one session, stopped by one caller, drained and cleared by
\* another, with handle.Stop failing at will.
SPECIFICATION Spec
CONSTANTS
  NoSpec = NoSpec
  s1 = s1
  s2 = s2
  c1 = c1
  c2 = c2
  Specs <- OneCommand
  Callers <- TwoCallers
  OpsOf <- SplitOps
  MaxConcurrent = 1
  MaxTasks = 2
  StopMayFail = TRUE
INVARIANTS
  TypeOK
  NoStrayWork
  CapBoundsWork
  StoppedOnce
  VerdictIsTrue
  WaitersReadTheVerdict
  DrainedIsQuiet
PROPERTIES
  
  KeepsTheContract
CHECK_DEADLOCK FALSE
