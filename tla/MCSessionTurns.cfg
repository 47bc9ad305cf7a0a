\* Two prompts, a rewind, a deletion, and the session let go and loaded again.
SPECIFICATION Spec
CONSTANTS
  Turns = {t1, t2}
  Rewinders = {r}
  Deleters = {d}
  Loaders = {l}
  MaxTries = 2
  MaxStates = 2
  MaxFiles = 2
  MaxLetGo = 1
SYMMETRY Symmetry
INVARIANTS
  TypeOK
  LockExcludes
  
  RunningHasBundle

  
CHECK_DEADLOCK FALSE
