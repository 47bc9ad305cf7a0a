\* Two prompts and nothing else: is the lock a lock?
SPECIFICATION Spec
CONSTANTS
  Turns = {t1, t2}
  Rewinders = {}
  Deleters = {}
  Loaders = {}
  MaxTries = 2
  MaxStates = 2
  MaxFiles = 2
  MaxLetGo = 0
SYMMETRY Symmetry
INVARIANT OneTurnAtATime
CHECK_DEADLOCK FALSE
