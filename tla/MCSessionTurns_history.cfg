\* Two prompts, and a surface that lets the session go between them.
SPECIFICATION Spec
CONSTANTS
  Turns = {t1, t2}
  Rewinders = {}
  Deleters = {}
  Loaders = {l}
  MaxTries = 2
  MaxStates = 2
  MaxFiles = 2
  MaxLetGo = 1
SYMMETRY Symmetry
PROPERTY HistoryIsKept
CHECK_DEADLOCK FALSE
