\* One server, two callers that share it, one manager that changes it and back.
SPECIFICATION Spec
CONSTANTS
  Servers = {s}
  Callers = {c1, c2}
  Managers = {m}
  MaxEntries = 2
  MaxGen = 2
  MaxChanges = 2
SYMMETRY Symmetry
INVARIANTS
  TypeOK
  NoServerIsLost
  IdleIsTimed
  UnwantedIsAsked
PROPERTIES
  HeldIsSpared
  DelayIsKept
CHECK_DEADLOCK FALSE
