SPECIFICATION Spec
CONSTANTS
  Threads = {t}
  Objects = {o1, o2}
  Cards = {c1}
  None = None
  Tidy = FALSE
  Mishaps <- NoFaults
  MaxCalls = 5
  MaxFaults = 1
INVARIANTS
  NoOrphans
CHECK_DEADLOCK FALSE
