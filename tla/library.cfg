SPECIFICATION Spec
CONSTANTS
  Threads = {t}
  Objects = {o1, o2}
  Cards = {c1, c2}
  None = None
  Tidy = TRUE
  Mishaps <- AllFaults
  MaxCalls = 12
  MaxFaults = 3
SYMMETRY Symmetry
INVARIANTS
  TypeOK
  OneAPI
  NoOrphans
  SlotsAccounted
CHECK_DEADLOCK FALSE
