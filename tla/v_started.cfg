SPECIFICATION Spec
CONSTANTS
  Threads = {t}
  Objects = {o1, o2}
  Cards = {c1}
  None = None
  Tidy = TRUE
  Mishaps <- AllFaults
  MaxCalls = 5
  MaxFaults = 1
PROPERTIES
  AlreadyStarted
CHECK_DEADLOCK FALSE
