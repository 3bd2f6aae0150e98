SPECIFICATION Spec
CONSTANTS
  Threads = {t,u}
  Objects = {o1, o2}
  Cards = {c1}
  None = None
  Tidy = FALSE
  Mishaps <- NoFaults
  MaxCalls = 5
  MaxFaults = 1
INVARIANTS
  OneAPI
\* Another this configuration refutes by itself:
\* INVARIANTS NoPanic
CHECK_DEADLOCK FALSE
