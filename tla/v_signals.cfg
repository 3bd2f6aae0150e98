SPECIFICATION Spec
CONSTANTS
  Publishers = {p1, p2}
  Connections = {c1, c2}
  None = None
  Quiet = TRUE
  MaxChanges = 2
  MaxTroubles = 1
INVARIANTS
  LastIsCurrent
\* Another this configuration refutes by itself:
\* INVARIANTS StopClosesAll
CHECK_DEADLOCK FALSE
