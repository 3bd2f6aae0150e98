SPECIFICATION Spec
CONSTANTS
  Publishers = {p1, p2}
  Connections = {c1, c2}
  None = None
  Quiet = FALSE
  MaxChanges = 2
  MaxTroubles = 1
INVARIANTS
  StopIsAlone
CHECK_DEADLOCK FALSE
