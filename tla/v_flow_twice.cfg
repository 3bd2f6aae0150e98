SPECIFICATION Spec
CONSTANTS
  Callers = {a, b}
  Calls <- NoCancel
  Runs = {r1, r2}
  Contexts = {k1, k2}
  None = None
  Patient = FALSE
  MaxCalls = 1
  MaxMoves = 0
INVARIANTS
  OneFlow
CHECK_DEADLOCK FALSE
