SPECIFICATION Spec
CONSTANTS
  Callers = {a}
  Calls <- NoCancel
  Runs = {r1}
  Contexts = {k1, k2}
  None = None
  Patient = FALSE
  MaxCalls = 2
  MaxMoves = 0
INVARIANTS
  ResumeNeverPanics
CHECK_DEADLOCK FALSE
