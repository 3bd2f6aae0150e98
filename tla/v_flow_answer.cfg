SPECIFICATION Spec
CONSTANTS
  Callers = {a}
  Calls <- NoCancel
  Runs = {r1}
  Contexts = {k1, k2}
  None = None
  Patient = FALSE
  MaxCalls = 2
  MaxMoves = 1
PROPERTIES
  AnswerAccepted
\* Another this configuration refutes by itself:
\* PROPERTIES StartAfterResult
CHECK_DEADLOCK FALSE
