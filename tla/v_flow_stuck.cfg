SPECIFICATION Spec
CONSTANTS
  Callers = {a}
  Calls <- AllCalls
  Runs = {r1}
  Contexts = {k1, k2}
  None = None
  Patient = FALSE
  MaxCalls = 2
  MaxMoves = 0
INVARIANTS
  IdleWhenDone
\* Others this configuration refutes, each by itself:
\* INVARIANTS WaitsAreAnnounced
\* PROPERTIES CancelIsFinal
CHECK_DEADLOCK FALSE
