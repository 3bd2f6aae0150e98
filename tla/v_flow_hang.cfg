SPECIFICATION FairSpec
CONSTANTS
  Callers = {a}
  Calls <- AllCalls
  Runs = {r1}
  Contexts = {k1, k2}
  None = None
  Patient = FALSE
  MaxCalls = 2
  MaxMoves = 1
PROPERTIES
  CallReturns
CHECK_DEADLOCK FALSE
