SPECIFICATION FairSpec
CONSTANTS
  Callers = {a}
  Calls <- AllCalls
  Runs = {r1}
  Contexts = {k1, k2}
  None = None
  Patient = TRUE
  MaxCalls = 5
  MaxMoves = 3
INVARIANTS
  WaitsAreAnnounced
  IdleWhenDone
PROPERTIES
  WorksOrAsks
  ImplementsProtocol
CHECK_DEADLOCK FALSE
