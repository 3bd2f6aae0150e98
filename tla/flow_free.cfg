SPECIFICATION Spec
CONSTANTS
  Callers = {a}
  Calls <- AllCalls
  Runs = {r1, r2}
  Contexts = {k1, k2, k3}
  None = None
  Patient = FALSE
  MaxCalls = 4
  MaxMoves = 2
SYMMETRY GoroutineSymmetry
INVARIANTS
  TypeOK
  OneFlow
  NoSilentEnd
  LeaksOnlyByCancel
CHECK_DEADLOCK FALSE
