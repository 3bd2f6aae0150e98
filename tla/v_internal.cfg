SPECIFICATION Spec
CONSTANTS
  MaxPIN = 1
  MaxPUK = 1
  MaxSlots = 1
  Readers = {r1}
  Cards = {c1}
  Clients = {a}
  Monitors = {m1, m2}
  None = None
  Unplugged = Unplugged
  Ops <- AllOps
  Faults <- NoFaults
  Lost = {}
  CardTypes <- UsedCards
  StartSlots <- OneInserted
  ResetRenewsUID = TRUE
  Polite = FALSE
  Settled = FALSE
  MaxMoves = 0
  MaxCalls = 1
INVARIANTS
  NeverInternalError
CHECK_DEADLOCK FALSE
