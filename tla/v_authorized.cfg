SPECIFICATION Spec
CONSTANTS
  MaxPIN = 2
  MaxPUK = 1
  MaxSlots = 1
  Readers = {r1}
  Cards = {c1}
  Clients = {a, b}
  Monitors = {m1, m2}
  None = None
  Unplugged = Unplugged
  Ops <- NoStop
  Faults <- NoFaults
  Lost = {}
  CardTypes <- UsedCards
  StartSlots <- OneInserted
  ResetRenewsUID = TRUE
  Polite = TRUE
  Settled = FALSE
  MaxMoves = 0
  MaxCalls = 2
INVARIANTS
  AuthorizedMeansVerified
CHECK_DEADLOCK FALSE
