SPECIFICATION FairSpec
CONSTANTS
  MaxPIN = 1
  MaxPUK = 1
  MaxSlots = 1
  Readers = {r1}
  Cards = {c1, c2}
  Clients = {}
  Monitors = {m1, m2}
  None = None
  Unplugged = Unplugged
  Ops <- AllOps
  Faults <- NoFaults
  Lost = {}
  CardTypes <- UsedCards
  StartSlots <- OneInserted
  ResetRenewsUID = TRUE
  Polite = FALSE
  Settled = TRUE
  MaxMoves = 2
  MaxCalls = 2
PROPERTIES
  CardIsTracked
CHECK_DEADLOCK FALSE
