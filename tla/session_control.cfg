SPECIFICATION Spec
CONSTANTS
  MaxPIN = 1
  MaxPUK = 1
  MaxSlots = 2
  Readers = {r1}
  Cards = {c1}
  Clients = {a, b}
  Monitors = {m1, m2}
  None = None
  Unplugged = Unplugged
  Ops <- AllOps
  Faults <- AllFaults
  Lost = {}
  CardTypes <- MixedCards
  StartSlots <- Anywhere
  ResetRenewsUID = TRUE
  Polite = FALSE
  Settled = FALSE
  MaxMoves = 1
  MaxCalls = 1
SYMMETRY AllSymmetry
INVARIANTS
  TypeOK
  MutexExact
  QueueMatchesWaiters
  AtMostOneMonitor
CHECK_DEADLOCK FALSE
