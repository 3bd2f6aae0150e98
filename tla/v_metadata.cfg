SPECIFICATION Spec
CONSTANTS
  MaxPIN = 1
  MaxPUK = 1
  MaxSlots = 2
  Readers = {r1}
  Cards = {c1, c2}
  Clients = {a}
  Monitors = {m1, m2}
  None = None
  Unplugged = Unplugged
  Ops <- NoStop
  Faults <- NoFaults
  Lost = {}
  CardTypes <- UsedOrEmpty
  StartSlots <- NoCardInserted
  ResetRenewsUID = TRUE
  Polite = TRUE
  Settled = TRUE
  MaxMoves = 4
  MaxCalls = 2
INVARIANTS
  MetadataIsOfTheCard
CHECK_DEADLOCK FALSE
\* Another that is refuted when Settled = FALSE:
\* INVARIANTS ReadyIsCoherent
