SPECIFICATION FairSpec
CONSTANTS
  MaxPIN = 1
  MaxPUK = 1
  MaxSlots = 1
  Readers = {r1}
  Cards = {c1}
  Clients = {a}
  Monitors = {m1, m2}
  None = None
  Unplugged = Unplugged
  Ops <- NoStop
  Faults <- NoFaults
  Lost = {}
  CardTypes <- AnyKeycard
  StartSlots <- OneInserted
  ResetRenewsUID = TRUE
  Polite = TRUE
  Settled = FALSE
  MaxMoves = 0
  MaxCalls = 5
INVARIANTS
  NoPanic
PROPERTIES
  CallsReturn
  CommandsLeadOn
CHECK_DEADLOCK FALSE
