SPECIFICATION Spec
CONSTANTS
  MaxPIN = 1
  MaxPUK = 1
  MaxSlots = 3
  c1 = c1
  Cards = {c1}
  None = None
  Wrong = Wrong
  Malformed = Malformed
  Fake = {}
  CardTypes <- FullCards
  Flows <- Others
  StartParams <- Plain
  KnownCA = FALSE
  Mishaps <- NoFaults
  Cooperative = FALSE
  MaxFlows = 1
  MaxReplies = 1
  MaxFaults = 0
INVARIANTS
  ReportsOtherSlots
CHECK_DEADLOCK FALSE
