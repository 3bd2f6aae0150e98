SPECIFICATION Spec
CONSTANTS
  MaxPIN = 1
  MaxPUK = 1
  MaxSlots = 3
  c1 = c1
  Cards = {c1}
  None = None
  Wrong = Wrong
  Malformed = Malformed
  Fake = {}
  CardTypes <- UsedCards
  Flows <- Public
  StartParams <- Master
  KnownCA = FALSE
  Mishaps <- Moves
  Cooperative = FALSE
  MaxFlows = 1
  MaxReplies = 1
  MaxFaults = 1
INVARIANTS
  NoNilDereference
CHECK_DEADLOCK FALSE
