SPECIFICATION FairSpec
CONSTANTS
  MaxPIN = 1
  MaxPUK = 1
  MaxSlots = 2
  c1 = c1
  Cards = {c1}
  None = None
  Wrong = Wrong
  Malformed = Malformed
  Fake = {}
  CardTypes <- AllCards
  Flows <- AllFlows
  StartParams <- Resetting
  KnownCA = FALSE
  Mishaps <- AllFaults
  Cooperative = TRUE
  MaxFlows = 1
  MaxReplies = 0
  MaxFaults = 2
PROPERTIES
  EndsOrWaits
CHECK_DEADLOCK FALSE
