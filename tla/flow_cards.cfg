SPECIFICATION Spec
CONSTANTS
  MaxPIN = 2
  MaxPUK = 1
  MaxSlots = 2
  c1 = c1
  Cards = {c1, c2}
  None = None
  Wrong = Wrong
  Malformed = Malformed
  Fake = {c1}
  CardTypes <- KeyCards
  Flows <- CardFlows
  StartParams <- Insisting
  KnownCA = TRUE
  Mishaps <- AllFaults
  Cooperative = FALSE
  MaxFlows = 2
  MaxReplies = 3
  MaxFaults = 2
INVARIANTS
  TypeOK
  PinTriesAreEntered
  LoadIsAllowed
  SlotsAccounted
  ResultsAreTrue
PROPERTIES
  InstanceRespected
  PairsGenuine
CHECK_DEADLOCK FALSE
