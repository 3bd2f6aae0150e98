SPECIFICATION FairSpec
CONSTANTS
  Slots = {1}
  p1 = p1
  p2 = p2
  u1 = u1
  u2 = u2
  PINs = {p1, p2}
  PUKs = {u1, u2}
  DefaultPIN = p1
  DefaultPUK = u1
  None = None
  Flows <- KeptFlows
  Opening <- Openings
  Answers <- AllAnswers
  Kinds <- SomeKinds
  Custom <- Supplied
  Events <- AllEvents
  Manners = {FALSE}
  MaxPIN = 2
  MaxPUK = 2
  MaxCalls = 4
  MaxHasty = 2
  MaxEvents = 2
  MaxRuns = 2
  MaxFaults = 0
INVARIANTS
  NoPanic
CHECK_DEADLOCK FALSE
