SPECIFICATION FairSpec
CONSTANTS
  Publishers = {p1, p2}
  Connections = {c1, c2}
  None = None
  Quiet = TRUE
  MaxChanges = 3
  MaxTroubles = 1
INVARIANTS
  TypeOK
  NoGaps
PROPERTIES
  PublishReturns
CHECK_DEADLOCK FALSE
