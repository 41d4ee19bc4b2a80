SPECIFICATION CommandsFairSpec
CONSTANTS
  Nodes = {n1}
  NoNode = NoNode
  Leases = {1}
  DefaultLease = 1
  GraceMs = 1
  OfferTtlMs = 1
  DrainMs = 1
  CancelWaitMs = 1
  MaxAttempts = 1
  MaxDispatchRounds = 2
  MaxRenewals = 0
  CenterGated = TRUE
  MaxCommands = 2
  PullLimit = 1
INVARIANTS
  AckedCancelHolds
PROPERTIES
  Implements
  CancelEndsTask
CHECK_DEADLOCK FALSE
