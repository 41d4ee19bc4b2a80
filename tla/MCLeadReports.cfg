SPECIFICATION ReportsFairSpec
CONSTANTS
  Nodes = {n1, n2}
  NoNode = NoNode
  Leases = {1}
  DefaultLease = 1
  GraceMs = 1
  OfferTtlMs = 1
  DrainMs = 1
  CancelWaitMs = 1
  MaxAttempts = 1
  MaxDispatchRounds = 2
  MaxRenewals = 0
  CenterGated = TRUE
INVARIANTS
  NothingSkipped
PROPERTIES
  ProjectionNeverGoesBack
  OutcomeReachesCenter
  Settles
CHECK_DEADLOCK FALSE
