SPECIFICATION Spec
CONSTANTS
  Nodes = {n1}
  NoNode = NoNode
  Leases = {1}
  DefaultLease = 1
  GraceMs = 1
  OfferTtlMs = 1
  DrainMs = 1
  CancelWaitMs = 1
  MaxAttempts = 1
  MaxDispatchRounds = 1
  MaxRenewals = 0
  CenterGated = FALSE
INVARIANT PersistedDecodes
CHECK_DEADLOCK FALSE
