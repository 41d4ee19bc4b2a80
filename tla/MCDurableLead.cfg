SPECIFICATION Spec
CONSTANTS
  Nodes = {n1, n2}
  NoNode = NoNode
  Leases = {1}
  DefaultLease = 1
  GraceMs = 1
  OfferTtlMs = 1
  DrainMs = 1
  CancelWaitMs = 1
  MaxAttempts = 2
  MaxDispatchRounds = 2
  MaxRenewals = 1
  CenterGated = FALSE
SYMMETRY Symmetry
INVARIANTS
  RevokeBeforeRedispatch
  BudgetAccounting
  ReportIsCurrent
PROPERTIES
  ExclusionsRespected
  CancelIsFinal
CHECK_DEADLOCK FALSE
