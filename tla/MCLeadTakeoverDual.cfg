\* Three machines that may lead, one executor; exports and breaches of the
\* procedure together at most two.
SPECIFICATION TakeoverSpec
CONSTANTS
  n1 = n1
  n2 = n2
  A = A
  B = B
  C = C
  Nodes = {n1}
  NoNode = NoNode
  Leads = {A, B, C}
  Origin = A
  NoRow = NoRow
  NoLead = NoLead
  Leases = {3}
  DefaultLease = 3
  GraceMs = 0
  OfferTtlMs = 1
  DrainMs = 1
  CancelWaitMs = 1
  MaxAttempts = 2
  MaxDispatchRounds = 1
  MaxOffers = 4
  MaxHandovers = 2
SYMMETRY Symmetry
INVARIANT HighWaterIsBackstop
CHECK_DEADLOCK FALSE
