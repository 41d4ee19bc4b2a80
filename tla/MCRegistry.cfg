SPECIFICATION RegistrySpec
CONSTANTS
  Team = {t1, t2}
  Node = {n1, n2}
  Token = {k1, k2}
  Grant = {g1}
  Task = {a1}
  Owned = {t1}
  MaxKeys = 2
  MaxNodes = 2
  EnrollTtl = 0
  SessionTtl = 1
  OrphanTtl = 1
  OfflineTtl = 1
  MaxEpoch = 3
  MaxClock = 1
  None = None
SYMMETRY Symmetries
INVARIANTS StateIsValid RoutesAreCurrent
PROPERTY OwnerActsOnOwnTeam
CHECK_DEADLOCK FALSE
