SPECIFICATION ClaimsFairSpec
CONSTANTS
  a1 = a1
  a2 = a2
  Authority = {a1, a2}
  Ttl = 1
  MaxAttempts = 2
  MaxGeneration = 3
  MaxClock = 1
  NoClaim = NoClaim
INVARIANTS FencingTokens OwnerKeepsClaim RoutesMatchConnections
PROPERTIES NoticeServesOwner SplitBrainEnds SuspendedLeaves
