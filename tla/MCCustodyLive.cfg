SPECIFICATION CustodyFairSpec
CONSTANTS
  m1 = m1
  Msg = {m1}
  Window = 1
  None = None
INVARIANT NoLoss
PROPERTIES ImplementsMailbox ArrivesOrExpires
