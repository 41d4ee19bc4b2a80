SPECIFICATION CustodySpec
CONSTANTS
  m1 = m1
  m2 = m2
  Msg = {m1, m2}
  Window = 1
  None = None
SYMMETRY MsgSymmetry
INVARIANTS NoLoss
PROPERTY ImplementsMailbox
