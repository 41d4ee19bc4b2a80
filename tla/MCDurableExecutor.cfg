SPECIFICATION FairSpec
CONSTANTS
  Offers <- TwoAttempts
  LeaseMs = 2
  MaxSeq = 1
INVARIANTS
  PersistedRunDecodes
  OneProcess
  QuiescedBeforeTerminal
  StartOnce
  OneVerdict
PROPERTIES
  NoResultAfterStop
  SlotIsReleased
CHECK_DEADLOCK FALSE
