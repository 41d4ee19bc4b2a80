SPECIFICATION Spec
CONSTANTS
  Offers <- OneOffer
  LeaseMs = 1
  MaxSeq = 1
INVARIANT HandleOnlyNeededBeforeExit
CHECK_DEADLOCK FALSE
