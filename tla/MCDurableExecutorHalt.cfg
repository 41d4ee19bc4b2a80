SPECIFICATION FairSpec
CONSTANTS
  Offers <- OneOffer
  LeaseMs = 1
  MaxSeq = 1
PROPERTY LeaseEndsRun
CHECK_DEADLOCK FALSE
