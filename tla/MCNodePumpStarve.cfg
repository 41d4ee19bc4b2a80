SPECIFICATION PumpFairSpec
CONSTANTS
  Envelope = {e1, e2, e3}
  PumpBatch = 2
  MaxRevoked = 2
PROPERTIES OutageIsNotRefusal
