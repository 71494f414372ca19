SPECIFICATION Spec
CONSTANTS
  u1 = u1
  Parts = 3
  Refused = {2}
  Limit = 2
  ChargesCovered = 1
  Uploaders <- OneUploader
  MaxRecoveries = 1
  MaxTries = 2
  Slow = TRUE
  MaxRuns = 2
  MaxFaults = 1
INVARIANTS WholeWhenMarked PaidPerDocument ChargedOnce WithinAllowance
PROPERTIES SealedStays
CHECK_DEADLOCK FALSE
