SPECIFICATION Spec
CONSTANTS
  Docs <- OneDoc
  Landed = {}
  Owners = {"ann"}
  OwnerOf <- OneOwner
  Limit = 1
  Cap = 0
  MaxRecoveries = 1
  Requests = {q1, q2}
  Sweeper = sweeper
  Nobody = nobody
  MaxRuns = 3
  MaxRetries = 1
  MaxFaults = 0
  Allows = {"resend", "extend"}
INVARIANTS RunIsNamed StartsAlone
CHECK_DEADLOCK FALSE
