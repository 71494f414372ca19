SPECIFICATION Spec
CONSTANTS
  Docs <- TwoDocs
  Landed = {1}
  Owners = {"ann", "bob"}
  OwnerOf <- LastIsBobs
  Limit = 1
  Cap = 1
  MaxRecoveries = 1
  Requests = {q1}
  Sweeper = sweeper
  Nobody = nobody
  MaxRuns = 3
  MaxRetries = 0
  MaxFaults = 0
  Allows = {}
INVARIANTS LimitHeldAlone
