SPECIFICATION Spec
CONSTANTS
  Docs <- OneDoc
  Landed = {}
  Owners = {"ann"}
  OwnerOf <- OneOwner
  Limit = 1
  Cap = 0
  MaxRecoveries = 2
  Requests = {q1, q2}
  Sweeper = sweeper
  Nobody = nobody
  MaxRuns = 4
  MaxRetries = 2
  MaxFaults = 0
  Allows = {"retry"}
INVARIANTS OneRunPerDocument
PROPERTIES ReadyStaysReady
