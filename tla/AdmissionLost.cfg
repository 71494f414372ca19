SPECIFICATION FairSpec
CONSTANTS
  Docs <- OneDoc
  Landed = {}
  Owners = {"ann"}
  OwnerOf <- OneOwner
  Limit = 1
  Cap = 0
  MaxRecoveries = 1
  Requests = {q1}
  Sweeper = sweeper
  Nobody = nobody
  MaxRuns = 3
  MaxRetries = 0
  MaxFaults = 2
  Allows = {"orphan"}
INVARIANTS TypeOK ClaimIsHeld LostStaysLost
PROPERTIES EveryDocumentSettles OneWorkerAtATime
