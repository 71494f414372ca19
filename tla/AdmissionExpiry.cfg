SPECIFICATION FairSpec
CONSTANTS
  Docs <- OneDoc
  Landed = {1}
  Owners = {"ann"}
  OwnerOf <- OneOwner
  Limit = 1
  Cap = 0
  MaxRecoveries = 1
  Requests = {}
  Sweeper = sweeper
  Nobody = nobody
  MaxRuns = 3
  MaxRetries = 0
  MaxFaults = 0
  Allows = {"expiry", "children"}
PROPERTIES EveryRunEnds
