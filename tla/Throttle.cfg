SPECIFICATION FairSpec
CONSTANTS
  p1 = p1
  p2 = p2
  c1 = c1
  c2 = c2
  c3 = c3
  Procs <- TwoProcs
  Calls <- ThreeCalls
  ProcOf <- OneIsFar
  Concurrency = 2
  MaxAttempts <- FirstRetries
  MaxFaults = 1
  Nothing = Nothing
INVARIANTS SlotsAreHeld NobodyWaitsForNothing ClusterKeepsLimit
PROPERTIES EveryCallEnds
CHECK_DEADLOCK FALSE
