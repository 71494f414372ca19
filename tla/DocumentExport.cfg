SPECIFICATION FairSpec
CONSTANTS
  Count = 2
  Sealed = {2}
  p1 = p1
  p2 = p2
  Pages <- BothPages
  MaxRecoveries = 1
  MaxRuns = 4
  MaxFaults = 2
  Allows = {}
INVARIANTS ReadyIsWhole HandedOverOnce VaultFitsFile KeyIsKept StopsSoon
PROPERTIES OverStaysOver ExportSettles
