SPECIFICATION FairSpec
CONSTANTS
  Docs <- TwoDocs
  Width = 2
  MaxRecoveries = 1
  Requests = {q1}
  MaxExports = 1
  MaxRuns = 4
  MaxFaults = 2
  Allows = {"cancel"}
INVARIANTS ReadyIsWhole OneRunPerExport
PROPERTIES ReadyIsFinal ExportedOnce EveryExportSettles
