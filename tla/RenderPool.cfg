SPECIFICATION FairSpec
CONSTANTS
  a = a
  b = b
  Documents = {a, b}
  Pages <- ScanAndExport
  Width = 3
  Exports = {b}
  Cpus = 2
  None = None
  MaxLost = 2
  MaxStops = 1
INVARIANTS WithinCpus CostsOnePage DrawnWhereOpen
PROPERTIES EveryDocumentEndsOrStrands
CHECK_DEADLOCK FALSE
