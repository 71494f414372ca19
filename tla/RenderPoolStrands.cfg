SPECIFICATION FairSpec
CONSTANTS
  a = a
  b = b
  Documents = {a, b}
  Pages <- ScanAndExport
  Width = 2
  Exports = {b}
  Cpus = 1
  None = None
  MaxLost = 1
  MaxStops = 0
PROPERTIES EveryDocumentEnds
CHECK_DEADLOCK FALSE
