SPECIFICATION Spec
CONSTANTS
  NumCases = 4
  Order <- OrderFour
  Iterations <- IterationsFour
  NoHandles <- HandlesFour
  ProtocolTests = {1, 3, 4}
  Filtered <- NoFilterFour
  ResetRequired = {2}
  ClearsRecord = {2}
  MayHang = {1, 2}
  TestGuids <- GuidsFour
  EnableScreenOutput = FALSE
  CrashAt <- CrashInInstance
  MaxRec <- TwiceFour
  MaxRuns = 2
  MaxResets = 1
  MaxFaults = 1
INVARIANTS ResultsExact AllInstancesTested HangReported RecordOwned FreshOnce
PROPERTIES LogsOnlyGrow
