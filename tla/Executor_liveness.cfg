SPECIFICATION FairSpec
CONSTANTS
  NumCases = 2
  Order <- OrderTwo
  Iterations <- IterationsTwo
  NoHandles <- HandlesMiddle
  ProtocolTests = {1}
  Filtered <- MiddleFiltered
  ResetRequired = {2}
  ClearsRecord = {1, 2}
  MayHang = {1, 2}
  TestGuids <- GuidsTwo
  EnableScreenOutput = FALSE
  CrashAt <- CrashInInstance
  MaxRec <- OnceTwo
  MaxRuns = 1
  MaxResets = 1
  MaxFaults = 1
INVARIANTS AllInstancesTested
PROPERTIES RunCompletes
