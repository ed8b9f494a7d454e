SPECIFICATION Spec
CONSTANTS
  NumCases = 2
  Order <- OrderTwo
  Iterations <- IterationsTwo
  NoHandles <- HandlesTwo
  ProtocolTests = {1}
  Filtered <- NoFilterTwo
  ResetRequired = {}
  ClearsRecord = {1}
  MayHang = {}
  TestGuids <- GuidsTwo
  EnableScreenOutput = FALSE
  CrashAt = {"purge"}
  MaxRec <- OnceTwo
  MaxRuns = 2
  MaxResets = 0
  MaxFaults = 1
INVARIANTS ResultsExact
