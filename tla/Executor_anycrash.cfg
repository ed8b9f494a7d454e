SPECIFICATION Spec
CONSTANTS
  NumCases = 2
  Order <- OrderTwo
  Iterations <- IterationsTwo
  NoHandles <- HandlesTwo
  ProtocolTests = {1}
  Filtered <- NoFilterTwo
  ResetRequired = {2}
  ClearsRecord = {2}
  MayHang = {1, 2}
  TestGuids <- GuidsTwo
  EnableScreenOutput = FALSE
  CrashAt <- CrashAnywhere
  MaxRec <- OnceTwo
  MaxRuns = 1
  MaxResets = 1
  MaxFaults = 2
INVARIANTS TypeOK PositionOK MemoryInOrder ResumeInOrder
