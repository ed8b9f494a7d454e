SPECIFICATION Spec
CONSTANTS
  Files <- AnyFiles
  Blocks <- AnyBlocks
  Missing <- AbsentFile
  MaxLink = 2
  MaxFaults = 1
  MaxRefusals = 1
  MaxOvertakes = 1
  MaxNRetry = 1
  MaxBlocks = 2
  MaxTransfers = 1
  MaxTimeoutCount = 2
  MaxPkts = 2
  MaxMisreads = 1
INVARIANTS
  TypeOK
  OackIsEarned
PROPERTIES
  TransferSpec
CHECK_DEADLOCK FALSE
