SPECIFICATION EndsSpec
CONSTANTS
  Files <- TwoFiles
  Blocks <- TwoBlocks
  Missing = {}
  MaxLink = 2
  MaxFaults = 1
  MaxRefusals = 0
  MaxOvertakes = 1
  MaxNRetry = 1
  MaxBlocks = 3
  MaxTransfers = 2
  MaxTimeoutCount = 1
  MaxPkts = 2
  MaxMisreads = 0
PROPERTIES
  TransferEnds ClosingEnds
CHECK_DEADLOCK FALSE
