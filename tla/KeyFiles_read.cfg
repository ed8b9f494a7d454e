SPECIFICATION Spec
CONSTANTS
  Digits = {}
  MaxInstance = 3
  MaxHandles = 5
  MaxIterations = 4
  MaxRuns = 1
INVARIANTS ReadsMaximum
CHECK_DEADLOCK FALSE
