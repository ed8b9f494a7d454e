SPECIFICATION Spec
CONSTANTS
  Digits = {0, 2, 12}
  MaxInstance = 3
  MaxHandles = 5
  MaxIterations = 4
  MaxRuns = 2
INVARIANTS TypeOK FindsMaximum TallyExact
CHECK_DEADLOCK FALSE
