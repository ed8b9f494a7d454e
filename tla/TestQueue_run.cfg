SPECIFICATION FairSpec
CONSTANTS
  MaxBatches = 2
  MaxCases = 3
  MaxContinues = 2
  MaxStops = 2
  MaxErrors = 2
INVARIANTS
  TypeOK CaseListApart EachCaseOnce PostedOrder InterruptedKept
PROPERTIES
  StopsAfterCurrent RunEnds
CHECK_DEADLOCK FALSE
