SPECIFICATION FairSpec
CONSTANTS
  MaxLink = 3
  Upsets = {"lose", "repeat", "cleanup", "reset", "exhaust"}
  MaxUpsets = 1
  Patient = TRUE
  Prompt = TRUE
  FirstSeq = 7
  CommandKinds = {"plain", "execute"}
  MaxCalls = 3
  MaxCleanups = 1
  MaxProbes = 1
  MaxQueue = 2
  Tries = 3
PROPERTIES
  CallSpec CallReturns CleanupHappens
CHECK_DEADLOCK FALSE
