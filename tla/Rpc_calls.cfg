SPECIFICATION Spec
CONSTANTS
  MaxLink = 2
  Upsets = {"lose", "repeat", "memory", "cleanup"}
  MaxUpsets = 2
  Patient = FALSE
  Prompt = TRUE
  FirstSeq = 7
  CommandKinds = {"plain", "execute"}
  MaxCalls = 2
  MaxCleanups = 1
  MaxProbes = 0
  MaxQueue = 2
  Tries = 2
INVARIANTS
  SenderCanHear ExecutedInOrder
PROPERTIES
  CallSpec
CHECK_DEADLOCK FALSE
