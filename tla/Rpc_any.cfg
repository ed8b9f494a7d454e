SPECIFICATION Spec
CONSTANTS
  MaxLink = 2
  Upsets = {"lose", "repeat", "memory", "abandon", "cleanup", "reset", "exhaust", "mute", "record"}
  MaxUpsets = 2
  Patient = TRUE
  Prompt = FALSE
  FirstSeq = 7
  CommandKinds = {"execute", "abort"}
  MaxCalls = 2
  MaxCleanups = 1
  MaxProbes = 0
  MaxQueue = 2
  Tries = 2
INVARIANTS
  TypeOK AnswersOnce
CHECK_DEADLOCK FALSE
