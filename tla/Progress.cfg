SPECIFICATION FairProgressSpec
CONSTANTS
  Threads = {"one", "two"}
  MaxDepth = 2
  MaxPhases = 2
  MaxHeartbeats = 1
  Total = 1
  MaxLines = 4
  Messages = {"a", "b"}
  Nothing = "nothing"
INVARIANTS TranscriptsAreWhole HiddenWhileSuspended
PROPERTIES CompletionsReturn
CHECK_DEADLOCK FALSE
