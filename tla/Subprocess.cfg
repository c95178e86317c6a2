SPECIFICATION FairSpec
CONSTANTS
  Descendants = {d1, d2}
  Limit = 1
  Escapes = TRUE
INVARIANTS
  CommandIsReaped
  CapturedGroupIsDead
  OutputIsWhole
PROPERTIES
  CallsReturn
  CancellationsReturn
CHECK_DEADLOCK FALSE
