SPECIFICATION FairSpec
CONSTANTS
  Jobs = {1}
  t1 = t1
  t2 = t2
  Tasks <- MCTasks
  None = None
  LastPhase = 2
  MaxFaults = 3
PROPERTIES
  PointerIsReleased
