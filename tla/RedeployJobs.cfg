SPECIFICATION Spec
SYMMETRY TaskSymmetry
CONSTANTS
  Jobs = {1, 2}
  t1 = t1
  t2 = t2
  Tasks <- MCTasks
  None = None
  LastPhase = 1
  MaxFaults = 1
INVARIANTS
  FailedMeansStopped
PROPERTIES
  PhasesOnlyAdvance
  NoJobIsDisplaced
