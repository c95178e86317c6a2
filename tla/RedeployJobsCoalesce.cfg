SPECIFICATION Spec
SYMMETRY TaskSymmetry
CONSTANTS
  Jobs = {1, 2, 3}
  t1 = t1
  t2 = t2
  Tasks <- MCTasks
  None = None
  LastPhase = 1
  MaxFaults = 0
INVARIANTS
  ActiveJobsCoalesce
