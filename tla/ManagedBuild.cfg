SPECIFICATION Spec
CONSTANTS
  Jobs = {j1, j2}
SYMMETRY MCJobs
INVARIANTS
  LayoutResumes
  OpenMeansComplete
  StagedProgramSeesNoSecrets
PROPERTIES
  NothingTakenOver
