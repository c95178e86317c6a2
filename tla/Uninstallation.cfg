SPECIFICATION Spec
CONSTANTS
  RecordCount = 4
  Release <- MCRelease
  Blobs <- MCBlobs
  Edits <- MCEdits
  Absent = Absent
  Foreign = Foreign
INVARIANTS
  OriginalsPreserved
  OnlyLateClientsDisturb
PROPERTIES
  EndsAllOrNothing
  ImplementsImage
