SPECIFICATION FairSpec
CHECK_DEADLOCK FALSE
CONSTANTS
  Versions <- MCVersions
  RecordCount = 3
  Blobs <- MCBlobs
  Contents <- MCContents
  Edits <- MCEdits
  Absent = Absent
  Torn = Torn
  Foreign = Foreign
INVARIANTS
  OriginalsPreserved
  JournalsAreTrue
  AgentMatchesDisk
PROPERTIES
  RollbackRestores
  ImplementsImage
  LockIsReleased
