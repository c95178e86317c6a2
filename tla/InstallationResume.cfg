SPECIFICATION Spec
CHECK_DEADLOCK FALSE
CONSTANTS
  Versions <- MCVersions
  RecordCount = 3
  Blobs <- MCBlobs
  Contents <- MCContents
  Edits <- NoEdits
  Absent = Absent
  Torn = Torn
  Foreign = Foreign
INVARIANT
  RecoveryResumes
