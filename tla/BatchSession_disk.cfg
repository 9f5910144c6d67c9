\* A corrupt object, after three hunks that a dead process has cost.
SPECIFICATION Spec
CONSTANTS
  Objects <- MCObjects
  Kind <- MCKind
  HunkLists <- OneCorrupt
  SamePath <- MCSamePath
  FailureLimit = 3
  BlobUnits = 2
INVARIANTS
  DiskOnlyWhenMissing
