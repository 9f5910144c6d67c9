SPECIFICATION FairSpec
CONSTANTS
  Objects <- MCObjects
  Kind <- MCKind
  HunkLists <- MCHunks
  SamePath <- MCSamePath
  FailureLimit = 3
  BlobUnits = 2
INVARIANTS
  InStep
  OwnBlobs
  DeathCostsLittle
PROPERTIES
  CloseReturns
