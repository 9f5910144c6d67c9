SPECIFICATION FairSpec
CONSTANTS
  Names <- MCNames
  Kind <- MCKind
  RequestLists <- GitlinkLists
  PipeCap = 2
  BlobUnits = 2

PROPERTIES
  Returns
