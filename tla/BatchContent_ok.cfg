SPECIFICATION FairSpec
CONSTANTS
  Names <- MCNames
  Kind <- MCKind
  RequestLists <- MCLists
  PipeCap = 1
  BlobUnits = 2
INVARIANTS
  OwnContent
  CompleteWhenOk
PROPERTIES
  Returns
