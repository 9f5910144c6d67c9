SPECIFICATION Spec
CONSTANTS
  SrcSize = 4
  DstSize = 4
INVARIANTS
  WorkingCopyIsTree
  TurnsSrcIntoDst
  MovesAreMinimal
