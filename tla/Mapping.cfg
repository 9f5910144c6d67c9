SPECIFICATION Spec
CONSTANTS
  T1 <- MCT1
  T2 <- MCT2
  None <- MCNone
INVARIANTS
  OneToOne
  PairsAgree
PROPERTIES
  InsertionOrderKept
