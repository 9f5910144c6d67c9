SPECIFICATION Spec
CONSTANTS
  Inputs <- MCInputs
  MinHeight = 2
  MaxDrift = 2
  MaxRecover = 2
  Rules <- MCRules
  Punctuation = {"}"}
  WindowCells = 64
INVARIANT
  RecoveryIsAnEdit
PROPERTY
  OnlyWholeFreeSubtrees
CHECK_DEADLOCK FALSE
