SPECIFICATION Spec
CONSTANTS
  Inputs <- MCInputs
  Rules <- MCRules
  WordChars = {"a", "b", "c", "d", "f", "g", "h", "i", "w", "x", "y", "z", "wide", "acute"}
  OperatorChars = {"=", ">", "-"}
  Indented = FALSE
  MaxTokensPerLine = 8
  MaxSuppressAlignDist = 0
  BadgeWidth = 3
  CharWidth <- MCCharWidth
INVARIANTS
  SpansInOrder
  ChangesArePainted
  OnlyChangesArePainted
  RowsShowTheLine
  PlainWordsAgree
  MovesAreSignposted
