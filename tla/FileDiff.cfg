SPECIFICATION Spec
CONSTANTS
  Inputs <- MCInputs
  Parse <- MCParse
  LineLimit = 10
  Rules <- MCRules
  Opening = {"{"}
  Closing = {"}"}
  Separators = {","}
  Near = 1
  Similarity <- MCSimilarity
  SharedWords <- MCSharedWords
  MaxCells = 16
  DenseSide = 1
  DenseCells = 4
  BandWidth = 1
  BandSlack = 0
  Punctuation = {"}"}
  WindowCells = 16
  Alike <- MCAlike
  AlikeLines <- MCAlikeLines
  CommentWindow = 3
  FuzzyWindow = 2
  RowsOf <- MCRowsOf
INVARIANTS
  EveryLineOnce
  BestRows
  CommentsAccounted
  UnifiedIsPatch
  ColumnsComplete
  UntouchedOnBothSides
  CompactionKeepsText
