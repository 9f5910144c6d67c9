\* Up to three hunks, one or two permits, two workers; stdin may block for ever.
SPECIFICATION FairSpec
CONSTANTS
  Setups <- MCSetups
  Workers = {w1, w2}
  ChunkLimit = 2
  HunkLimit = 3
INVARIANTS
  EmittedInOrder
  NothingLost
  PermitsExact
PROPERTIES
  ReturnsWithoutStdin
