\* Lines that are not part of a patch, between the patches of one stream.
SPECIFICATION Spec
CONSTANTS
  Setups <- OnelineLog
  Workers = {w1, w2}
  ChunkLimit = 2
  HunkLimit = 3
INVARIANTS
  PassesEverythingElse
