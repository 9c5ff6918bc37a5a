SPECIFICATION ChunkSpec
CONSTANTS
  MaxSize = 8
  Limits = {0, 1, 2, 3, 5}
INVARIANT Covers
INVARIANT ChunkBound
INVARIANT WordsStayWhole
INVARIANT SentencesStayWhole
