CONSTANTS
  Paths = {"scalar"}
  VocabSize = 2
  MaxSeqLen = 8
  MaxNewTokens = 2
  MinN = 1
  MaxN = 3
  K = 2
  CmpMax = 3
  StaleTokens = {0}
  Lane = 3
SPECIFICATION NgramSpec
INVARIANT DraftMatchesGolden
