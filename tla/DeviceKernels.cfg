CONSTANTS
  RankSize = 2
  CoreNum = 2
  CommCores = 2
  Rows = 5
  RowsPerRound = 2
  Tiles = 2
  PipeDepth = 2
  ExModulus = 8
  StaleFlags = {1}
  StaleEx = {7}
  Launches = 2
  EP = 2
  ExpertPerRank = 3
  MaxOutputSize = 4
  Routings <- MCRoutings
  UintModulus = 8
  MaxRows = 3
  MaxCalls = 2
  Paths = {"scalar", "vector", "chunked"}
  VocabSize = 2
  MaxSeqLen = 8
  MaxNewTokens = 2
  MinN = 1
  MaxN = 3
  K = 2
  CmpMax = 3
  StaleTokens = {0}
  Lane = 3
SPECIFICATION MCSpec
INVARIANTS AllreduceExact TokensComeHome DraftContinuesSuffix LaunchesNeverHang
CHECK_DEADLOCK FALSE
