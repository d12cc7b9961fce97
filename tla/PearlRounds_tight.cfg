CONSTANTS
    Token = {0, 1}
    Eos = {}
    NoToken = NoToken
    NumRequests = 1
    Prompt <- MCOnePrompt
    MaxTokens <- MCOneMaxTokens
    Gamma = 4
    MaxNumSeqs = 1
    EnableContinuousBatching = FALSE
    PadFinishedRequests = FALSE
    NumBuckets = 1
    MaxModelLen = 12
    BlockSize = 4
    Greedy = TRUE
    TargetSupport <- MCGreedySupport
SPECIFICATION Spec
INVARIANTS AdmittedRequestsFit
