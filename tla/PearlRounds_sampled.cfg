CONSTANTS
    Token = {0, 1, 2}
    Eos = {2}
    NoToken = NoToken
    NumRequests = 2
    Prompt <- MCPrompt
    MaxTokens <- MCMaxTokens
    Gamma = 2
    MaxNumSeqs = 2
    EnableContinuousBatching = FALSE
    PadFinishedRequests = TRUE
    NumBuckets = 1
    MaxModelLen = 7
    BlockSize = 1
    Greedy = FALSE
    TargetSupport <- MCSampledSupport
SPECIFICATION Spec
INVARIANTS CacheFresh AdmittedRequestsFit CommittedLengthExact
PROPERTIES RefinesAutoregressive
