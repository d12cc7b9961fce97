CONSTANTS
    Token = {0, 1}
    Eos = {}
    NoToken = NoToken
    NumRequests = 4
    Prompt <- MCPrompt
    MaxTokens <- MCQueueMaxTokens
    Gamma = 2
    MaxNumSeqs = 3
    EnableContinuousBatching = TRUE
    PadFinishedRequests = FALSE
    NumBuckets = 2
    MaxModelLen = 12
    BlockSize = 4
    Greedy = TRUE
    TargetSupport <- MCGreedySupport
SPECIFICATION Spec
INVARIANTS NoWorkerRaises ReplicasAgree ResultsComplete
PROPERTIES Termination
