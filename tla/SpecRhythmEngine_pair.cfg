CONSTANTS
    Token = {0, 1}
    Eos = {}
    NoToken = NoToken
    NumRequests = 2
    Prompt <- MCPrompt
    MaxTokens <- MCMaxTokens
    Gamma = 2
    MaxNumSeqs = 2
    NumBuckets = 2
    MaxModelLen = 7
    BlockSize = 1
    Greedy = TRUE
    TargetSupport <- MCGreedySupport
    MinGamma = 1
    MaxGamma = 2
    RequestMaxGamma <- MCRequestMaxGamma
    RooflineBatchContext <- NoEntries
    RooflineBatch <- NoEntries
    RooflineDefault = 3
    ContextBucket = 100
    DraftTokenBudget <- NoBudget
    MaxEagerTokens = 2
    LateRequest = {}
SPECIFICATION Spec
INVARIANTS NoWorkerRaises EnvelopeMatches ReplicasAgree CacheFresh
PROPERTIES RefinesAutoregressive
