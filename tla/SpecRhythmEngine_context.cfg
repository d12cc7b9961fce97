CONSTANTS
    Token = {0, 1}
    Eos = {}
    NoToken = NoToken
    NumRequests = 2
    Prompt <- MCPrompt
    MaxTokens <- MCMaxTokens
    Gamma = 2
    MaxNumSeqs = 2
    NumBuckets = 2
    MaxModelLen = 12
    BlockSize = 1
    Greedy = TRUE
    TargetSupport <- MCGreedySupport
    MinGamma = 1
    MaxGamma = 2
    RequestMaxGamma <- MCRequestMaxGamma
    RooflineBatchContext <- MCContextRoofline
    RooflineBatch <- NoEntries
    RooflineDefault = 2
    ContextBucket = 4
    DraftTokenBudget <- NoBudget
    MaxEagerTokens = 2
    LateRequest = {}
SPECIFICATION Spec
INVARIANTS EnvelopeMatches
