CONSTANTS
    Token = {0, 1}
    Eos = {}
    NoToken = NoToken
    NumRequests = 3
    Prompt <- MCPrompt
    MaxTokens <- MCArrivalMaxTokens
    Gamma = 1
    MaxNumSeqs = 2
    NumBuckets = 2
    MaxModelLen = 12
    BlockSize = 1
    Greedy = TRUE
    TargetSupport <- MCGreedySupport
    MinGamma = 1
    MaxGamma = 1
    RequestMaxGamma <- MCRequestMaxGamma
    RooflineBatchContext <- NoEntries
    RooflineBatch <- NoEntries
    RooflineDefault = 2
    ContextBucket = 100
    DraftTokenBudget <- NoBudget
    MaxEagerTokens = 1
    LateRequest = {2}
SPECIFICATION Spec
INVARIANTS MailboxesClean ResultsComplete
PROPERTIES Termination
