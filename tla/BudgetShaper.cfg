CONSTANTS
    Request = {0, 1, 2}
    MinGamma = 1
    MaxGamma = 3
    RequestMaxGamma <- MCRequestMaxGamma
    RooflineBatchContext <- MCRooflineBatchContext
    RooflineBatch <- MCRooflineBatch
    RooflineDefault = 0
    ContextBucket = 2
    DraftBudgets <- MCDraftBudgets
    MaxGap = 4
    MaxContext = 4
SPECIFICATION Spec
INVARIANTS KeepsPromise GapsBeforeResidual DefaultsNeverRaise
PROPERTIES Termination
