CONSTANTS
    r1 = r1
    Request = {r1}
    MaxNumSeqs = 1
    MaxGamma = 2
    MaxProposals = 3
SPECIFICATION Spec
INVARIANT PromotedContinuesAcceptedParent
