CONSTANTS
    r1 = r1
    r2 = r2
    Request = {r1, r2}
    MaxNumSeqs = 2
    MaxGamma = 1
    MaxProposals = 3
SPECIFICATION Spec
SYMMETRY RequestSymmetry
INVARIANTS ReadyIsCurrent PromotedOnlyAfterFullAcceptance TicketsAreUnique NoDeadProposalWaits
PROPERTIES LifecycleMovesForward
