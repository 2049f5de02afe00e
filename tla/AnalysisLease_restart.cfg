SPECIFICATION Spec
CONSTANTS
    Workers = {w1, w2}
    Clients = {c1, c2}
    NoWorker = NoWorker
    UnclaimedJobs = TRUE
    MaxRequests = 2
    MaxCrashes = 1
    MaxAttempts = 2
SYMMETRY Symmetry
INVARIANTS
    TypeOK
    SingleOwner
    CompletedIffTerminal
    ActiveClaimStaysVisible
    ProjectedSuccessIsReal
PROPERTIES
    VerdictKept
    SuccessKept
    LostForGood
CHECK_DEADLOCK FALSE
