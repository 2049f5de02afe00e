SPECIFICATION FairSpec
CONSTANTS
    Workers = {w1, w2, w3}
    Clients = {}
    NoWorker = NoWorker
    UnclaimedJobs = FALSE
    MaxRequests = 0
    MaxCrashes = 2
    MaxAttempts = 4
INVARIANTS
    Recoverable
    FinishedJobHoldsNoClaim
PROPERTIES
    ClaimTerminates
    LiveWorkerKeepsJob
CHECK_DEADLOCK FALSE
