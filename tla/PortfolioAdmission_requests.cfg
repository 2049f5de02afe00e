SPECIFICATION Spec
CONSTANTS
    Scheduler = scheduler
    Requests = {r1}
    Kinds = {"manual", "runnow", "reconcile", "retry"}
    Monitored = TRUE
    LastCheckpoint = 2
    MaxJobs = 2
INVARIANTS
    TypeOK
    OneJobPerKey
    ClaimMatchesJobs
CHECK_DEADLOCK FALSE
