SPECIFICATION Spec
CONSTANTS
    Scheduler = scheduler
    Requests = {}
    Kinds = {}
    Monitored = TRUE
    LastCheckpoint = 1
    MaxJobs = 3
INVARIANTS
    OneAnalysisPerPortfolio
CHECK_DEADLOCK FALSE
