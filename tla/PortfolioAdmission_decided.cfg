SPECIFICATION FairSpec
CONSTANTS
    Scheduler = scheduler
    Requests = {r1}
    Kinds = {"reconcile", "runnow"}
    Monitored = FALSE
    LastCheckpoint = 2
    MaxJobs = 6
PROPERTIES
    CheckpointDecided
CHECK_DEADLOCK FALSE
