CONSTANTS
    Runs = {1}
    Threads = {1, 2, 3}
    MaxMishaps = 2
SPECIFICATION FairSpec
INVARIANTS TypeOK OneWorkerPerAttempt
PROPERTIES FinalUnlessCancelled ResultSpec Ends
CHECK_DEADLOCK FALSE
