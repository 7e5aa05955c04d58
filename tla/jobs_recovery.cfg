SPECIFICATION FairSpec
CONSTANTS
    Job = {j1}
    Instance = {i1}
    Periodic = {j1}
    Delayed = {j1}
    MaxRetries = 1
    MaxRuns = 2
    Outcome = {"ok", "error"}
    MaxCrashes = 2
    MaxReruns = 0
    MaxDeletes = 0
    None = None
PROPERTIES NeverStuck
CHECK_DEADLOCK FALSE
