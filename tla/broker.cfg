SPECIFICATION FairSpec
CONSTANTS
    Job = {j1}
    Instance = {i1}
    Periodic = {j1}
    Delayed = {j1}
    MaxRuns = 2
    MaxRetries = 0
    JobRetries <- Retries
    Outcome = {"ok", "delay", "error", "noretry", "abort"}
    MaxThreads = 2
    MaxFaults = 1
    MaxRequests = 1
    None = None
INVARIANTS TypeOK  OnceAtATime RetriesBounded
 
CHECK_DEADLOCK FALSE
