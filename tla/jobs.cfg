SPECIFICATION Spec
CONSTANTS
    Job = {j1}
    Instance = {i1}
    Periodic = {j1}
    Delayed = {}
    MaxRetries = 1
    MaxRuns = 2
    Outcome = {"ok", "stop", "delay", "error", "noretry"}
    MaxCrashes = 1
    MaxReruns = 1
    MaxDeletes = 1
    None = None
INVARIANTS RetryBound DraftWhileProcessing
PROPERTIES HeartbeatOnlyBeats
CHECK_DEADLOCK FALSE
