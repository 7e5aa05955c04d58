SPECIFICATION FairSpec
CONSTANTS
    Instance = {i1, i2}
    MaxWrites = 4
    Deferred = TRUE
    AutoReload = {i2}
    CheckOnRead = TRUE
    None = None
CONSTRAINT Protected
INVARIANTS TypeOK SyncedKept RejectedStaysOut
PROPERTIES ReadersCatchUp
CHECK_DEADLOCK FALSE
