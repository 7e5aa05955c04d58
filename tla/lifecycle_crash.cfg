SPECIFICATION Spec
CONSTANTS
    Value = {a, b}
    MaxRev = 2
    MaxSv = 1
    MaxCrashes = 2
    LexRank <- Reversed
    Recreate = TRUE
    Backend = "disk"
    None = None
SYMMETRY Symmetry
INVARIANTS HeadRecoverable 
