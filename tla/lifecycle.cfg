SPECIFICATION Spec
CONSTANTS
    Value = {a, b}
    MaxRev = 3
    MaxSv = 1
    MaxCrashes = 0
    LexRank <- InOrder
    Recreate = FALSE
    Backend = "memory"
    None = None
SYMMETRY Symmetry
INVARIANTS TypeOK HeadResolves LineageGrows IndexMatchesHead
PROPERTIES HistoryFrozen DeletedFrozen ImplementsDocument
