SPECIFICATION FairSpec
CONSTANTS
    v1 = v1
    v2 = v2
    v3 = v3
    v4 = v4
    v5 = v5
    Version <- Versions
    Target = v5
    Call <- Calls
    Stored <- Old
    Thread = {t1}
    MaxSteps = 4
    None = None
INVARIANTS TypeOK PathMigrates ErrorMeansUnreachable PathIsShortest
PROPERTIES SearchEnds
