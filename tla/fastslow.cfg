SPECIFICATION FairTiersSpec
CONSTANTS
    Pk = {p1, p2}
    NoPk = NoPk
    Searchers = {s1}
    Deleters = {d1}
    Background = bg
    Kinds = {"memory", "disk", "redis"}
    MaxVersions = 3
    MaxFaults = 1
INVARIANTS TiersTypeOK LatestUnlessRaced SearchSeesWrites
PROPERTY ReachesSlow
