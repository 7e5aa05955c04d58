SPECIFICATION FairSpec
CONSTANTS
    i1 = i1
    i2 = i2
    w1 = w1
    w2 = w2
    r1 = r1
    Instance = {i1, i2}
    Writer = {w1, w2}
    Reader = {r1}
    Setups <- AllSetups
    MaxSaves = 2
    MaxCrashes = 1
INVARIANTS IndexComplete OwnSaveSeen
PROPERTIES Fresh
CHECK_DEADLOCK FALSE
