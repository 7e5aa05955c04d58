SPECIFICATION Spec
CONSTANTS
    Res = {r1, r2, r3}
    Writer = {w1, w2, w3}
    Val = {a, b}
    NoValue = NoValue
    MaxOps = 4
    None = None
SYMMETRY Symmetry
INVARIANT UniqueUnlessRaced
PROPERTIES LoserHasWinner UndoneLeavesNoTrace
CHECK_DEADLOCK FALSE
