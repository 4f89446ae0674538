SPECIFICATION Spec
CONSTANTS
    Keys = {k1, k2}
    Callers = {c1, c2}
    Requests = 2
    Window = 3
    MaxDelay = 1
SYMMETRY Symmetry
INVARIANTS
    BurstIsBounded
PROPERTIES
    RefusalsAreEarned
    TwoWindowsOfMemory
