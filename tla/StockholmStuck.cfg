SPECIFICATION FairSpec
CONSTANTS
    Cases = {c1, c2, c3}
    Unreadable = {c1}
    Unstorable = {}
    MaxRefresh = 2
    MaxFaults = 0
PROPERTY EveryOpenCaseIsReached
