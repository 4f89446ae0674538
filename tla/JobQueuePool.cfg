\* A pool of two goroutines per worker under scheduling fairness: what holds
\* without faults, and that every job ends in spite of one.
CONSTANTS
    Jobs = {1}
    UnknownJobs = {}
    Workers = {w1, w2}
    Nobody = Nobody
    Concurrency = 2
    Attempts = 2
    MaxAttempts <- SameAttempts
    ClaimDelay = 1
    JobTimeout = 1
    FinishTimeout = 1
    LockTimeout = 3
    RetryDelay = 1
    StartDelay = 0
    FastWorkers = {}
    Skew <- SomeFast
    Horizon = 5
    RunHorizon = 1
    MaxFaults = 1
SPECIFICATION FairSpec
INVARIANTS
    FaultFreeLease
PROPERTIES
    EventuallyTerminal
CHECK_DEADLOCK FALSE
