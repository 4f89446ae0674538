\* A worker whose clock is fast reclaims a live lease.
CONSTANTS
    Jobs = {1}
    UnknownJobs = {}
    Workers = {w1, w2}
    Nobody = Nobody
    Concurrency = 1
    Attempts = 2
    MaxAttempts <- SameAttempts
    ClaimDelay = 0
    JobTimeout = 1
    FinishTimeout = 1
    LockTimeout = 2
    RetryDelay = 1
    StartDelay = 1
    FastWorkers = {w2}
    Skew <- SomeFast
    Horizon = 4
    RunHorizon = 1
    MaxFaults = 0
SPECIFICATION Spec
INVARIANTS
    LeaseExclusive
CHECK_DEADLOCK FALSE
