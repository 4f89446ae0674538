\* Two goroutines of one worker: a stale outcome overwrites.
CONSTANTS
    Jobs = {1}
    UnknownJobs = {}
    Workers = {w1}
    Nobody = Nobody
    Concurrency = 2
    Attempts = 2
    MaxAttempts <- SameAttempts
    ClaimDelay = 0
    JobTimeout = 1
    FinishTimeout = 1
    LockTimeout = 2
    RetryDelay = 1
    StartDelay = 1
    FastWorkers = {}
    Skew <- SomeFast
    Horizon = 4
    RunHorizon = 1
    MaxFaults = 1
SPECIFICATION Spec
INVARIANTS
    LeaseExclusive
CHECK_DEADLOCK FALSE
