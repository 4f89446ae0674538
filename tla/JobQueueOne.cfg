\* One goroutine per worker: every safety property, through two faults.
CONSTANTS
    Jobs = {1, 2}
    UnknownJobs = {2}
    Workers = {w1, w2}
    Nobody = Nobody
    Concurrency = 1
    Attempts = 2
    MaxAttempts <- SameAttempts
    ClaimDelay = 1
    JobTimeout = 1
    FinishTimeout = 1
    LockTimeout = 3
    RetryDelay = 1
    StartDelay = 0
    FastWorkers = {}
    Skew <- SomeFast
    Horizon = 5
    RunHorizon = 1
    MaxFaults = 2
SPECIFICATION Spec
INVARIANTS
    TypeOK
    LeaseInv
    LeaseExclusive
PROPERTIES
    StaleOutcomeDiscarded
    LifecycleSpec
SYMMETRY WorkerSymmetry
CHECK_DEADLOCK FALSE
