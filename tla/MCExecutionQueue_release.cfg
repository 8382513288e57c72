SPECIFICATION Spec
CONSTANTS
    Jobs <- MCJobs
    NoJob = NoJob
    High <- MCHigh
    Spawning <- MCSpawning
    Releasing <- MCSpawning
    Interruptible <- MCHigh
    OrdinalName <- MCOrdinalName
    Algorithm = "FIFO"
    Machines <- MCWideMachine
    BackgroundTaskMaxEnv <- MCUnset
    WaitsForJobs = TRUE
    MaxFaults = 0
INVARIANT ReleaseWaitsForThreads
CHECK_DEADLOCK FALSE
