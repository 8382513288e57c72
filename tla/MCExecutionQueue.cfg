SPECIFICATION FairSpec
CONSTANTS
    Jobs <- MCJobs
    NoJob = NoJob
    High <- MCHigh
    Spawning <- MCSpawning
    Releasing <- MCSpawning
    Interruptible <- MCHigh
    OrdinalName <- MCOrdinalName
    Algorithm = "NamePriority"
    Machines <- MCMachines
    BackgroundTaskMaxEnv <- MCUnset
    WaitsForJobs = FALSE
    MaxFaults = 1
INVARIANTS
    TypeOK
    
    QueuedJobsHaveLanes
    BackgroundAccounted
    PipesWithinLimit
    ReleasedClean
PROPERTIES
    JobsFinish
    ReleaseReturns
CHECK_DEADLOCK FALSE
