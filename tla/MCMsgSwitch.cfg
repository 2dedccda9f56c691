SPECIFICATION FairSpec
CONSTANTS
    MaxJobs = 5
    RelayJobs <- RelayedJobs
    ThrowJobs <- ThrowingJobs
    FatalJobs <- KillingJobs
INVARIANTS
    ResultsInOrder
    EveryJobAccounted
    NoJobWithoutCallback
    StoppedMeansDrained
PROPERTIES
    EveryJobEnds
    WorkerStops
CHECK_DEADLOCK FALSE
