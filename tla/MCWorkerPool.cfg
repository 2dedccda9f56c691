SPECIFICATION FairSpec
CONSTANTS
    w1 = w1
    w2 = w2
    w3 = w3
    j1 = j1
    j2 = j2
    Workers = {w1, w2, w3}
    Jobs = {j1, j2}
    Quit = Quit
    NoJob = NoJob
    MaxEarlyQuits = 1
    StartsInTime = TRUE
    SleepSuffices = TRUE
INVARIANTS
    NoWorkerStranded
    OwnerIsOwedAWake
    PoolOutlivesWorkers
    JobsDoneBeforeGone
PROPERTIES
    WaitReturns
CHECK_DEADLOCK FALSE
