\* Two refused creations in a pool without autoscaling: does it recover?
SPECIFICATION Spec
CONSTANTS
    MaxThreads = 2
    NumThreads = 2
    NumWorkers = 1
    WorkerMaxThreads = 0
    MaxRequests = 1
    MaxTerminationCount = 1
    RestartDuringInit = FALSE
    RespawnCanFail = FALSE
    RestartBound = 0
    ScaleBound = 0
    FailureBound = 2
INVARIANTS PoolCovered
