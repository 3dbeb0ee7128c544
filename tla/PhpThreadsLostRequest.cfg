\* A restart with an inactive thread: is a granted request always answered?
SPECIFICATION Spec
CONSTANTS
    MaxThreads = 2
    NumThreads = 1
    NumWorkers = 1
    WorkerMaxThreads = 2
    MaxRequests = 0
    MaxTerminationCount = 1
    RestartDuringInit = FALSE
    RespawnCanFail = FALSE
    RestartBound = 1
    ScaleBound = 1
    FailureBound = 0
PROPERTIES SafeRequestKept
