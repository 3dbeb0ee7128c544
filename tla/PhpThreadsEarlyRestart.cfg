\* A restart while Init boots threads: is the teardown still safe?
SPECIFICATION Spec
CONSTANTS
    MaxThreads = 2
    NumThreads = 2
    NumWorkers = 1
    WorkerMaxThreads = 0
    MaxRequests = 0
    MaxTerminationCount = 1
    RestartDuringInit = TRUE
    RespawnCanFail = FALSE
    RestartBound = 1
    ScaleBound = 0
    FailureBound = 0
INVARIANTS TeardownSafe
