\* One regular and one worker thread, no autoscaling: boot, max_requests,
\* restarts, shutdown, worker boot failures.
SPECIFICATION FairSpec
CONSTANTS
    MaxThreads = 2
    NumThreads = 2
    NumWorkers = 1
    WorkerMaxThreads = 0
    MaxRequests = 1
    MaxTerminationCount = 1
    RestartDuringInit = FALSE
    RespawnCanFail = FALSE
    RestartBound = 2
    ScaleBound = 0
    FailureBound = 0
INVARIANTS  NoUnexpectedState NoStaleDrain StableThreadAlive
PROPERTIES SafeRequestKept OperationsEnd
