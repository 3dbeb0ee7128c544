\* A worker thread and a slot to scale into, with a restart, and the OS refusing one
\* thread: in boot(), after a reboot or when an unhealthy C thread is replaced.
SPECIFICATION Spec
CONSTANTS
    MaxThreads = 2
    NumThreads = 1
    NumWorkers = 1
    WorkerMaxThreads = 2
    MaxRequests = 1
    MaxTerminationCount = 1
    RestartDuringInit = FALSE
    RespawnCanFail = TRUE
    RestartBound = 1
    ScaleBound = 1
    FailureBound = 1
INVARIANTS SlotFree  TeardownSafe 
\* Shutdown and restart really wait for ever for a thread that was not replaced.
CHECK_DEADLOCK FALSE
