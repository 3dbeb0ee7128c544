SPECIFICATION Spec
CONSTANTS
    Request = {r1, r2}
    Message = {r2}
    Regular = {t1}
    Worker = {t2}
    Spare = {}
    WorkerLimit = 0
    Scaling = FALSE
    MaxWait = FALSE
    InstanceBound = 2
    EventBound = 2
    NoRequest = NoRequest
PROPERTY QueuedSurvivesReload
CHECK_DEADLOCK FALSE
