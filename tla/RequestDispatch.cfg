\* One thread of each kind and a spare, with autoscaling, time-outs and a reload.
SPECIFICATION Spec
CONSTANTS
    Request = {r1, r2}
    Message = {r2}
    Regular = {t1}
    Worker = {t2}
    Spare = {t3}
    WorkerLimit = 2
    Scaling = TRUE
    MaxWait = TRUE
    InstanceBound = 2
    EventBound = 1
    NoRequest = NoRequest
INVARIANTS QueueCounted HandedOnce
PROPERTIES HandedIsAnswered RegularSurvivesReload WorkerServes
CHECK_DEADLOCK FALSE
