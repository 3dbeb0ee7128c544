SPECIFICATION Spec
CONSTANTS
    r = r
    q = q
    s = s
    Request = {r, q, s}
    Message = {s}
    Silent = {s}
    WithEnv = {r}
    Oversized = {r}
    Debug = FALSE
    RequestBound = 2
    ScriptBound = 2
INVARIANTS
    ResponseOwned
    OutputDelivered
    WriterInUse
    AbortIsReal
    
    NothingHeldBack
    GaugesExact
