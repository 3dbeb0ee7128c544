SPECIFICATION Spec
CONSTANTS
    s = s
    Request = {s}
    Message = {s}
    Silent = {}
    WithEnv = {}
    Oversized = {}
    Debug = FALSE
    RequestBound = 1
    ScriptBound = 1
INVARIANT RequestPresent
