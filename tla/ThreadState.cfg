\* Two callers on one object, six states, two sets of awaited states.
SPECIFICATION FairSpec
CONSTANTS
    Proc = {p1, p2}
    State <- MCState
    WaitSet <- MCWaitSet
INVARIANTS NoLostWakeup SubscriptionOwned
PROPERTIES CellSpec RequestAnswered
