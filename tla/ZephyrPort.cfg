SPECIFICATION Spec
CONSTANTS
    N = 2
    Delayers = {0, 1}
    Targets = {2}
    Askers = {2}
    StopActors = {1}
    RestartActors = {2}
    Stoppers = {0}
    UniProcessor = FALSE
    QueueDepth = 1
    PoolSize = 1
    MaxCalls = 2
    MaxFails = 1
INVARIANTS PoolConsistent DelayedIntact
PROPERTIES OneDelayedMessage TimeoutsExpire StopAllEnds
CHECK_DEADLOCK FALSE
