SPECIFICATION Spec
CONSTANTS
    N = 1
    Delayers = {}
    Targets = {}
    Askers = {1}
    StopActors = {}
    RestartActors = {}
    Stoppers = {}
    UniProcessor = TRUE
    QueueDepth = 1
    PoolSize = 1
    MaxCalls = 1
    MaxFails = 0
PROPERTY AskLockIsReleased
CHECK_DEADLOCK FALSE
