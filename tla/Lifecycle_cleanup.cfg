SPECIFICATION Spec
CONSTANTS
    N = 1
    Starters = {c}
    Stoppers = {c}
    Runners = {c}
    Sender = {x}
    Askers = {1}
    FailingInit = {}
    StopActors = {}
    RestartActors = {}
    Careful = TRUE
    QueueDepth = 1
    MaxSends = 2
INVARIANT NoTimeoutAfterCleanup
CHECK_DEADLOCK FALSE
