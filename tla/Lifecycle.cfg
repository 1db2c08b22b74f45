SPECIFICATION Spec
CONSTANTS
    N = 3
    Starters = {c}
    Stoppers = {c, d}
    Runners = {c, d}
    Sender = {x}
    Askers = {1, 3}
    FailingInit = {1, 2, 3}
    StopActors = {3}
    RestartActors = {2}
    Careful = TRUE
    QueueDepth = 1
    MaxSends = 3
INVARIANTS TypeOK StoppedIsQuiet MailboxesOutliveThreads HooksPaired StopReachesAll
PROPERTIES GenerationsDoNotOverlap ShutdownEnds
CHECK_DEADLOCK FALSE
