SPECIFICATION Spec
CONSTANTS
    N = 2
    QueueDepth = 2
    StopActors = {1}
    RestartActors = {2}
    MaxSends = 5
    MaxStarts = 2
    MaxDepth = 2
INVARIANTS RingConsistent CopyIntact
PROPERTIES ReturnsIdle RunReturns
