SPECIFICATION Spec
CONSTANTS
    Actor = {a}
    External = {x}
    Noisy = {}
    ReplyId = {r}
    Oversize = {r}
    TimedAsks = {FALSE}
    NoReply = NoReply
    NoActor = NoActor
    NoMsg = NoMsg
    MaxInflight = 2
    IdSpace = 4
    QueueDepth = 1
    MaxAsks = 4
    MaxRestarts = 0
INVARIANTS UniqueIds IdAvailable
CHECK_DEADLOCK FALSE
