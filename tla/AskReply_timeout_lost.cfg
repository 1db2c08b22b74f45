SPECIFICATION Spec
CONSTANTS
    Actor = {a, b}
    External = {}
    Noisy = {a}
    ReplyId = {r}
    Oversize = {}
    TimedAsks = {TRUE, FALSE}
    NoReply = NoReply
    NoActor = NoActor
    NoMsg = NoMsg
    MaxInflight = 2
    IdSpace = 6
    QueueDepth = 1
    MaxAsks = 1
    MaxRestarts = 0
PROPERTY TimedAskAlwaysEnds
CHECK_DEADLOCK FALSE
