SPECIFICATION Spec
CONSTANTS
    Actor = {a, b}
    External = {}
    Noisy = {a}
    ReplyId = {r}
    Oversize = {}
    TimedAsks = {TRUE}
    NoReply = NoReply
    NoActor = NoActor
    NoMsg = NoMsg
    MaxInflight = 2
    IdSpace = 6
    QueueDepth = 1
    MaxAsks = 2
    MaxRestarts = 1
INVARIANTS AtMostOneCallback CancelPreventsCallback FailedAskIsSilent OneReplyUnlessReopened CorrelatedIds
    TimeoutOnItsWay
PROPERTY TimedAskEnds
CHECK_DEADLOCK FALSE
