SPECIFICATION Spec
CONSTANTS
    Actor <- MCActor
    Thread = {t, u}
    Desc <- MCDesc
    NoDesc = "none"
    Events <- MCEvents
    Hash <- MCHash
    Size <- MCSize
    MaxPayload <- MCMaxPayload
    MaxRegistrations = 2
    MaxSubscriptions = 3
    QueueDepth = 1
    CounterSpace = 2
INVARIANTS TypeOK HandlersRouted DispatchMatches PublishHonest
SYMMETRY ThreadSymmetry
CHECK_DEADLOCK FALSE
