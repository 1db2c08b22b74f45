SPECIFICATION Spec
CONSTANTS
    Msg = {m1, m2, m3, m4}
    NoMsg = NoMsg
    Capacity = 3
INVARIANTS RingConsistent NoLostWakeup
PROPERTIES AbstractSpec StopEndsThread
