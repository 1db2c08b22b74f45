SPECIFICATION Spec
CONSTANTS
    Caller = {c}
    NoCaller = NoCaller
    MaxCalls = 4
INVARIANTS TypeOK OneHelper
PROPERTIES NoLateDelivery CallsReturn AbstractSpec
