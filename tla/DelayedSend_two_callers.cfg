SPECIFICATION Spec
CONSTANTS
    Caller = {c, d}
    NoCaller = NoCaller
    MaxCalls = 3
INVARIANT OneHelper
