SPECIFICATION Spec
CONSTANTS
    Cleanup = {c1}
    Running = {r1}
    Verify = {v1}
    RequestTimeout = 4
    CallbackTimeout = 4
    RunningTimeout = 12
    MaxCalls = 1
    MaxStart = 1
    MaxTime = 17
CHECK_DEADLOCK FALSE
INVARIANTS
    FreshSignatures
    ReturnsInTime
    PromotedWasAutonomous
