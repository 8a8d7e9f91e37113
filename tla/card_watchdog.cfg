SPECIFICATION Spec
CONSTANTS
    Keys = {c1}
    Owners = {r1, r2}
    Handlers = {}
    None = None
    Operator = Operator
    MaxConcurrent = 1
    IdleWatchdog = TRUE
    MaxFaults = 0
    MaxPanics = 0
    MaxCrashes = 0
INVARIANTS
    OnlyOwnCancels
