SPECIFICATION Spec
CONSTANTS
    Keys = {c1, c2}
    Owners = {r1, r2}
    Handlers = {h1}
    None = None
    Operator = Operator
    MaxConcurrent = 1
    IdleWatchdog = FALSE
    MaxFaults = 1
    MaxPanics = 0
    MaxCrashes = 0
SYMMETRY Symmetry
INVARIANTS
    RunningWithinCap
    OnlyOwnCancels
    OneTerminalAfterStop
    RunHoldsItsEntry
    SweepSparesLiveWork
PROPERTIES
    ImplementsLifecycle
