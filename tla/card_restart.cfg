SPECIFICATION FairSpec
CONSTANTS
    Keys = {c1}
    Owners = {r1}
    Handlers = {}
    None = None
    Operator = Operator
    MaxConcurrent = 1
    IdleWatchdog = TRUE
    MaxFaults = 2
    MaxPanics = 1
    MaxCrashes = 1
INVARIANTS
    TypeOK
    EntryHasLiveRun
    RunningIsTracked
    BootClean
PROPERTIES
    KeepsPromise
    EveryContainerIsReaped
