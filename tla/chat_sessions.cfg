SPECIFICATION Spec
CONSTANTS
    Keys = {s1}
    Owners = {l1, l2}
    Enders = {e1}
    None = None
    Operator = Operator
    MaxConcurrent = 1
    MaxFaults = 1
    MaxCrashes = 0
SYMMETRY Symmetry
INVARIANTS
    EntryHasCleaner
    NothingLeftBehind
