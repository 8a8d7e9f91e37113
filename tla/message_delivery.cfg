SPECIFICATION Spec
CONSTANTS
    Requests = {r1, r2}
    Msgs = {m1, m2, m3}
    Anonymous = {m3}
    Skew = 1
    Ahead = 1
    DedupTTL = 1
    ReplayCap = 1
    DedupCap = 2
    MaxTime = 2
    MaxRequests = 3
CHECK_DEADLOCK FALSE
SYMMETRY Symmetry
INVARIANTS
    AckedWasWritten
    SweepIsComplete
PROPERTIES
    RetryIsNotWritten
    HonouredOnce
