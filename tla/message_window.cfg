SPECIFICATION Spec
CONSTANTS
    Requests = {r1}
    Msgs = {m1}
    Anonymous = {}
    Skew = 2
    Ahead = 1
    DedupTTL = 1
    ReplayCap = 2
    DedupCap = 1
    MaxTime = 3
    MaxRequests = 2
CHECK_DEADLOCK FALSE
PROPERTIES
    NeverExpiresInWindow
