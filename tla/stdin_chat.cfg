SPECIFICATION FairSpec
CONSTANTS
    Modes = {"chat"}
    ChatLifetime = FALSE
    Starter = Starter
    Cleaner = Cleaner
    Primers = {p1}
    Writers = {}
    Enders = {e1}
    None = None
    MaxFaults = 0
CHECK_DEADLOCK FALSE
PROPERTIES
    PrimingReturns
