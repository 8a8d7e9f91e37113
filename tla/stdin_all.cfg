SPECIFICATION FairSpec
CONSTANTS
    Modes = {"card", "chat"}
    ChatLifetime = TRUE
    Starter = Starter
    Cleaner = Cleaner
    Primers = {p1}
    Writers = {w1}
    Enders = {e1}
    None = None
    MaxFaults = 1
CHECK_DEADLOCK FALSE
INVARIANTS
    FramesDontInterleave
    WriterIsLive
    ClosedMeansGone
PROPERTIES
    PrimingReturns
    RequestsAnswered
    ConnReleased
