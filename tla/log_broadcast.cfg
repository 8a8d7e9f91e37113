SPECIFICATION FairSpec
CONSTANTS
    Publishers = {p1, p2}
    Subs = {s1}
    All = All
    None = None
    Buffer = 1
    MaxEntries = 2
    MaxPanics = 1
CHECK_DEADLOCK FALSE
INVARIANTS
    NoSendOnClosed
    NothingLostSilently
    FlushedAtClose
PROPERTIES
    ChannelCloses
    DropsAreReported
