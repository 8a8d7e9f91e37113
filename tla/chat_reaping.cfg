SPECIFICATION FairSpec
CONSTANTS
    Keys = {s1}
    Owners = {l1}
    Enders = {e1}
    None = None
    Operator = Operator
    MaxConcurrent = 1
    MaxFaults = 1
    MaxCrashes = 1
PROPERTIES
    EveryChatIsReaped
    SlotIsFreed
    DirsAreReclaimed
