SPECIFICATION FairSpec
CONSTANTS
    Lifetime = 7
    ShortLife = 3
    Buffer = 6
    MaxBackoff = 2
    ClampThreshold = 1
    ClampCeiling = 2
    MaxStreak = 4
    MaxOutage = 3
    FailureLimit = 2
    MaxFaults = 2
INVARIANTS
    SecretsAreWhole
    TokenNeverLapses
PROPERTIES
    DeadDockerRestarts
    BecomesReady
    ShutdownDrains
