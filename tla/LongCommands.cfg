SPECIFICATION LongSpec
CONSTANTS
    Steps = 2
    Settings <- MCSettings
    Unset = Unset
    Invalid = Invalid
    Default = 4
    MinGap = 1
    MinTick = 2
    MaxTick = 3
    MaxTime = 12
    None = None
    Binaries = {b1, b2}
    Allowed = {b1}
    Timeouts <- MCTimeouts
    DefaultTime = 4
    LongestDelay = 5
    Grace = 1
INVARIANTS
    NoLongSilence
    ResultIsEarned
    NoChildIsLeft
    CommandTimeIsBounded
PROPERTIES
    SilentAtRest
CHECK_DEADLOCK FALSE
