SPECIFICATION FairSpec
CONSTANTS
    NumMonitors = 2
    Kind <- LogStats
    MayFail = {1}
    LogCap = 1
    OutputCap = 1
    MaxMatches = 0
    Modulus = 3
CHECK_DEADLOCK FALSE
PROPERTY
    StopAlwaysCompletes
