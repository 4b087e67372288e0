SPECIFICATION FairSpec
CONSTANTS
    NumMonitors = 2
    Kind <- FilePlugin
    MayFail = {1}
    LogCap = 1
    OutputCap = 1
    MaxMatches = 1
    Modulus = 3
CHECK_DEADLOCK FALSE
INVARIANTS
    StatusesInOrder
    ReturnedIsQuiet
PROPERTIES
    Delivered
    StopCompletes
