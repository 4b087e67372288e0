SPECIFICATION FairSpec
CONSTANTS
    NumRules = 2
    Intervals = {i1, i2}
    GlobalInterval = i1
    NoInterval = NoInterval
    Main = Main
    Concurrency = 1
    ResultCap = 1
CHECK_DEADLOCK FALSE
INVARIANTS
    PluginTypeOK
    SlotsAccounted
    ClosedIsQuiet
PROPERTIES
    NoOverlap
    StopCompletes
    EveryTickRuns
