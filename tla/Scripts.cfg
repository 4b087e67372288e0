SPECIFICATION Spec
CONSTANTS
    PipeCap = 1
    BufferBytes = 2
    MaxOutputLength = 3
    TimeoutText = 2
    CoolDownTime = 1
    MaxAge = 2
    MaxEntriesLogged = 2
    BufferSize = 2
    CounterOptions <- MCCounterOptions
    LogLines <- MCLogLines
    MaxLines = 3
    Plans <- MCPlans
INVARIANTS
    StatusIsEarned
    OutputIsWhole
    BlamedForItsOwnLog
    CountIsNet
PROPERTIES
    RunReturns
    CoolDownRespected
    HungServiceRepaired
CHECK_DEADLOCK FALSE
