SPECIFICATION Spec
CONSTANTS
    Kinds = {"kmsg", "filelog", "journald"}
    Entries <- MCEntries
    Rules <- MCRules
    DefaultConditions <- MCConditions
    MaxEntries <- MCMaxEntries
    MaxFailures = 2
    MaxRotations = 1
    LogCap = 1
    OutputCap = 1
    Settings <- MCSettings
    BufferSize = 2
INVARIANTS
    StatusesFollowLines
    SettledExport
    CountsEvents
    LinesInOrder
    RestartsPaced
PROPERTIES
    WatcherStops
CHECK_DEADLOCK FALSE
