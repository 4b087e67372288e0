SPECIFICATION Spec
CONSTANTS
    DaemonTypes <- MCDaemonTypes
    Watchers <- MCWatchers
    Files <- MCFiles
    Commands <- MCCommands
    MaxRequests = 3
INVARIANT
    WaitsForAPIServer
CHECK_DEADLOCK FALSE
