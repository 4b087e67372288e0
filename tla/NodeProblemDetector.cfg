SPECIFICATION Spec
CONSTANTS
    DaemonTypes <- MCDaemonTypes
    Watchers <- MCWatchers
    Files <- MCFiles
    Commands <- MCCommands
    MaxRequests = 3
INVARIANT
    RunsAsConfigured
PROPERTIES
    StartupEnds
    ServiceStops
CHECK_DEADLOCK FALSE
