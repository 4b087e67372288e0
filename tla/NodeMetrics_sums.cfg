SPECIFICATION Spec
CONSTANTS
    Configs <- MCConfigs
    Modules <- MCModules
    Devices = {"sda", "sdb"}
    Roots = {"sda"}
    CPUStates = {"user", "idle"}
    Interfaces = {"eth0", "lo"}
    Excluded = {"lo"}
    KnownModules = {"ext4"}
    MaxCounter = 2
    MaxGauge = 1
    HalfWord = 4
    MaxAge = 2
    SumModulus = 3
    Callers = {c1, c2}
    ProblemTypes = {"KernelDeadlock"}
    Reasons = {"AUFSUmountHung", "DockerHung"}
    NoCaller = NoCaller
INVARIANTS
    CountersTold
CHECK_DEADLOCK FALSE
