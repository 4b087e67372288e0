SPECIFICATION ManagerFairSpec
CONSTANTS
    Types = {t1}
    Values = {v1, v2}
    UIDs = {u1}
    None = None
    ResyncPeriod = 2
    HeartbeatPeriod = 3
    RetrySteps = 2
    MaxLate = 1
PROPERTY Convergence
