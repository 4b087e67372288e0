SPECIFICATION ManagerSpec
CONSTANTS
    Types = {t1, t2}
    Values = {v1, v2}
    UIDs = {u1, u2}
    None = None
    ResyncPeriod = 2
    HeartbeatPeriod = 3
    RetrySteps = 2
    MaxLate = 1
INVARIANTS Synced Punctual PatchCachesUID
PROPERTIES NoFlood ImplementsReport
SYMMETRY Symmetry
