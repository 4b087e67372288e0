SPECIFICATION Spec
CONSTANTS
    NumConditions = 1
    Reasons = {r1, r2}
    Messages = {m1, m2}
    None = None
    MessageModes = {TRUE, FALSE}
    MetricsModes = {TRUE, FALSE}
    StatusCap = 1
    CountModulus = 2
SYMMETRY Symmetry
INVARIANTS
    DefaultsRestored
    GaugeTellsCondition
    SettledAgrees
PROPERTY
    CountsRisingGauges
