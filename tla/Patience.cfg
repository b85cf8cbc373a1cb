SPECIFICATION Spec
CONSTANTS
    Captures = {c1, c2, c3}
    Deliveries = {d1, d2, d3}
    Editors = {e1}
    None = None
    MaxSaves = 0
    MaxTaps = 0
    MayArchive = FALSE
    LeaseRunsOut = FALSE
    PatienceRunsOut = TRUE
    BlindFaults = FALSE
CHECK_DEADLOCK FALSE
PROPERTY OnlyDeadStampedOver
