SPECIFICATION Spec
CONSTANTS
    Captures = {c1}
    Deliveries = {d1}
    Editors = {e1, e2}
    None = None
    MaxSaves = 1
    MaxTaps = 0
    MayArchive = FALSE
    LeaseRunsOut = FALSE
    PatienceRunsOut = FALSE
    BlindFaults = FALSE
CHECK_DEADLOCK FALSE
INVARIANT AckedEditsSurvive
