SPECIFICATION Spec
CONSTANTS
    Captures = {c1}
    Deliveries = {d1, d2}
    Editors = {e1}
    None = None
    MaxSaves = 2
    MaxTaps = 1
    MayArchive = TRUE
    LeaseRunsOut = FALSE
    PatienceRunsOut = FALSE
    BlindFaults = FALSE
CHECK_DEADLOCK FALSE
INVARIANTS AppendedIsThere NoSecondCopy AckedEditsSurvive
PROPERTIES SaveErasesOnlySeen RowNeverRevived
