SPECIFICATION FairSpec
CONSTANTS
    Captures = {c1, c2}
    Deliveries = {d1, d2}
    Editors = {e1}
    None = None
    MaxSaves = 1
    MaxTaps = 0
    MayArchive = FALSE
    LeaseRunsOut = TRUE
    PatienceRunsOut = FALSE
    BlindFaults = TRUE
CHECK_DEADLOCK FALSE
INVARIANTS OneHolder StampCoversWrite
PROPERTIES OnlyDeadStampedOver DeliveryEnds SaveIsAnswered
