SPECIFICATION FairSpec
CONSTANTS
    Deliveries = {d1}
    Requests = {r1}
    Notes = {own, n1}
    OwnNote = own
    OtherLanguage = {n1}
    None = None
    Answers = {1}
    MaxAttempts = 3
    MaxUploads = 1
    MaxAsks = 1
    MaxAgain = 0
    MaxFaults = 1
    Arrives = {"audio"}
    PeaksClaimed = FALSE
    MayArchive = TRUE
    MayBeDeleted = TRUE
CHECK_DEADLOCK FALSE
PROPERTIES Settles OrphanIsRemoved
