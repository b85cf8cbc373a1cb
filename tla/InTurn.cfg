SPECIFICATION Spec
CONSTANTS
    Deliveries = {d1}
    Requests = {r1}
    Notes = {own, n1}
    OwnNote = own
    OtherLanguage = {n1}
    None = None
    Answers = {1}
    MaxAttempts = 2
    MaxUploads = 2
    MaxAsks = 2
    MaxAgain = 1
    MaxFaults = 2
    Arrives = {"audio", "oversize", "text"}
    PeaksClaimed = FALSE
    MayArchive = FALSE
    MayBeDeleted = FALSE
SYMMETRY Symmetry
CHECK_DEADLOCK FALSE
INVARIANTS FiledIsWhatWasAsked LanguageHonoured
