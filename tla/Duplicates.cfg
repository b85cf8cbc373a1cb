SPECIFICATION Spec
CONSTANTS
    Deliveries = {d1, d2}
    Requests = {r1}
    Notes = {own, n1}
    OwnNote = own
    OtherLanguage = {n1}
    None = None
    Answers = {1, 2}
    MaxAttempts = 2
    MaxUploads = 2
    MaxAsks = 0
    MaxAgain = 0
    MaxFaults = 1
    Arrives = {"audio"}
    PeaksClaimed = TRUE
    MayArchive = FALSE
    MayBeDeleted = FALSE
SYMMETRY Symmetry
CHECK_DEADLOCK FALSE
INVARIANTS OneParagraph
PROPERTIES WhatIsDoneStays WordsOutliveAudio KeepsItsPromise
