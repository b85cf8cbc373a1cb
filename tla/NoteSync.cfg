SPECIFICATION Spec
CONSTANTS
    Own <- MCOwn
    Paragraph = Paragraph
    Elsewhere = Elsewhere
    Visits <- MCVisits
    MaxAttempts = 1
    WaitLimit = 1
    MaxMishaps = 2
    MaxNews = 1
    Windows = {}
CHECK_DEADLOCK FALSE
INVARIANTS WordsKept NothingClobbered SavedMeansStored
PROPERTY RetiredIsKept
