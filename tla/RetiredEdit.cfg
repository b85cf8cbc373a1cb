SPECIFICATION Spec
CONSTANTS
    Own <- MCOwn
    Paragraph = Paragraph
    Elsewhere = Elsewhere
    Visits <- MCVisits
    MaxAttempts = 1
    WaitLimit = 1
    MaxMishaps = 2
    MaxNews = 0
    Windows = {"retired"}
CHECK_DEADLOCK FALSE
PROPERTY RetiredIsKept
