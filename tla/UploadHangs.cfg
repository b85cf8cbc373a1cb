SPECIFICATION FairSpec
CONSTANTS
    r1 = r1
    n1 = n1
    new = new
    NoRec = NoRec
    Recs <- MCRecs
    Targets <- MCTargets
    NewNote = new
    MaxChunks = 2
    MaxRows = 2
    MaxFaults = 1
    MaxCrashes = 1
    MaxMoves = 1
    Windows = {}
CHECK_DEADLOCK FALSE
PROPERTIES SendsEnd
