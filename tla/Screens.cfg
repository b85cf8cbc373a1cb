SPECIFICATION Spec
CONSTANTS
    Windows = {}
    Parts = {"clean", "batches", "player", "checklist", "hold", "touch"}
    Requests = {"read", "write"}
    Writes = {"write"}
    MaxRetries = 1
    MaxFlows = 2
    MaxClock = 2
    SessionMishaps = 2
    Tabs = {1, 2}
    MaxEnds = 3
    MaxLaunches = 2
    MaxPresses = 2
    PushMishaps = 1
    Captures = {1, 2}
    MaxReads = 2
    MaxRuns = 1
    MaxEvents = 1
    TouchRows = {1, 2}
    LastTab = 1
    MaxTouches = 3
    MaxMoves = 2
CHECK_DEADLOCK FALSE
INVARIANTS
    PlayerIsTrue TouchIsOneThing
PROPERTIES
    TidyIsSafe BatchesAreTold ListKeepsItsWords HoldIsKept
