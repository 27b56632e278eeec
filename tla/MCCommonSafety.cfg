CONSTANTS
    FirstPts = 1
    Counts = {0, 1, 2}
    MaxEvents = 3
    MaxLost = 1
    MaxFails = 1
    MaxSessions = 1
    MaxStrays = 1
    PushesWait = FALSE
SPECIFICATION Spec
INVARIANTS NoSilentLoss RequestingHasOneCause
PROPERTY ImplementsFeed
CHECK_DEADLOCK FALSE
