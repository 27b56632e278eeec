CONSTANTS
    FirstPts = 1
    Counts = {0, 1}
    MaxEvents = 3
    MaxLost = 0
    MaxFails = 0
    MaxSessions = 0
    MaxStrays = 0
    PushesWait = FALSE
SPECIFICATION Spec
INVARIANT GapHasTimer
CHECK_DEADLOCK FALSE
