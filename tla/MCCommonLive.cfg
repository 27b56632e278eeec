CONSTANTS
    FirstPts = 1
    Counts = {1, 2}
    MaxEvents = 3
    MaxLost = 0
    MaxFails = 1
    MaxSessions = 1
    MaxStrays = 0
    PushesWait = TRUE
SPECIFICATION FairSpec
INVARIANT GapHasTimer
PROPERTIES GapRepaired EveryUpdateArrives
CHECK_DEADLOCK FALSE
