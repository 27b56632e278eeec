\* Three calls of the user, a period longer than the idle time.
CONSTANTS
    Period = 3
    IdleTime = 2
    Recheck = 1
    Worker = 2
    MaxWire = 2
    MaxCalls = 3
SPECIFICATION FairSpec
INVARIANTS RefreshedInTime OfflineToldBeforeQuit
PROPERTIES ShownFollowsUser Idleness
CHECK_DEADLOCK FALSE
