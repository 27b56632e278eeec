CONSTANTS
    FirstPts = 1
    Counts = {1, 2}
    MaxEvents = 3
    MaxLost = 1
    MaxFails = 1
    MaxReads = 1
    MaxWindows = 2
SPECIFICATION FairSpec
INVARIANTS Consistent ShownIsPolled ChannelGapHasTimer
PROPERTIES ImplementsFeed GapRepaired
CHECK_DEADLOCK FALSE
