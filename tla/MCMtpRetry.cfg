CONSTANTS
    NumRequests = 2
    IdsBufferSize = 3
    MaxId = 4
    MaxBreaks = 1
    MaxResets = 0
    MaxLost = 1
    MaxResends = 0
    MaxFaults = 1
    MaxRetries = 1
    RetryNow = TRUE
SPECIFICATION FairSpec
PROPERTY AllAnswered
CHECK_DEADLOCK FALSE
