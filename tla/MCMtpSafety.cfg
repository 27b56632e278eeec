CONSTANTS
    NumRequests = 2
    IdsBufferSize = 2
    MaxId = 4
    MaxBreaks = 1
    MaxResets = 1
    MaxLost = 1
    MaxResends = 1
    MaxFaults = 4
    MaxRetries = 0
    RetryNow = FALSE
SPECIFICATION Spec
INVARIANTS TypeOK NoRequestForgotten AnsweredIsNotSent ExecutedOnce
PROPERTY CalledBackOnce
CHECK_DEADLOCK FALSE
