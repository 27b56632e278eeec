CONSTANTS
    IdsBufferSize = 2
    MaxServerId = 3
    MaxContained = 2
    MaxWire = 1
    MaxTroubles = 1
SPECIFICATION ReceivedFairSpec
INVARIANTS HandledOnce AckedIsHandled
PROPERTY Acknowledged
CHECK_DEADLOCK FALSE
