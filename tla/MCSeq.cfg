CONSTANTS
    Wait = 2
    MaxSeq = 4
    MaxResults = 2
    MaxFails = 1
    MaxSessions = 1
SPECIFICATION FairSpec
INVARIANTS Consistent NoContainerSkipped FedInOrder
PROPERTY BufferedArrives
CHECK_DEADLOCK FALSE
