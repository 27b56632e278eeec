CONSTANTS
    Chats = {a}
    OwnChannels = {a}
    MaxMsg = 3
    Outgoing = {2}
    MaxCalls = 3
    MaxRefused = 1
    MaxGhost = 0
SPECIFICATION FairSpec
INVARIANTS NothingForgotten OverlappedIsAskedAgain ReadAnswerInOrder
PROPERTIES NobodyWaitsForEver ReadsAreTold KeepsOrder
CHECK_DEADLOCK FALSE
