CONSTANTS
    Chats = {a, b}
    OwnChannels = {a, b}
    MaxMsg = 2
    Outgoing = {}
    MaxCalls = 2
    MaxRefused = 0
    MaxGhost = 2
SPECIFICATION Spec
SYMMETRY Symmetry
INVARIANT Consistent
PROPERTY GhostStartsNoRead
CHECK_DEADLOCK FALSE
