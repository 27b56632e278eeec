CONSTANTS
    Loaders = {video}
    Files = {file}
    Preloads = {}
    NumParts = 2
    StartWaited = 2
    MaxWaited = 3
    MaxSessions = 2
    MaxLoads = 1
    MaxCancels = 1
    MaxShifts = 1
    MaxRedirects = 1
    MaxReuploads = 1
    MaxTokens = 1
    MaxErrors = 1
    MaxRemovals = 1
    MaxTroubles = 2
SPECIFICATION FairSpec
INVARIANTS Consistent UncheckedIsAsked PartsAreKept
PROPERTY DownloadsEnd
CHECK_DEADLOCK FALSE
