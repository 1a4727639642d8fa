SPECIFICATION Spec
CONSTANTS
    Jobs = {1}
    MaxTurns = 4
    ShortTurns = 2
    MaxArchives = 2
    Overlap = FALSE
    Crashes = FALSE
    Faults = {}
CHECK_DEADLOCK FALSE
INVARIANT NothingLost
