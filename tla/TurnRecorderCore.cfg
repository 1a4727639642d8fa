SPECIFICATION Spec
CONSTANTS
    k1 = k1
    k2 = k2
    c1 = c1
    UpdateMethods <- AllMethods
    ToolCalls <- TwoToolCalls
    Clients = {}
    CanCompact = TRUE
    MaxTurn = 6
    MaxRev = 2
    MaxFaults = 0
    MaxCrashes = 0
SYMMETRY ToolSymmetry
INVARIANTS TypeOK UnfinishedTail RowMatchesFiles LiveTurnsFollowFiles PublishedIsPersisted IdleIsSettled
PROPERTIES SealBeforeNext
