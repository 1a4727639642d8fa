SPECIFICATION Spec
CONSTANTS
    k1 = k1
    k2 = k2
    c1 = c1
    UpdateMethods <- FewMethods
    ToolCalls <- OneToolCall
    Clients <- OneClient
    CanCompact = FALSE
    MaxTurn = 5
    MaxRev = 2
    MaxFaults = 0
    MaxCrashes = 0
INVARIANT RowMatchesFiles
