SPECIFICATION Spec
CONSTANTS
    k1 = k1
    k2 = k2
    c1 = c1
    UpdateMethods <- FewMethods
    ToolCalls <- OneToolCall
    Clients <- OneClient
    CanCompact = TRUE
    MaxTurn = 5
    MaxRev = 2
    MaxFaults = 2
    MaxCrashes = 1
CONSTRAINT FaultsOrRaces
INVARIANTS DoneIsDurable CursorsNameDoneTurns ReadTail
