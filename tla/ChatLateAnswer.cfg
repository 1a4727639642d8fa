SPECIFICATION Spec
CONSTANTS
    MaxStamp = 3
    MaxTurn = 3
    Loads = {"l1"}
    MaxDrops = 0
    MaxReloads = 0
    MaxRestarts = 0
    MaxFails = 0
    MaxLates = 1
CHECK_DEADLOCK FALSE
INVARIANT SealReplacesLive
