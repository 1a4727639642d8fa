SPECIFICATION Spec
CONSTANTS
    a = a
    b = b
    SlotsPerFile = 2
    Contents <- TwoContents
    Bytes <- TwoBytes
    Garbage = Garbage
    Gap = Gap
    Unreadable = Unreadable
    MaxTurn = 5
    MaxBatch = 2
    MaxFaults = 1
    MaxCrashes = 1
INVARIANTS TypeOK ReadsNeverFail NextSlotIsFree OnlyNewFilesBlock
PROPERTIES ImplementsLog
