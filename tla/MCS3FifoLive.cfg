CONSTANTS
    h1 = h1
    h2 = h2
    p1 = p1
    p2 = p2
    Hashes <- MCHashes
    Putters <- MCOnePutter
    Size <- MCUnitSize
    MaxSize = 1
    SmallQueuePercent = 10
    GhostMaxEntries = 0
    GhostFloor = 1
    MaxAccess = 1
    NoRow = NoRow
    MaxOps = 4
    MaxFaults = 0
    MaxRestarts = 0
SPECIFICATION FairSpec
PROPERTY OverrunIsRelieved
CHECK_DEADLOCK FALSE
