CONSTANTS
    h1 = h1
    h2 = h2
    k1 = k1
    k2 = k2
    w1 = w1
    w2 = w2
    Hashes <- MCTwoHashes
    Keys <- MCTwoKeys
    Writers <- MCOneWriter
    Collectors <- MCNoCollector
    Retention = 0
    MaxTime = 2
    MaxFaults = 2
    BatchSize = 1
    GCBatchSize = 2
    NoRow = NoRow
    NoEnvelope = NoEnvelope
SPECIFICATION CacheSpec
INVARIANTS RowBeforeFile RefCountExact
PROPERTIES FollowsOrder ImplementsPinTable
