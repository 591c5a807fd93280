CONSTANTS
    h1 = h1
    h2 = h2
    k1 = k1
    k2 = k2
    w1 = w1
    w2 = w2
    Hashes <- MCOneHash
    Keys <- MCTwoKeys
    Writers <- MCTwoWriters
    Collectors <- MCBoth
    Retention = 0
    MaxTime = 0
    MaxFaults = 1
    BatchSize = 1
    GCBatchSize = 2
    NoRow = NoRow
    NoEnvelope = NoEnvelope
SPECIFICATION CacheFairSpec
INVARIANTS CacheTypeOK NeverOverPinned
PROPERTY DebrisIsReclaimed
