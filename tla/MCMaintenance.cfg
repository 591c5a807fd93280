CONSTANTS
    h1 = h1
    k1 = k1
    m1 = m1
    Hashes <- MCHashes
    Keys <- MCKeys
    MetaKeys <- MCMetaKeys
    MaxTime = 2
    BatchSize = 1
    MaxManual = 1
    NoRow = NoRow
    NoEnvelope = NoEnvelope
    NoScan = NoScan
SPECIFICATION MaintenanceFairSpec
INVARIANTS
    TypeOK
    RefsMirrorEnvelopes
    ExpiryIndexesExact
    
    FlatBucketsExact
PROPERTIES ReapOnlyExpired 
