CONSTANTS
    k1 = k1
    c1 = c1
    c2 = c2
    Resources <- MCResources
    Callers <- MCCallers
    Contents <- MCContents
    Protocols <- MCProtocols
    MaxCalls = 2
    MaxErrors = 1
    MaxLosses = 1
SPECIFICATION FairSpec
INVARIANTS TypeOK OneFetchUntilFailure  
PROPERTIES CancelledCallerReturns StreamedIsCached
CHECK_DEADLOCK FALSE
