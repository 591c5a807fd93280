CONSTANTS
    c1 = c1
    c2 = c2
    p1 = p1
    p2 = p2
    a = a
    b = b
    Calls <- MCCalls
    Programs <- MCPrograms
    Outputs <- MCOutputs
    None = None
    Torn = Torn
    MaxFaults = 1
    MaxStops = 1
SPECIFICATION FairSpec
INVARIANTS SidecarDescribesBlob OutageIsBounded
PROPERTY EveryCallEnds
