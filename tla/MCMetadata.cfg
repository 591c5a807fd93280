CONSTANTS
    c1 = c1
    c2 = c2
    f1 = f1
    f2 = f2
    Protocols <- MCProtocols
    Clients = {c1, c2}
    Items = {f1, f2}
    TTL = 1
    Delay = 1
    Lag = 1
    MaxRev = 2
    MaxFaults = 1
SPECIFICATION Spec
INVARIANTS HitIsRecent  ListedIsCached
PROPERTY RecordsKept
