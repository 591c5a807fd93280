CONSTANTS
    r1 = r1
    r2 = r2
    r3 = r3
    Providers <- MCProviders
    Callers <- MCCallers
    Lifetimes <- MCLifetimes
    Skew = 2
    Latency = 1
    MaxTime = 5
    NoToken = NoToken
SPECIFICATION FairSpec
 
PROPERTIES CallUsesTheCache EveryRequestGoesOn
