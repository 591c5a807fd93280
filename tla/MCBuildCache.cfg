CONSTANTS
    a1 = a1
    o1 = o1
    c1 = c1
    c2 = c2
    Actions <- MCActions
    Outputs <- MCOutputs
    Clients <- MCClients
    None = None
    MaxUploads = 3
    MaxCrashes = 1
SPECIFICATION FairSpec
INVARIANT RegistryTracksUploads
PROPERTIES EndsByItsOwn EveryRegistrationEnds
CHECK_DEADLOCK FALSE
