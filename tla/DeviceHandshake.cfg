SPECIFICATION FairSpec
CONSTANTS
    Hosts = {"d1"}
    Clients = {"c1"}
    MaxBoots = 2
    MaxRequests = 2
    MaxFaults = 2
    Handlers = {"h1", "h2"}
CHECK_DEADLOCK FALSE
INVARIANTS
    OneAuthority
    ClientCanConnect
    SentWasStored
    LoneHandshakeAgrees
PROPERTIES
    StableAcrossRestarts
    StartupCompletes
    RefusedOnlyWithReason
