SPECIFICATION FairSpec
CONSTANTS
    MaxMessages = 6
    OUTBOUND_CAPACITY = 2
    RequestCapacity = 4
    INITIAL_RECONNECT_DELAY = 2
    MAX_RECONNECT_DELAY = 7
INVARIANTS
    RefusedCredentialsAreDropped
PROPERTIES
    LinkSpec
    ShutdownStops
CHECK_DEADLOCK FALSE
