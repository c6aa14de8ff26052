SPECIFICATION FairSpec
CONSTANTS
    MaxMessages = 6
    OUTBOUND_CAPACITY = 3
    INITIAL_RECONNECT_DELAY = 2
    MAX_RECONNECT_DELAY = 7
INVARIANTS
    RegisterComesFirst
    DeliveredInOrder
PROPERTIES
    LinkSpec
    ShutdownStops
CHECK_DEADLOCK FALSE
