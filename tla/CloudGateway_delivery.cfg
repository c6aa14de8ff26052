SPECIFICATION ReachableSpec
CONSTANTS
    MaxMessages = 3
    OUTBOUND_CAPACITY = 2
    INITIAL_RECONNECT_DELAY = 2
    MAX_RECONNECT_DELAY = 7
PROPERTIES
    QueuedIsDelivered
CHECK_DEADLOCK FALSE
