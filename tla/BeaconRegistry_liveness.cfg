SPECIFICATION FairSpec
CONSTANTS
    b1 = b1
    b2 = b2
    own = own
    g1 = g1
    g2 = g2
    NoBeacon = NoBeacon
    NoGateway = NoGateway
    Registration = Registration
    Beacons <- MCBeacons
    Gateways <- MCNoGateway
    OwnGateway = NoGateway
    TopicCapacity = 2
    InboundCapacity = 1
    BEACON_TIMEOUT = 0
    BEACON_TIMEOUT_CHECK_INTERVAL = 1
PROPERTIES
    StaleBeaconIsRemoved
    QueuedChannelIsRegistered
