SPECIFICATION ReconnectSpec
CONSTANTS
    b1 = b1
    b2 = b2
    NoBeacon = NoBeacon
    NoGateway = NoGateway
    Registration = Registration
    Beacons <- MCBeacons
    Gateways = {}
    OwnGateway = NoGateway
    TopicCapacity = 2
    InboundCapacity = 1
    BEACON_TIMEOUT = 1
    BEACON_TIMEOUT_CHECK_INTERVAL = 1
SYMMETRY Symmetry
INVARIANTS
    PunctualBeaconIsKept
