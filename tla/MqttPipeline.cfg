CONSTANTS
    CMD_CAPACITY = 2
    MSG_CAPACITY = 1
    RequestCapacity = 2
    MaxBeacons = 2

SPECIFICATION FairSpec

INVARIANTS
    AwaitedReplyComes
    StuckOnlyWhenFull

PROPERTIES
    RoomMeansProgress
    RoomMeansShutdown

CHECK_DEADLOCK FALSE
