SPECIFICATION FairSpec
CONSTANTS
    k1 = k1
    k2 = k2
    k3 = k3
    k4 = k4
    k5 = k5
    KeyIds <- MCKeyIds
    NoKey = NoKey
    rotation_interval = 3
    key_expiry = 5
    CycleTime = 3
    MaxFaults = 2
INVARIANTS
    OneActiveKey
    HeldKeyIsActive
    TokenSlotIsAccepted
PROPERTIES
    UnrotatedKeyIsKept
    ActiveKeyReturns
    ExpiredKeyIsDeleted
