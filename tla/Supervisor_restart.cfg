SPECIFICATION Spec
CONSTANTS
    c1 = c1
    c2 = c2
    Registered <- MCServices
    Available <- MCServices
    Requested <- MCRequested
    Callers <- MCCallers
    NoCaller = NoCaller
    ChannelBuffer = 1
CHECK_DEADLOCK FALSE
INVARIANT
    RunningServiceRestarts
