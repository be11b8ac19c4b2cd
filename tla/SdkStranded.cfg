CONSTANTS
    Calls = {a1, a2}
    Ids = {1, 2}
    Ups = {u1, u2}
    NoConn = NoConn
    NoCall = NoCall
    NoId = NoId
    PendingLimit = 2
SPECIFICATION SafetySpec
INVARIANT WaitersTerminated
CHECK_DEADLOCK FALSE
