CONSTANTS
    Ups = {u1, u2, u3}
    NoConn = NoConn
    MaxAttempts = 3
    MaxErrors = 2
SPECIFICATION Spec
INVARIANTS
    ReadyIsBacked
    ReconnectingIsTried
PROPERTIES
    RecoveryGivesUp
CHECK_DEADLOCK FALSE
