CONSTANTS
    Ups = {u1, u2}
    Ctls = {d1, d2}
    NoConn = NoConn
    Ids = {1, 2}
    MaxPending = 2
    MaxFences = 1
    MaxInflight = 2
    FifoUpstream = FALSE
SPECIFICATION Spec
INVARIANTS
    FencedNeverReused
    EveryWaitMatched
    RightRecipient
PROPERTIES
    LossReported
SYMMETRY Symmetric
CHECK_DEADLOCK FALSE
