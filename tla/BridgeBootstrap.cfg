CONSTANTS
    Ups = {u1}
    Ctls = {d1, d2}
    NoConn = NoConn
    Ids = {1, 2}
    MaxPending = 2
    MaxFences = 1
    MaxInflight = 2
    FifoUpstream = TRUE
SPECIFICATION Spec
INVARIANT
    BootstrapPrivate
SYMMETRY Symmetric
CHECK_DEADLOCK FALSE
