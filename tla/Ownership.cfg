CONSTANTS
    Conns = {c1, c2, c3}
    NoConn = NoConn
SPECIFICATION Spec
INVARIANTS
    LiveConnections
PROPERTIES
    ImplementsSlot
    CloseCompletes
CHECK_DEADLOCK FALSE
