CONSTANTS
    MaxAttaches = 2
    Threads = {t1, t2}
    NoMessage = NoMessage
    MessageQueue = 1
    ControlQueue = 1
    MaxMessages = 3
SPECIFICATION Spec
INVARIANTS
    TeardownOrder
    ControlFirst
    StatusTrue
PROPERTIES
    ControlKept
    CloseEnds
CHECK_DEADLOCK FALSE
