CONSTANTS
    MaxAttaches = 2
    Threads = {t1}
    NoMessage = NoMessage
    MessageQueue = 1
    ControlQueue = 1
    MaxMessages = 3
SPECIFICATION Spec
PROPERTIES
    DetachReported
CHECK_DEADLOCK FALSE
