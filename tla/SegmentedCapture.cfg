CONSTANTS
    Recorders = {1, 2}
    Writers = {w1}
    NoFrame = NoFrame
    NoRecorder = NoRecorder
    QueueDepth = 2
    SegmentMax = 2
    RetainSegments = 2
    MaxFrames = 6
    MaxCrashes = 1
SPECIFICATION Spec
INVARIANTS
    NoSendOnClosed
    ReplayInOrder
    CloseIsDurable
PROPERTIES
    CloseIsAnswered
CHECK_DEADLOCK FALSE
