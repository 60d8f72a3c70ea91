SPECIFICATION Spec
CONSTANTS
    Connections = 3
    BufferLimit = 3
    MaxAttempts = 2
    Faults <- EveryFault
    MaxFrames = 4
    MaxClicks = 2
    MaxDrops = 2
INVARIANTS RecordingInv NoFrameIsForgotten EndedIsComplete
CHECK_DEADLOCK FALSE
