SPECIFICATION Spec
CONSTANTS
    Connections = 3
    BufferLimit = 2
    MaxAttempts = 2
    Faults <- EveryFault
    MaxFrames = 2
    MaxClicks = 2
    MaxDrops = 2
PROPERTIES GateReopens FramesAreAcknowledged
CHECK_DEADLOCK FALSE
