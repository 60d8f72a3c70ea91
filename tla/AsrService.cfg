SPECIFICATION Spec
CONSTANTS
    a1 = a1
    a2 = a2
    b1 = b1
    keyA = keyA
    keyB = keyB
    Streams = {a1, a2, b1}
    Keys = {keyA, keyB}
    Key <- KeyOfStream
    FrameUnits = 2
    ChunkUnits = 5
    Window = 1
    MaxBatch = 2
    MaxQueue = 2
    Faults = {"engine", "client"}
    MaxSequence <- LastFrame
INVARIANTS
    ChunksAreKept
    HeardInOrder
    EndedSessionIsForgotten
PROPERTIES
    SchedulerSpec
    FrameIsAnswered
CHECK_DEADLOCK FALSE
