SPECIFICATION Spec
CONSTANTS
    MaxBuffers = 8
    InitialBuffers = 4
    ExpandBuffers = 4
    LowWatermark = 1
    HighWatermark = 6
    MinBuffers = 4
    BaseBuffers = 64
    FloorBuffers = 1
    BufferUnits = 3
    BatchUnits = 8
    WriteBudget = 6
    ActiveStreams = 1
    Responses <- AllResponses
    Candidates = 2
    HeadUnits = 2
    HeadRoom = 5
    ScratchUnits = 2
    MaxRewrite = 7
    Segments = {3}
    ClientRoom = 7
    OthersMax = 7
INVARIANTS
    BodyInOrder
    PausedHasWaker
    OneAnswer
PROPERTIES
    Settles
CHECK_DEADLOCK FALSE
