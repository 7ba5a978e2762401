SPECIFICATION Spec
CONSTANTS
    W = 4
    M = 32
    InitCollect = 2
    Viewers = {v1, v2}
    Modes = {"plain", "waiting", "snapshot"}
    Media = {"rtp", "ts"}
    BatchMax = 2
    ExactFit = FALSE
    First = 31
    MaxLoss = 1
    MaxLate = 1
    MaxPacket = 34
    MaxTrouble = 2
    v1 = v1
    v2 = v2
INVARIANTS
    OneWayEach
    NothingDueIsLost
PROPERTIES
    InOrderOnce
SYMMETRY MCSymmetry
CHECK_DEADLOCK FALSE
