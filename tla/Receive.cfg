SPECIFICATION ReceiveSpec
CONSTANTS
    Sources = {s1, s2}
    Buffers = {1, 2, 4}
    Large = 4
    Medium = 2
    LimitMax = 3
    Few = 2
    MaxRead = 4
    Window = 2
    Room = 5
    MaxTime = 6
    MaxPackets = 6
    MaxTrouble = 1
SYMMETRY SourceSymmetry
INVARIANTS
    NothingLiesUnread
CHECK_DEADLOCK FALSE
