SPECIFICATION FecSpec
CONSTANTS
    W = 8
    M = 64
    InitCollect = 3
    First <- MCFirst
    FirstLoss = 2
    FirstLate = 4
    MaxLoss = 9
    MaxLate = 9
    MaxPacket = 88
    K = 3
    Parities = 2
    MaxGroups = 3
    Begin = 60
    MaxGap = 2
    MaxBehind = 2
    MaxRepaired = 95
    MaxFaulty = 68
    Networks <- MCNetworks
PROPERTIES
    InOrderOnce
    NoPrematureSkip
    Whole
CHECK_DEADLOCK FALSE
