SPECIFICATION Spec
CONSTANTS
    W = 4
    M = 16
    InitCollect = 2
    Vendors = {"telecom", "huawei"}
    Servers = {a, b}
    FirstServer = a
    NoServer = none
    MaxRedirects = 1
    SignalTicks = 1
    UnicastTicks = 2
    McastTicks = 2
    SyncTicks = 3
    Start = 14
    Lag = 2
    Kinds = {"error", "noUnicast", "unicast", "redirect", "sync"}
    MaxControl = 2
    MaxFlight = 2
    MaxPacket = 17
    MaxLosses = 1
    SendMayFail = TRUE
    JoinMayFail = TRUE
INVARIANTS
    TermAfterJoin
    EndsBurst
    Seamless
PROPERTIES
    InOrderOnce
    ReachesMcast
CHECK_DEADLOCK FALSE
