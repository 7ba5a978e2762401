SPECIFICATION Spec
CONSTANTS
    Slots = {1, 2}
    Indexes = {"w0", "w1"}
    Pages = {"w1"}
    Pids = {1, 2, 3}
    Clients = {1, 2}
    IpOf <- MCIpOf
    MaxClients = 1
    MaxBlocked = 1
    MaxUpdates = 2
    MaxAsks = 1
    DiesInGuard = FALSE
INVARIANTS
    SlotsAreOwned
    SnapshotIsOneClient
    DisconnectHitsTarget
    AnsweredIsPending
CHECK_DEADLOCK FALSE
