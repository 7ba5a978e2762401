SPECIFICATION WorkerSpec
CONSTANTS
    Fds = {3, 4, 5, 6}
    Listener = 0
    Conns = {c1, c2}
    Groups = {g}
    None = none
    MaxClients = 3
SYMMETRY ConnSymmetry
INVARIANTS
    MapLeadsToOwner
    NothingLeaks
CHECK_DEADLOCK FALSE
