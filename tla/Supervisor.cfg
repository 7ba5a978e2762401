SPECIFICATION Spec
CONSTANTS
    MaxWorkers = 2
    Pids = {p1, p2}
    NoPid = none
    Configs <- MCConfigs
    FirstConfig <- TwoWorkers
    Missing = missing
    Defaults = defaults
    MaxRestarts = 1
    WindowPasses = 1
    MaxEvents = 2
    FilesMayVanish = TRUE
    SuperMayDie = TRUE
INVARIANTS
    TableMatches
    NoRestartStorm
PROPERTIES
    Converges
    EndsTogether
CHECK_DEADLOCK FALSE
