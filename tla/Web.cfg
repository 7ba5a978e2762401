SPECIFICATION Spec
CONSTANTS
    Workers = {w1, w2}
    Super = sup
    Here = w1
    Fields <- MCFields
    Default <- MCDefault
    Numerals = {"5", "7", "1", "2"}
    Normal <- MCNormal
    Paths = {"/s"}
    V6Nodes = {"v6"}
    Files <- MCFiles
    Commands <- MCCommands
    Forms <- MCForms
    MaxSaves <- MCMaxSaves
    MaxCrashes = 1
    WritesMayFail = TRUE
    Inbuf = 2
    BodyMax = 3
    Requests <- MCRequests
    Segments <- MCSegments
    Hosts <- MCHosts
    Labels <- MCLabels
    Local = {"near", "unix"}
    Banned = {"banned"}
    Services <- MCServices
    Dynamic <- MCDynamic
    Assets <- MCAssets
    Guide = "plain"
INVARIANTS
    RunsWhatWasSaved
    NothingElseIsLost
PROPERTIES
    WholeRequestIsAnswered
    OnlyTheEntitled
CHECK_DEADLOCK FALSE
