SPECIFICATION Spec
CONSTANTS
    Configs <- SomeConfigs
    Lists <- SomeLists
    Guides <- SomeGuides
    Gzipped <- SomeGzipped
    Local = {"listY", "guideA"}
    Offset = 1
    RetryDelays <- Delays
    FetchTime = 2
    Pipes = {1, 2}
    None = None
    MaxTrouble = 3
INVARIANTS
    ListedIsServed
    RevalidatedIsCurrent
PROPERTIES
    BecomesCurrent
CHECK_DEADLOCK FALSE
