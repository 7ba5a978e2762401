SPECIFICATION Spec
CONSTANTS
    Kinds <- AllKinds
    Stun = TRUE
    Credentials = TRUE
    Candidates = 2
    MaxRedirects = 1
    MaxChallenges = 1
    Redirecting <- BeforeMedia
    BufferItems = 3
    Room = 1
    MaxItems = 2
    MaxKeepalives = 1
INVARIANTS
    OneExchange
    SameEndpoint
PROPERTIES
    LastMediaIsForwarded
    LeftMeansGone
CHECK_DEADLOCK FALSE
