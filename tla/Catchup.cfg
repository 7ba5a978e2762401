SPECIFICATION Spec
CONSTANTS
    Sources <- MCSources
    Requests <- MCRequests
    Now = 40
    DefaultWindow = 5
    MaxWindow = 12
    MinZone <- MCMinZone
    MaxZone = 14
INVARIANTS
    SeeksWhatWasMeant
    RequestWins
    AdvertisedIsUnderstood
