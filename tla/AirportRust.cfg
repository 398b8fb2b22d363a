SPECIFICATION FairAirport
CONSTANTS
    NO_TH = 5
    Clients = {1, 2, 3, 4, 5}
    Value0 = 1
    MaxValue = 6
    Nobody = nobody
    MaxSpurious = 1
    SpawnMayFail = TRUE
INVARIANTS SemaphoreInv OnlyStraysMeet
PROPERTIES CountingRefinement AllLand
