SPECIFICATION FairSpec
CONSTANTS
    n_producers = 2
    n_consumers = 1
    BUFFER_LEN = 2
    Items = {hat}
    Other = other
    SpawnMayFail = TRUE
    MaxSpurious = 1
INVARIANTS RingContents
PROPERTIES FifoRefinement EveryItemLeaves
