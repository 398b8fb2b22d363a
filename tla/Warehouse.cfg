SPECIFICATION FairSpec
CONSTANTS
    n_producers = 2
    n_consumers = 2
    BUFFER_LEN = 2
    Items = {1, 2}
    CreateMayFail = TRUE
INVARIANTS TypeOK MutualExclusion SlotsConserved RingContents OwnNumber
PROPERTIES FifoRefinement Deliveries EveryItemLeaves
CHECK_DEADLOCK FALSE
