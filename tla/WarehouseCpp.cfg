SPECIFICATION FairSpec
CONSTANTS
    n_producers = 2
    n_consumers = 2
    BUFFER_LEN = 3
    ThreadMayThrow = TRUE
INVARIANTS RingInv
PROPERTIES ComesToRest FlowWhileRunning
CHECK_DEADLOCK FALSE
