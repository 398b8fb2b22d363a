SPECIFICATION FairSpec
CONSTANTS
    n_producers = 1
    n_consumers = 1
    BUFFER_LEN = 2
    ThreadMayThrow = FALSE
PROPERTIES ShutdownCompletes
CHECK_DEADLOCK FALSE
