\* A pool with as many processes as one wait takes handles.
SPECIFICATION FairSpec
CONSTANTS
    Processes = {p1, p2, p3}
    PoolSizes = {2}
    MAXIMUM_WAIT_OBJECTS = 2
PROPERTIES
    StopEndsThread
CHECK_DEADLOCK FALSE
