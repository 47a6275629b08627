\* One application stops while another one of the same worker process goes on.
SPECIFICATION Spec
CONSTANTS
    a1 = a1
    a2 = a2
    p1 = p1
    p2 = p2
    p3 = p3
    w1 = w1
    w2 = w2
    Applications = {a1, a2}
    Pools = {p1, p2}
    Processes = {w1, w2}
    Configurations <- TwoApplications
    SIZE_MAX = 7
    MAXIMUM_WAIT_OBJECTS = 3
PROPERTIES
    PoolsLiveWithTheirApplication
CHECK_DEADLOCK FALSE
