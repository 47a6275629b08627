\* Two applications that start, stop and fail to load in every order, with processes that
\* come and go, and command lines of every executable of up to three characters, or two with wide ones.
SPECIFICATION FairSpec
CONSTANTS
    a1 = a1
    a2 = a2
    p1 = p1
    p2 = p2
    p3 = p3
    w1 = w1
    w2 = w2
    Applications = {a1, a2}
    Pools = {p1, p2, p3}
    Processes = {w1, w2}
    Configurations <- SmallConfigurations
    SIZE_MAX = 7
    MAXIMUM_WAIT_OBJECTS = 3
INVARIANTS
    TypeOK
    ProcessesOnlyAsConfigured
    CommandLineReadsBack
PROPERTIES
    StopReturns
CHECK_DEADLOCK FALSE
