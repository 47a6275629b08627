\* A pool of two, which fits one wait, and of three, which does not when it is full; up
\* to four processes at a time and any number one after the other, every failure and every
\* crash, under fairness of the thread.
SPECIFICATION FairSpec
CONSTANTS
    Processes = {p1, p2, p3, p4}
    PoolSizes = {2, 3}
    MAXIMUM_WAIT_OBJECTS = 3
INVARIANTS
    TypeOK
    NoStrayProcess
    FullBeforeWaiting
PROPERTIES
    PoolContractRefinement
    TheDeadAreRemoved
    FittingPoolStops
CHECK_DEADLOCK FALSE
