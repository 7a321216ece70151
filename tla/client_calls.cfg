SPECIFICATION FairSpec
CONSTANTS
    a1 = a1
    a2 = a2
    s1 = s1
    App <- MCApp
    Surface <- MCSurface
    Makes <- MCMakes
    Sync <- MCSync
    NoSurface = NoSurface
    MaxCall = 5
    MaxPending = 2
INVARIANTS NothingDangles
PROPERTIES WaitMeansCompleted WaitReturns CallsCompleteInOrder
CHECK_DEADLOCK FALSE
