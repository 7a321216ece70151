SPECIFICATION FairSpec
CONSTANTS
    b1 = b1
    b2 = b2
    b3 = b3
    Buffer <- TwoBuffers
    NoBuffer = NoBuffer
    MaxFrame = 3
    NoThread = NoThread
    app = app
    shell = shell
CHECK_DEADLOCK FALSE
INVARIANT UndefinedOnlyWhilePosting
INVARIANT RegionHeldOnlyInFrame
PROPERTY EveryFrameIsShown
PROPERTY BlockedClientProceeds
PROPERTY ShutdownFreesClient
