SPECIFICATION FairSpec
CONSTANTS
    b1 = b1
    b2 = b2
    b3 = b3
    Buffer <- ThreeBuffers
    NoBuffer = NoBuffer
    MaxFrame = 3
    NoThread = NoThread
    app = app
    shell = shell
CHECK_DEADLOCK FALSE
PROPERTY EveryFrameIsShown
