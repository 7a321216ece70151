SPECIFICATION FramesSpec
CONSTANTS
    b1 = b1
    b2 = b2
    b3 = b3
    c1 = c1
    Buffer <- MCBuffer
    Client <- MCClient
    NoBuffer = NoBuffer
    MaxFrame = 8
    MaxBuffers = 3
CHECK_DEADLOCK FALSE
INVARIANT AgeTellsFrame
