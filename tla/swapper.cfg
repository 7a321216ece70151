SPECIFICATION Spec
CONSTANTS
    b1 = b1
    b2 = b2
    b3 = b3
    c1 = c1
    c2 = c2
    c3 = c3
    Buffer <- ThreeBuffers
    Client <- ThreeClients
    NoBuffer = NoBuffer
    MaxFrame = 4
CHECK_DEADLOCK FALSE
INVARIANT TypeOK
INVARIANT ExclusiveOwnership
INVARIANT BuffersAccountedFor
INVARIANT CompositorFindsABuffer
INVARIANT UndefinedOnlyMidFrame
INVARIANT LastShownIsKept
PROPERTY FramesInOrder
