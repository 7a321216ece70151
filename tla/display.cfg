SPECIFICATION FairSpec
CONSTANTS
    c1 = c1
    c2 = c2
    c3 = c3
    other = other
    Crtc <- MCCrtc
    Thread <- MCThread
    Owner <- MCOwner
    NoThread = NoThread
    Bo = {bo1, bo2, bo3}
    NoBo = NoBo
    display = display
CHECK_DEADLOCK FALSE
INVARIANT SingleWorker
INVARIANT PendingMatchesKernel
INVARIANT FlippedOutputIsLocked
INVARIANT NoBufferObjectLeaks
INVARIANT NoFlipLeftBehind
PROPERTY ReturnsOnlyWhenFlipped
PROPERTY WaitReturns
