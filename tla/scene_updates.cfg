SPECIFICATION FairSpec
CONSTANTS
    Functor = {f1, f2}
    NoThread = NoThread
    Emitter = {e1, e2}
    MaxChange = 2
CHECK_DEADLOCK FALSE
INVARIANT NoNotificationAfterStop
INVARIANT RendersOnDemand
PROPERTY ChangesAreRendered
PROPERTY StopReturns
