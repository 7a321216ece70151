SPECIFICATION FairSpec
CONSTANTS
    Session = {s1, s2}
    NoSession = NoSession
    Throws = Throws
    shell = shell
    Id = {id1}
    Tagged = {s1}
    NoThread = NoThread
    NoSurface = NoSurface
    Torn = Torn
    MaxSurface = 1
INVARIANT FocusIsRegistered
INVARIANT InputGoesToVisibleSession
PROPERTY OperationsReturn
