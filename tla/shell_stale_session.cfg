SPECIFICATION Spec
CONSTANTS
    Session = {s1, s2}
    NoSession = NoSession
    Throws = Throws
    shell = shell
    Id = {}
    Tagged = {}
    NoThread = NoThread
    NoSurface = NoSurface
    Torn = Torn
    MaxSurface = 1
INVARIANT ClosedSessionIsGone
