SPECIFICATION PartsSpec
CONSTANTS
    Session = {s1, s2, s3, s4, s5}
    NoSession = NoSession
    Throws = Throws
    Connectors = 3
    Encoders = 2
    Crtcs = 2
CHECK_DEADLOCK FALSE
INVARIANT FocusCyclesInOrder
INVARIANT OutputsHaveOwnCrtcs
INVARIANT ConsoleIsRestored
PROPERTY ClosingTransfersFocus
