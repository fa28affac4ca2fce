SPECIFICATION Spec
CONSTANTS
    MaxSockets = 2
    MaxActs = 5
    MinQueue = 2
    Enough = 1
INVARIANT ConnectedHasSocket
CHECK_DEADLOCK FALSE
