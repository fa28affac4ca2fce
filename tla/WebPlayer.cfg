SPECIFICATION Spec
CONSTANTS
    MaxSockets = 2
    MaxActs = 5
    MinQueue = 2
    Enough = 1
INVARIANTS TypeOK StripHasItsSocket CanDisconnect OneLiveSocket InitializedIsServed PlayerHasTheQueue CurrentIsNotQueued
PROPERTY StopEnds
CHECK_DEADLOCK FALSE
