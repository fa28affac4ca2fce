SPECIFICATION Spec
CONSTANTS
    MaxRequests = 3
    MaxQueued = 1
    LostReads = {"error", "aborted"}
PROPERTIES NoWriteOnClose
CHECK_DEADLOCK FALSE
