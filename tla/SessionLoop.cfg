\* Three messages of every kind on a connection that may close or break at any
\* time; reads on a lost connection keep failing, which adds more failures.
SPECIFICATION FairSpec
CONSTANTS
    MaxRequests = 3
    MaxQueued = 2
    LostReads = {"error"}
INVARIANTS TypeOK ResponsesInOrder NoStalledWrite 
PROPERTIES ResponsesArrive 
\* Once the connection is closed nothing is left to do.
CHECK_DEADLOCK FALSE
