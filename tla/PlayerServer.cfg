\* Three managers, the server started and stopped at any time.
SPECIFICATION FairSpec
CONSTANTS
    Conn = {c1, c2, c3}
    Nobody = nobody
INVARIANTS TypeOK SlotHoldsSession ThreadServesWork
PROPERTIES NewcomersServed QuietCloseReturns
