\* The comment at SongCache.cpp 76 against the code.
SPECIFICATION Spec
CONSTANTS
    Item = {1, 2, 3}
    NoItem = 0
    Queues <- DistinctQueuesUpTo3
    Thread = {strand}
    Strand = strand
    Prefetch = 2
    CacheLimit = 3
PROPERTIES WaitsForBuffering
