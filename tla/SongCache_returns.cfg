\* Liveness of the strand's calls, with the audio thread beside it.
SPECIFICATION FairSpec
CONSTANTS
    Item = {1, 2}
    NoItem = 0
    Queues <- QueuesUpTo2
    Thread = {strand, audio}
    Strand = strand
    Prefetch = 1
    CacheLimit = 1
PROPERTIES CallsReturn
