\* The strand and the audio thread, repeated queue entries, queues longer
\* than the cache.
SPECIFICATION Spec
CONSTANTS
    Item = {a, b, c}
    NoItem = none
    Queues <- ShortAndLongQueues
    Thread = {strand, audio}
    Strand = strand
    Prefetch = 2
    CacheLimit = 2
INVARIANTS TypeOK HeadsCached CacheBounded AnswerMatchesDownload
PROPERTIES DownloadsKept ImplementsSource
SYMMETRY Symmetry
