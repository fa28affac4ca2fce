SPECIFICATION Spec
CONSTANTS
    ui = ui
    w = w
    p1 = p1
    p2 = p2
    Ui = ui
    Workers = {w}
    Paths = {p1, p2}
    Tags <- MCTags
    PlaylistNames = {"favourites"}
    MaxId = 2
    MaxEvents = 4
    RemoveLists <- MCRemoveLists
    EntryChanges <- MCEntryChanges
INVARIANTS TypeOK   NoAbandonedTransaction SongsKeepTheirNames
CHECK_DEADLOCK FALSE
