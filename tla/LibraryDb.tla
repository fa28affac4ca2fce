------------------------------- MODULE LibraryDb -------------------------------
(***************************************************************************)
(* The song library of the file server: the operations of SqliteAPI        *)
(* (JukeItApp/SqliteAPI.cc) that change data.dat, run by several threads   *)
(* on the one connection they share.                                       *)
(*                                                                         *)
(* A step is one SQL statement: the library serializes statements on a     *)
(* connection, and nothing else does.  A transaction is a state of the     *)
(* connection, not of a thread: what any thread does between BEGIN and     *)
(* COMMIT or ROLLBACK is part of it.  A statement may fail because another *)
(* process has locked the file; a failed COMMIT leaves the transaction     *)
(* open.  Foreign keys are declared in the schema and never enforced: no   *)
(* code sets the pragma, and the library's default is off.                 *)
(*                                                                         *)
(* Queries are left out unless an operation acts on their result.  The     *)
(* loop of AddFiles over the chosen files is one StartAdd per file: it     *)
(* carries nothing from one file to the next.                              *)
(***************************************************************************)
EXTENDS Integers, Sequences

CONSTANTS Ui,             \* the thread of the browser's handlers that are no tasks
          Workers,        \* threads of tasks and of the REST interface
          Paths,          \* song files
          Tags,           \* Tags[p]: the artist, album and genre named in file p
          PlaylistNames,  \* names a user gives playlists
          MaxId,          \* bound: row ids
          MaxEvents,      \* bound: operations, changes of files and restarts
          RemoveLists,    \* the lists of song ids RemoveFiles is called with
          EntryChanges    \* the changes ModifyPlaylistSongs is called with

Threads == {Ui} \cup Workers
Ids == 1..MaxId
Kind == {"artist", "album", "genre"}
Unnamed == ""        \* an empty tag
Null == -1           \* an id that was not found: the column stays NULL
NotANumber == 0      \* what TryParseInt refuses
NoThread == "none"
Left == "left"       \* a transaction whose operation has returned

ASSUME ThreadsAssumption == Ui \notin Workers /\ {NoThread, Left} \cap Threads = {}
ASSUME BoundsAssumption == MaxId \in Nat /\ MaxEvents \in Nat
ASSUME TagsAssumption == \A p \in Paths : DOMAIN Tags[p] = Kind
\* RemoveFiles reads its ids as signed numbers, ModifyPlaylistSongs as unsigned ones.
ASSUME RequestsAssumption ==
    /\ RemoveLists \subseteq Seq(Int)
    /\ \A change \in EntryChanges : change.add \subseteq Nat /\ change.remove \subseteq Nat

VARIABLES db,          \* the database as the connection sees it
          disk,        \* the database without the open transaction
          opener,      \* whose BEGIN opened the transaction, Left or NoThread
          at,          \* at[t]: where thread t is, "idle" between operations
          job,         \* job[t]: the operation of thread t and its local variables
          answer,      \* answer[t]: what its last operation returned
          fate,        \* history: what became of the writes of t's operation
          interfered,  \* history: did another operation's transaction touch them?
          files,       \* the song files that exist
          events       \* how many things have been begun, for the bound

connection == <<db, disk, opener>>
history == <<fate, interfered>>
vars == <<connection, at, job, answer, history, files, events>>

\* The key of an artist or a genre is its name; of an album, its artist too.
Key(kind, ids, name) == <<IF kind = "album" THEN ids["artist"] ELSE 0, name>>

Empty == <<>>
NoJob == [op |-> "none"]

Init ==
    /\ db = [song |-> Empty, name |-> [k \in Kind |-> Empty], playlist |-> Empty, entry |-> {}]
    /\ disk = db
    /\ opener = NoThread
    /\ at = [t \in Threads |-> "idle"]
    /\ job = [t \in Threads |-> NoJob]
    /\ answer = [t \in Threads |-> "none"]
    /\ fate = [t \in Threads |-> {}]
    /\ interfered = [t \in Threads |-> FALSE]
    /\ files = Paths
    /\ events = 0
-------------------------------------------------------------------------------
(* What statements do to a database d. *)

\* Is id the one SQLite gives the next row of a table (one above the largest)?
IsNext(id, table) ==
    /\ \A i \in DOMAIN table : i < id
    /\ id = 1 \/ id - 1 \in DOMAIN table

Holds(table, key) == \E i \in DOMAIN table : table[i] = key

With(table, id, row) ==
    [i \in DOMAIN table \cup {id} |-> IF i \in DOMAIN table THEN table[i] ELSE row]

Without(table, S) == [i \in DOMAIN table \ S |-> table[i]]

NameInserted(d, kind, key, id) ==
    IF Holds(d.name[kind], key) THEN d ELSE [d EXCEPT !.name[kind] = With(@, id, key)]

PlaylistInserted(d, name, id) ==
    IF Holds(d.playlist, name) THEN d ELSE [d EXCEPT !.playlist = With(@, id, name)]

SongInserted(d, row, id) ==
    IF \E i \in DOMAIN d.song : d.song[i].path = row.path
    THEN d ELSE [d EXCEPT !.song = With(@, id, row)]

SongDeleted(d, id) == [d EXCEPT !.song = Without(@, {id})]

\* Mistake in Cleaned: the WHERE clause is lost.
CleanedAll(d, kind) == [d EXCEPT !.name[kind] = Empty]

\* Delete the artists (albums, genres) that no song has.
Cleaned(d, kind) ==
    LET used == {d.song[i].ids[kind] : i \in DOMAIN d.song}
    IN  [d EXCEPT !.name[kind] = Without(@, DOMAIN @ \ used)]

Flagged(d, S, lost) ==
    [d EXCEPT !.song = [i \in DOMAIN d.song |->
                          IF i \in S THEN [d.song[i] EXCEPT !.lost = lost] ELSE d.song[i]]]

EntriesAdded(d, p, S) == [d EXCEPT !.entry = @ \cup (S \X {p})]
EntriesRemoved(d, p, S) == [d EXCEPT !.entry = @ \ (S \X {p})]

Renamed(d, p, name) ==
    IF p \in DOMAIN d.playlist /\ ~Holds(d.playlist, name)
    THEN [d EXCEPT !.playlist[p] = name] ELSE d

PlaylistDeleted(d, p) == [d EXCEPT !.playlist = Without(@, {p})]

\* The statements of transactions, and the single ones that name their rows.
Result(d, s) ==
    CASE s.do = "delete"  -> SongDeleted(d, s.id)
      [] s.do = "clean"   -> Cleaned(d, s.kind)
      [] s.do = "flag"    -> Flagged(d, s.ids, s.lost)
      [] s.do = "add"     -> EntriesAdded(d, s.playlist, s.ids)
      [] s.do = "remove"  -> EntriesRemoved(d, s.playlist, s.ids)
      [] s.do = "rename"  -> Renamed(d, s.playlist, s.name)
      [] OTHER            -> PlaylistDeleted(d, s.playlist)  \* "drop"
-------------------------------------------------------------------------------
(* The connection. *)

\* Thread t runs a statement that makes the database d.
Write(t, d) ==
    /\ db' = d
    /\ disk' = IF opener = NoThread THEN d ELSE disk
    /\ fate' = [fate EXCEPT ![t] = @ \cup {IF opener = NoThread THEN "stored" ELSE "pending"}]
    /\ interfered' = [interfered EXCEPT ![t] = @ \/ opener \notin {NoThread, t}]
    /\ UNCHANGED opener

Fail == UNCHANGED <<connection, history>>

\* Thread t ends the open transaction, whoever began it; d is what is kept.
End(t, d, how) ==
    LET touched == {u \in Threads : u = opener \/ "pending" \in fate[u]}
    IN  /\ db' = d
        /\ disk' = d
        /\ opener' = NoThread
        /\ fate' = [u \in Threads |->
                     IF "pending" \in fate[u] THEN (fate[u] \ {"pending"}) \cup {how} ELSE fate[u]]
        /\ interfered' = [u \in Threads |-> interfered[u] \/ (t # opener /\ u \in touched)]

Goto(t, place) == at' = [at EXCEPT ![t] = place] /\ UNCHANGED <<job, answer>>

Return(t, value) ==
    /\ at' = [at EXCEPT ![t] = "idle"]
    /\ job' = [job EXCEPT ![t] = NoJob]
    /\ answer' = [answer EXCEPT ![t] = value]

Count == events < MaxEvents /\ events' = events + 1

Start(t, place, j) ==
    /\ Count
    /\ at[t] = "idle"
    /\ at' = [at EXCEPT ![t] = place]
    /\ job' = [job EXCEPT ![t] = j]
    /\ answer' = [answer EXCEPT ![t] = "none"]
    /\ fate' = [fate EXCEPT ![t] = {}]
    /\ interfered' = [interfered EXCEPT ![t] = FALSE]
    /\ UNCHANGED <<connection, files>>

\* An operation that ends at its first query.
StartAndReturn(t, value) ==
    /\ Count
    /\ at[t] = "idle"
    /\ answer' = [answer EXCEPT ![t] = value]
    /\ fate' = [fate EXCEPT ![t] = {}]
    /\ interfered' = [interfered EXCEPT ![t] = FALSE]
    /\ UNCHANGED <<connection, at, job, files>>
-------------------------------------------------------------------------------
(* Adding a song: statements of their own, whose failures are ignored. *)

\* The names to enter before the song: an album only with an artist.
NamesOf(tags) ==
    (IF tags["artist"] = Unnamed THEN <<>>
     ELSE IF tags["album"] = Unnamed THEN <<"artist">> ELSE <<"artist", "album">>)
    \o (IF tags["genre"] = Unnamed THEN <<>> ELSE <<"genre">>)

\* A file whose tags cannot be read is skipped, but the last one is entered
\* without them.
StartAdd(t) ==
    \E p \in Paths, tagged \in BOOLEAN :
        Start(t, "insert", [op |-> "add", path |-> p, ids |-> [k \in Kind |-> Null],
                            todo |-> IF tagged THEN NamesOf(Tags[p]) ELSE <<>>])

InsertName(t) ==
    /\ at[t] = "insert" /\ job[t].todo # <<>>
    /\ LET kind == Head(job[t].todo)
           key == Key(kind, job[t].ids, Tags[job[t].path][kind])
       IN  \/ \E id \in Ids : /\ IsNext(id, db.name[kind])
                              /\ Write(t, NameInserted(db, kind, key, id))
           \/ Fail
    /\ Goto(t, "lookup")
    /\ UNCHANGED <<files, events>>

LookUpName(t) ==
    /\ at[t] = "lookup"
    /\ LET kind == Head(job[t].todo)
           key == Key(kind, job[t].ids, Tags[job[t].path][kind])
           rows == {i \in DOMAIN db.name[kind] : db.name[kind][i] = key}
       IN  \E id \in rows \cup {Null} :
             job' = [job EXCEPT ![t].ids[kind] = id, ![t].todo = Tail(@)]
    /\ at' = [at EXCEPT ![t] = "insert"]
    /\ UNCHANGED <<connection, answer, history, files, events>>

\* The columns of the new row.  History: stale says that a name the thread
\* found is no longer, or is no longer that of the id, when the song is stored.
NewSong(j) ==
    [path |-> j.path, ids |-> j.ids, lost |-> FALSE,
     stale |-> \E k \in Kind : /\ j.ids[k] # Null
                               /\ ~ /\ j.ids[k] \in DOMAIN db.name[k]
                                    /\ db.name[k][j.ids[k]] = Key(k, j.ids, Tags[j.path][k])]

InsertSong(t) ==
    /\ at[t] = "insert" /\ job[t].todo = <<>>
    /\ \/ \E id \in Ids : /\ IsNext(id, db.song)
                          /\ Write(t, SongInserted(db, NewSong(job[t]), id))
       \/ Fail
    /\ Return(t, "ok")
    /\ UNCHANGED <<files, events>>
-------------------------------------------------------------------------------
(* Operations in a transaction: removing songs, checking that the files of *)
(* all songs exist, changing the songs of a playlist.                      *)

StartTransaction(t, name, statements) == Start(t, "begin", [op |-> name, todo |-> statements])

CleanUpAfterRemoval ==
    <<[do |-> "clean", kind |-> "artist"], [do |-> "clean", kind |-> "genre"],
      [do |-> "clean", kind |-> "album"]>>

StartRemove ==
    \E list \in RemoveLists :
        StartTransaction(Ui, "remove", [i \in 1..Len(list) |-> [do |-> "delete", id |-> list[i]]]
                                       \o CleanUpAfterRemoval)

\* An UPDATE of the flag of the songs S, unless there is none.
Flag(S, lost) == IF S = {} THEN <<>> ELSE <<[do |-> "flag", ids |-> S, lost |-> lost]>>

\* The query reads all songs, or some when one of its steps fails, or fails.
\* The files are looked up now; their songs are updated in the transaction
\* that follows.
StartCheck(t) ==
    \/ \E S \in SUBSET DOMAIN db.song :
          LET found   == {i \in S : db.song[i].lost /\ db.song[i].path \in files}
              missing == {i \in S : ~db.song[i].lost /\ db.song[i].path \notin files}
          IN  StartTransaction(t, "check", Flag(found, FALSE) \o Flag(missing, TRUE))
    \/ StartAndReturn(t, "failed")

Entries(do, p, S) == IF S = {} THEN <<>> ELSE <<[do |-> do, playlist |-> p, ids |-> S]>>

StartModifySongs(t) ==
    \E p \in Ids, change \in EntryChanges :
        \/ /\ p \in DOMAIN db.playlist
           /\ StartTransaction(t, "songs", Entries("add", p, change.add)
                                           \o Entries("remove", p, change.remove))
        \/ StartAndReturn(t, "failed")

\* Mistake in BeginTransaction: there is no transaction around the statements.
WorkWithoutBegin(t) ==
    /\ at[t] = "begin"
    /\ Goto(t, "work")
    /\ UNCHANGED <<connection, history, files, events>>

\* Inside a transaction BEGIN is an error: two of the operations then roll
\* back, though the transaction is not theirs; the third returns.
BeginTransaction(t) ==
    /\ at[t] = "begin"
    /\ IF opener = NoThread
       THEN opener' = t /\ Goto(t, "work")
       ELSE /\ UNCHANGED opener
            /\ IF job[t].op = "songs" THEN Return(t, "failed") ELSE Goto(t, "rollback")
    /\ UNCHANGED <<db, disk, history, files, events>>

Work(t) ==
    /\ at[t] = "work" /\ job[t].todo # <<>>
    /\ \/ /\ Head(job[t].todo).do = "delete" => Head(job[t].todo).id # NotANumber
          /\ Write(t, Result(db, Head(job[t].todo)))
          /\ job' = [job EXCEPT ![t].todo = Tail(@)]
          /\ UNCHANGED <<at, answer>>
       \/ Fail /\ Goto(t, "rollback")
    /\ UNCHANGED <<files, events>>

\* Mistake in CommitTransaction: its result is not looked at.
CommitAndAnswerOk(t) ==
    /\ at[t] = "work" /\ job[t].todo = <<>>
    /\ \/ opener # NoThread /\ End(t, db, "stored")
       \/ /\ opener' = IF opener = t THEN Left ELSE opener
          /\ UNCHANGED <<db, disk, history>>
    /\ Return(t, "ok")
    /\ UNCHANGED <<files, events>>

\* A COMMIT that fails is not followed by a rollback in any of the three.
CommitTransaction(t) ==
    /\ at[t] = "work" /\ job[t].todo = <<>>
    /\ \/ opener # NoThread /\ End(t, db, "stored") /\ Return(t, "ok")
       \/ /\ opener' = IF opener = t THEN Left ELSE opener
          /\ UNCHANGED <<db, disk, history>>
          /\ Return(t, "failed")
    /\ UNCHANGED <<files, events>>

\* Mistakes in RollbackTransaction: the transaction stays open; it is closed
\* and its writes are kept.
ForgetRollback(t) ==
    /\ at[t] = "rollback"
    /\ Fail
    /\ Return(t, "failed")
    /\ UNCHANGED <<files, events>>

RollbackKeepsWrites(t) ==
    /\ at[t] = "rollback"
    /\ IF opener # NoThread
       THEN opener' = NoThread /\ UNCHANGED <<db, disk, history>>
       ELSE Fail
    /\ Return(t, "failed")
    /\ UNCHANGED <<files, events>>

RollbackTransaction(t) ==
    /\ at[t] = "rollback"
    /\ IF opener # NoThread THEN End(t, disk, "undone") ELSE Fail
    /\ Return(t, "failed")
    /\ UNCHANGED <<files, events>>

-------------------------------------------------------------------------------
(* Operations of one statement. *)

StartSingle(t, name, statement) == Start(t, "single", [op |-> name, todo |-> <<statement>>])

\* Look the song up, and correct its flag if it is wrong about the file.
StartFlag(t, op) ==
    \E i \in Ids :
        \/ /\ i \in DOMAIN db.song
           /\ LET lost == db.song[i].path \notin files
              IN  IF db.song[i].lost = lost
                  THEN StartAndReturn(t, "ok")
                  ELSE StartSingle(t, op, [do |-> "flag", ids |-> {i}, lost |-> lost])
        \/ StartAndReturn(t, "failed")

RefreshFileAvailability == StartFlag(Ui, "refresh")
GetSongPath(t) == StartFlag(t, "path")

StartRename(t) ==
    \E p \in Ids, name \in PlaylistNames :
        \/ /\ p \in DOMAIN db.playlist
           /\ StartSingle(t, "rename", [do |-> "rename", playlist |-> p, name |-> name])
        \/ StartAndReturn(t, "failed")

StartDrop(t) ==
    \E p \in Ids : StartSingle(t, "drop", [do |-> "drop", playlist |-> p])

\* SetSongNotFound ignores a failure; ModifyPlaylist reads the row back, and
\* fails when another thread has removed it or the query fails.
RunSingle(t) ==
    /\ at[t] = "single"
    /\ \/ /\ Write(t, Result(db, Head(job[t].todo)))
          /\ \/ Return(t, "ok")
             \/ job[t].op = "rename" /\ Return(t, "unread")
       \/ Fail /\ Return(t, IF job[t].op = "path" THEN "ok" ELSE "failed")
    /\ UNCHANGED <<files, events>>

StartAddPlaylist(t) ==
    \E name \in PlaylistNames :
        Start(t, "create", [op |-> "playlist", name |-> name])

AddPlaylist(t) ==
    /\ at[t] = "create"
    /\ \/ \E id \in Ids : /\ IsNext(id, db.playlist)
                          /\ Write(t, PlaylistInserted(db, job[t].name, id))
                          /\ Return(t, "ok")
       \/ Fail /\ Return(t, "failed")
    /\ UNCHANGED <<files, events>>
-------------------------------------------------------------------------------
(* The world around. *)

FilesChange(p) ==
    /\ Count
    /\ files' = IF p \in files THEN files \ {p} ELSE files \cup {p}
    /\ UNCHANGED <<connection, at, job, answer, history>>

\* The process ends, by itself or not, and starts again.
Restart ==
    /\ Count
    /\ db' = disk
    /\ opener' = NoThread
    /\ at' = [t \in Threads |-> "idle"]
    /\ job' = [t \in Threads |-> NoJob]
    /\ fate' = [t \in Threads |->
                 IF "pending" \in fate[t] THEN (fate[t] \ {"pending"}) \cup {"undone"} ELSE fate[t]]
    /\ UNCHANGED <<disk, answer, interfered, files>>

Step(t) ==
    \/ InsertName(t) \/ LookUpName(t) \/ InsertSong(t)
    \/ BeginTransaction(t) \/ Work(t) \/ CommitTransaction(t) \/ RollbackTransaction(t)
    \/ RunSingle(t) \/ AddPlaylist(t)

WorkerStarts(t) ==
    \/ StartAdd(t) \/ StartCheck(t) \/ StartModifySongs(t) \/ GetSongPath(t)
    \/ StartRename(t) \/ StartDrop(t) \/ StartAddPlaylist(t)

Next ==
    \/ \E t \in Threads : Step(t)
    \/ \E t \in Workers : WorkerStarts(t)
    \/ StartRemove
    \/ RefreshFileAvailability
    \/ \E p \in Paths : FilesChange(p)
    \/ Restart

Spec == Init /\ [][Next]_vars
-------------------------------------------------------------------------------
(* Properties. *)

Row == [path: Paths, ids: [Kind -> Ids \cup {Null}], lost: BOOLEAN, stale: BOOLEAN]

Table(S) == UNION {[D -> S] : D \in SUBSET Ids}

Database ==
    [song: Table(Row),
     name: [Kind -> Table((Ids \cup {0, Null}) \X {Tags[p][k] : p \in Paths, k \in Kind})],
     playlist: Table(PlaylistNames),
     entry: SUBSET (Nat \X Ids)]

TypeOK ==
    /\ db \in Database /\ disk \in Database
    /\ opener \in Threads \cup {NoThread, Left}
    /\ opener = NoThread => disk = db
    /\ at \in [Threads -> {"idle", "insert", "lookup", "begin", "work", "rollback",
                           "single", "create"}]
    /\ DOMAIN job = Threads
    /\ answer \in [Threads -> {"none", "ok", "failed", "unread"}]
    /\ fate \in [Threads -> SUBSET {"pending", "stored", "undone"}]
    /\ interfered \in [Threads -> BOOLEAN]
    /\ files \subseteq Paths
    /\ events \in 0..MaxEvents

\* What an operation answered OK for is in the database, also after later
\* failures and restarts, unless another operation's transaction touched it.
AnsweredIsStored ==
    \A t \in Threads : answer[t] = "ok" /\ ~interfered[t] => fate[t] \subseteq {"stored"}

\* Nothing an operation wrote is stored when it answered that it failed,
\* unless another operation's transaction touched it: a removal, a check or a
\* change of a playlist is never half done.
FailedIsNotStored ==
    \A t \in Threads : answer[t] = "failed" /\ ~interfered[t] => "stored" \notin fate[t]

\* An open transaction has its operation at work in it, or that operation's
\* COMMIT has failed: no other way out of one leaves it open.
NoAbandonedTransaction ==
    opener \in Threads => at[opener] \in {"work", "rollback"}

\* The names that the songs of d refer to are there and are those of their
\* files, except for a song entered with a name already gone (stale).
References(d) ==
    \A i \in DOMAIN d.song : ~d.song[i].stale =>
        \A k \in Kind : LET id == d.song[i].ids[k] IN
            id # Null => /\ id \in DOMAIN d.name[k]
                         /\ d.name[k][id] = Key(k, d.song[i].ids, Tags[d.song[i].path][k])

\* Removals and their clean-up, ROLLBACK of whoever, restarts and the reuse of
\* ids never make a song lose or change its artist, album or genre.
SongsKeepTheirNames == References(db) /\ References(disk)

\* The schema declares that the entries of a playlist go with the song and
\* with the playlist (ON DELETE CASCADE).
EntriesCascade ==
    \A e \in db.entry : e[2] \in DOMAIN db.playlist
===============================================================================
