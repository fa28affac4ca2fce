---------------------------- MODULE LibraryDbProofs ----------------------------
(***************************************************************************)
(* Proofs about LibraryDb, for any threads, files, tags and requests.      *)
(* First: what an operation answered is what became of its writes, as long *)
(* as no other operation's transaction touched them.  Then: songs keep     *)
(* their artist, album and genre.  Last: the types.                        *)
(***************************************************************************)
EXTENDS LibraryDb, SequenceTheorems, TLAPS

Fates == {"pending", "stored", "undone"}

Places == {"idle", "insert", "lookup", "begin", "work", "rollback", "single", "create"}

Shape ==
    /\ at \in [Threads -> Places]
    /\ answer \in [Threads -> {"none", "ok", "failed", "unread"}]
    /\ fate \in [Threads -> SUBSET Fates]
    /\ interfered \in [Threads -> BOOLEAN]
    /\ opener \in Threads \cup {NoThread, Left}

\* An operation at work has not answered; only an operation in its own
\* transaction, or one whose COMMIT failed, has writes that are not decided.
Course(t) ==
    /\ at[t] # "idle" => answer[t] = "none"
    /\ opener = t => at[t] \in {"work", "rollback"}
    /\ at[t] \in {"begin", "single", "create"} => fate[t] = {}
    /\ ~interfered[t] =>
         /\ at[t] \in {"insert", "lookup"} => fate[t] \subseteq {"stored"}
         /\ at[t] = "work" => opener = t
         /\ at[t] \in {"work", "rollback"} => fate[t] \subseteq {"pending"}
         /\ "pending" \in fate[t] => opener = t \/ (opener = Left /\ answer[t] = "failed")
         /\ answer[t] = "ok" => fate[t] \subseteq {"stored"}
         /\ answer[t] = "failed" => "stored" \notin fate[t]

Outcome == Shape /\ \A t \in Threads : Course(t)

LEMMA Openers == NoThread \notin Threads /\ Left \notin Threads /\ NoThread # Left
  BY ThreadsAssumption DEF NoThread, Left

LEMMA OutcomeInit == Init => Outcome
  BY Openers DEF Init, Outcome, Shape, Course, Fates, Places

\* Starting an operation.
LEMMA StartKeeps ==
    ASSUME Outcome, NEW t \in Threads, NEW j,
           NEW place \in {"insert", "begin", "single", "create"}, Start(t, place, j)
    PROVE  Outcome'
<1>1. Shape'
  BY DEF Outcome, Shape, Start, connection, Places, Fates
<1>2. ASSUME NEW u \in Threads PROVE Course(u)'
  BY Openers DEF Outcome, Shape, Course, Start, connection
<1> QED BY <1>1, <1>2 DEF Outcome

\* Answering from the first query.
LEMMA StartAndReturnKeeps ==
    ASSUME Outcome, NEW t \in Threads, NEW v \in {"ok", "failed"}, StartAndReturn(t, v)
    PROVE  Outcome'
<1>1. Shape'
  BY DEF Outcome, Shape, StartAndReturn, connection, Fates
<1>2. ASSUME NEW u \in Threads PROVE Course(u)'
  BY Openers DEF Outcome, Shape, Course, StartAndReturn, connection
<1> QED BY <1>1, <1>2 DEF Outcome

LEMMA StartsKeep ==
    ASSUME Outcome, NEW t \in Threads,
           WorkerStarts(t) \/ StartRemove \/ RefreshFileAvailability
    PROVE  Outcome'
<1>0. Ui \in Threads
  BY DEF Threads
<1>1. CASE StartAdd(t)
  BY <1>1, StartKeeps DEF StartAdd
<1>2. CASE StartCheck(t)
  BY <1>2, StartKeeps, StartAndReturnKeeps DEF StartCheck, StartTransaction
<1>3. CASE StartModifySongs(t)
  BY <1>3, StartKeeps, StartAndReturnKeeps DEF StartModifySongs, StartTransaction
<1>4. ASSUME NEW u \in Threads, NEW op, StartFlag(u, op) PROVE Outcome'
  BY <1>4, StartKeeps, StartAndReturnKeeps DEF StartFlag, StartSingle
<1>5. CASE StartRename(t)
  BY <1>5, StartKeeps, StartAndReturnKeeps DEF StartRename, StartSingle
<1>6. CASE StartDrop(t)
  BY <1>6, StartKeeps DEF StartDrop, StartSingle
<1>7. CASE StartAddPlaylist(t)
  BY <1>7, StartKeeps DEF StartAddPlaylist
<1>8. CASE StartRemove
  BY <1>0, <1>8, StartKeeps DEF StartRemove, StartTransaction
<1> QED
  BY <1>0, <1>1, <1>2, <1>3, <1>4, <1>5, <1>6, <1>7, <1>8
  DEF WorkerStarts, GetSongPath, RefreshFileAvailability

\* What a write does to the history of the thread that makes it, and of others.
LEMMA WriteEffect ==
    ASSUME Shape, NEW t \in Threads, NEW d, Write(t, d)
    PROVE  /\ opener' = opener
           /\ fate' \in [Threads -> SUBSET Fates]
           /\ interfered' \in [Threads -> BOOLEAN]
           /\ \A u \in Threads \ {t} : fate'[u] = fate[u] /\ interfered'[u] = interfered[u]
           /\ ~interfered'[t] => /\ ~interfered[t]
                                 /\ \/ opener = NoThread /\ fate'[t] = fate[t] \cup {"stored"}
                                    \/ opener = t /\ fate'[t] = fate[t] \cup {"pending"}
  BY Openers DEF Shape, Write, Fates

\* A step outside transactions that writes, or fails to, and goes on or returns.
LEMMA SingleWriteKeeps ==
    ASSUME Outcome, NEW t \in Threads, at[t] \in {"insert", "single", "create"},
           NEW place \in {"idle", "lookup"}, NEW v \in {"none", "ok", "failed", "unread"},
           at' = [at EXCEPT ![t] = place],
           answer' = [answer EXCEPT ![t] = v],
           place = "lookup" => v = "none" /\ at[t] = "insert",
           v = "failed" => at[t] # "insert",
           \/ Fail
           \/ v # "failed" /\ \E d : Write(t, d)
    PROVE  Outcome'
<1>1. CASE Fail
  <2>1. UNCHANGED <<opener, fate, interfered>>
    BY <1>1 DEF Fail, connection, history
  <2>2. Shape'
    BY <2>1 DEF Outcome, Shape, Places
  <2>3. ASSUME NEW u \in Threads PROVE Course(u)'
    BY <2>1 DEF Outcome, Shape, Course
  <2> QED BY <2>2, <2>3 DEF Outcome
<1>2. CASE v # "failed" /\ \E d : Write(t, d)
  <2>0. PICK d : Write(t, d)
    BY <1>2
  <2>1. Shape'
    BY <2>0, WriteEffect DEF Outcome, Shape, Places
  <2>2. Course(t)'
    BY <1>2, <2>0, WriteEffect, Openers DEF Outcome, Shape, Course
  <2>3. ASSUME NEW u \in Threads \ {t} PROVE Course(u)'
    BY <2>0, <2>3, WriteEffect DEF Outcome, Shape, Course
  <2> QED BY <2>1, <2>2, <2>3 DEF Outcome
<1> QED BY <1>1, <1>2

LEMMA SingleStepsKeep ==
    ASSUME Outcome, NEW t \in Threads,
           \/ InsertName(t) \/ LookUpName(t) \/ InsertSong(t) \/ RunSingle(t) \/ AddPlaylist(t)
    PROVE  Outcome'
<1>1. CASE InsertName(t)
  <2>1. at[t] = "insert" /\ at' = [at EXCEPT ![t] = "lookup"] /\ answer' = answer
    BY <1>1 DEF InsertName, Goto
  <2>2. answer' = [answer EXCEPT ![t] = "none"]
    BY <2>1 DEF Outcome, Shape, Course
  <2>3. Fail \/ \E d : Write(t, d)
    BY <1>1 DEF InsertName
  <2> QED BY <2>1, <2>2, <2>3, SingleWriteKeeps
<1>2. CASE LookUpName(t)
  <2>1. at[t] = "lookup" /\ at' = [at EXCEPT ![t] = "insert"]
        /\ UNCHANGED <<opener, answer, fate, interfered>>
    BY <1>2 DEF LookUpName, connection, history
  <2> QED BY <2>1 DEF Outcome, Shape, Course, Places
<1>3. CASE InsertSong(t)
  <2>1. at[t] = "insert" /\ Return(t, "ok") /\ (Fail \/ \E d : Write(t, d))
    BY <1>3 DEF InsertSong
  <2> QED BY <2>1, SingleWriteKeeps DEF Return
<1>4. CASE RunSingle(t)
  <2>1. PICK v \in {"ok", "failed", "unread"} :
          at[t] = "single" /\ Return(t, v) /\ (Fail \/ (v # "failed" /\ \E d : Write(t, d)))
    BY <1>4 DEF RunSingle
  <2> QED BY <2>1, SingleWriteKeeps DEF Return
<1>5. CASE AddPlaylist(t)
  <2>1. PICK v \in {"ok", "failed"} :
          at[t] = "create" /\ Return(t, v) /\ (Fail \/ (v # "failed" /\ \E d : Write(t, d)))
    BY <1>5 DEF AddPlaylist
  <2> QED BY <2>1, SingleWriteKeeps DEF Return
<1> QED BY <1>1, <1>2, <1>3, <1>4, <1>5

\* What the end of a transaction does to the history.
LEMMA EndEffect ==
    ASSUME Shape, NEW t \in Threads, NEW d, NEW how \in {"stored", "undone"}, End(t, d, how)
    PROVE  /\ opener' = NoThread
           /\ fate' \in [Threads -> SUBSET Fates]
           /\ interfered' \in [Threads -> BOOLEAN]
           /\ \A u \in Threads :
                /\ "pending" \notin fate'[u]
                /\ "pending" \notin fate[u] => fate'[u] = fate[u]
                /\ "pending" \in fate[u] => fate'[u] = (fate[u] \ {"pending"}) \cup {how}
                /\ ~interfered'[u] => /\ ~interfered[u]
                                      /\ opener = t \/ (u # opener /\ "pending" \notin fate[u])
  BY DEF Shape, End, Fates

LEMMA TransactionStepsKeep ==
    ASSUME Outcome, NEW t \in Threads,
           \/ BeginTransaction(t) \/ Work(t) \/ CommitTransaction(t) \/ RollbackTransaction(t)
    PROVE  Outcome'
<1>1. CASE BeginTransaction(t)
  <2>1. at[t] = "begin" /\ UNCHANGED <<fate, interfered>>
    BY <1>1 DEF BeginTransaction, history
  <2>2. CASE opener = NoThread
    <3>1. opener' = t /\ at' = [at EXCEPT ![t] = "work"] /\ answer' = answer
      BY <1>1, <2>2 DEF BeginTransaction, Goto
    <3>2. Shape'
      BY <2>1, <3>1 DEF Outcome, Shape, Places
    <3>3. ASSUME NEW u \in Threads PROVE Course(u)'
      BY <2>1, <2>2, <3>1, Openers DEF Outcome, Shape, Course
    <3> QED BY <3>2, <3>3 DEF Outcome
  <2>3. CASE opener # NoThread
    <3>1. /\ opener' = opener
          /\ \/ at' = [at EXCEPT ![t] = "idle"] /\ answer' = [answer EXCEPT ![t] = "failed"]
             \/ at' = [at EXCEPT ![t] = "rollback"] /\ answer' = answer
      BY <1>1, <2>3 DEF BeginTransaction, Goto, Return
    <3>2. Shape'
      BY <2>1, <3>1 DEF Outcome, Shape, Places
    <3>3. ASSUME NEW u \in Threads PROVE Course(u)'
      BY <2>1, <3>1, Openers DEF Outcome, Shape, Course
    <3> QED BY <3>2, <3>3 DEF Outcome
  <2> QED BY <2>2, <2>3
<1>2. CASE Work(t)
  <2>1. at[t] = "work"
    BY <1>2 DEF Work
  <2>2. CASE Fail /\ Goto(t, "rollback")
    <3>1. UNCHANGED <<opener, answer, fate, interfered>> /\ at' = [at EXCEPT ![t] = "rollback"]
      BY <2>2 DEF Fail, connection, history, Goto
    <3> QED BY <2>1, <3>1 DEF Outcome, Shape, Course, Places
  <2>3. CASE UNCHANGED <<at, answer>> /\ \E d : Write(t, d)
    <3>0. PICK d : Write(t, d)
      BY <2>3
    <3>1. Shape'
      BY <2>3, <3>0, WriteEffect DEF Outcome, Shape
    <3>2. Course(t)'
      BY <2>1, <2>3, <3>0, WriteEffect, Openers DEF Outcome, Shape, Course
    <3>3. ASSUME NEW u \in Threads \ {t} PROVE Course(u)'
      BY <2>3, <3>0, <3>3, WriteEffect DEF Outcome, Shape, Course
    <3> QED BY <3>1, <3>2, <3>3 DEF Outcome
  <2> QED BY <1>2, <2>2, <2>3 DEF Work
<1>3. CASE CommitTransaction(t)
  <2>1. at[t] = "work"
    BY <1>3 DEF CommitTransaction
  <2>2. CASE End(t, db, "stored") /\ Return(t, "ok")
    <3>1. Shape'
      BY <2>2, EndEffect DEF Outcome, Shape, Return, Places
    <3>2. ASSUME NEW u \in Threads PROVE Course(u)'
      BY <2>1, <2>2, EndEffect, Openers DEF Outcome, Shape, Course, Return
    <3> QED BY <3>1, <3>2 DEF Outcome
  <2>3. CASE /\ opener' = IF opener = t THEN Left ELSE opener
             /\ UNCHANGED <<fate, interfered>>
             /\ Return(t, "failed")
    <3>1. Shape'
      BY <2>3 DEF Outcome, Shape, Return, Places
    <3>2. ASSUME NEW u \in Threads PROVE Course(u)'
      BY <2>1, <2>3, Openers DEF Outcome, Shape, Course, Return
    <3> QED BY <3>1, <3>2 DEF Outcome
  <2> QED BY <1>3, <2>2, <2>3 DEF CommitTransaction, history
<1>4. CASE RollbackTransaction(t)
  <2>1. at[t] = "rollback" /\ Return(t, "failed")
    BY <1>4 DEF RollbackTransaction
  <2>2. CASE End(t, disk, "undone")
    <3>1. Shape'
      BY <2>1, <2>2, EndEffect DEF Outcome, Shape, Return, Places
    <3>2. ASSUME NEW u \in Threads PROVE Course(u)'
      BY <2>1, <2>2, EndEffect, Openers DEF Outcome, Shape, Course, Return
    <3> QED BY <3>1, <3>2 DEF Outcome
  <2>3. CASE opener = NoThread /\ Fail
    <3>1. UNCHANGED <<opener, fate, interfered>>
      BY <2>3 DEF Fail, connection, history
    <3>2. Shape'
      BY <2>1, <3>1 DEF Outcome, Shape, Return, Places
    <3>3. ASSUME NEW u \in Threads PROVE Course(u)'
      BY <2>1, <2>3, <3>1, Openers DEF Outcome, Shape, Course, Return
    <3> QED BY <3>2, <3>3 DEF Outcome
  <2> QED BY <1>4, <2>2, <2>3 DEF RollbackTransaction
<1> QED BY <1>1, <1>2, <1>3, <1>4

LEMMA RestartKeeps ==
    ASSUME Outcome, Restart
    PROVE  Outcome'
<1>1. Shape'
  BY Openers DEF Outcome, Shape, Restart, Places, Fates
<1>2. ASSUME NEW u \in Threads PROVE Course(u)'
  <2>1. at'[u] = "idle" /\ opener' = NoThread /\ answer'[u] = answer[u]
        /\ interfered'[u] = interfered[u]
    BY DEF Restart
  <2>2. fate'[u] = IF "pending" \in fate[u] THEN (fate[u] \ {"pending"}) \cup {"undone"} ELSE fate[u]
    BY DEF Restart
  <2>3. "pending" \in fate[u] /\ ~interfered[u] => answer[u] # "ok"
    BY DEF Outcome, Course
  <2> QED BY <2>1, <2>2, <2>3, Openers DEF Outcome, Course
<1> QED BY <1>1, <1>2 DEF Outcome

LEMMA OutcomeStep == Outcome /\ [Next]_vars => Outcome'
<1> SUFFICES ASSUME Outcome, [Next]_vars PROVE Outcome'
  OBVIOUS
<1>1. CASE UNCHANGED vars
  BY <1>1 DEF Outcome, Shape, Course, vars, connection, history
<1>2. ASSUME NEW t \in Threads, Step(t) PROVE Outcome'
  BY <1>2, SingleStepsKeep, TransactionStepsKeep DEF Step
<1>3. ASSUME NEW t \in Workers, WorkerStarts(t) PROVE Outcome'
  BY <1>3, StartsKeep DEF Threads
<1>4. CASE StartRemove \/ RefreshFileAvailability
  BY <1>4, StartsKeep DEF Threads
<1>5. ASSUME NEW p \in Paths, FilesChange(p) PROVE Outcome'
  BY <1>5 DEF FilesChange, Outcome, Shape, Course, connection, history
<1>6. CASE Restart
  BY <1>6, RestartKeeps
<1> QED BY <1>1, <1>2, <1>3, <1>4, <1>5, <1>6 DEF Next

THEOREM OutcomeAlways == Spec => []Outcome
<1> QED BY OutcomeInit, OutcomeStep, PTL DEF Spec

\* What an operation answered OK for stays in the database, unless another
\* operation's transaction touched it (AnsweredIsStored).
THEOREM AnsweredStays == Spec => []AnsweredIsStored
<1>1. Outcome => AnsweredIsStored
  BY DEF Outcome, Course, AnsweredIsStored
<1> QED BY OutcomeAlways, <1>1, PTL

\* An operation that answered a failure has stored nothing, unless another
\* operation's transaction touched it (FailedIsNotStored).
THEOREM FailedStoresNothing == Spec => []FailedIsNotStored
<1>1. Outcome => FailedIsNotStored
  BY DEF Outcome, Course, FailedIsNotStored
<1> QED BY OutcomeAlways, <1>1, PTL

\* An open transaction has its operation at work in it, or was left open by a
\* failed COMMIT (NoAbandonedTransaction).
THEOREM TransactionsEnd == Spec => []NoAbandonedTransaction
<1>1. Outcome => NoAbandonedTransaction
  BY DEF Outcome, Course, NoAbandonedTransaction
<1> QED BY OutcomeAlways, <1>1, PTL
-------------------------------------------------------------------------------
(* Songs keep their names. *)

\* The parts of a database that the statements replace one by one.
Frame(d) ==
    /\ DOMAIN d = {"song", "name", "playlist", "entry"}
    /\ DOMAIN d.name = Kind
    /\ \A i \in DOMAIN d.song : DOMAIN d.song[i] = {"path", "ids", "lost", "stale"}

\* All that References says of one row and one table of names.
Resolves(row, k, table) ==
    row.ids[k] # Null => /\ row.ids[k] \in DOMAIN table
                         /\ table[row.ids[k]] = Key(k, row.ids, Tags[row.path][k])

Good(d) ==
    /\ Frame(d)
    /\ \A i \in DOMAIN d.song : ~d.song[i].stale =>
         \A k \in Kind : Resolves(d.song[i], k, d.name[k])

LEMMA GoodRefers == ASSUME NEW d, Good(d) PROVE References(d)
  BY DEF Good, References, Resolves

\* Replacing one part leaves the others.
LEMMA SongReplaced ==
    ASSUME NEW d, Frame(d), NEW f
    PROVE  /\ [d EXCEPT !.song = f].song = f
           /\ [d EXCEPT !.song = f].name = d.name
           /\ DOMAIN [d EXCEPT !.song = f] = DOMAIN d
  BY Zenon DEF Frame

LEMMA NameReplaced ==
    ASSUME NEW d, Frame(d), NEW k, NEW f
    PROVE  /\ [d EXCEPT !.name[k] = f].song = d.song
           /\ [d EXCEPT !.name[k] = f].name = [d.name EXCEPT ![k] = f]
           /\ DOMAIN [d EXCEPT !.name[k] = f] = DOMAIN d
  BY Zenon DEF Frame

LEMMA OtherReplaced ==
    ASSUME NEW d, Good(d), NEW e,
           e.song = d.song, e.name = d.name, DOMAIN e = DOMAIN d
    PROVE  Good(e)
  BY DEF Good, Frame

\* A song with no broken reference may be stored; a stale one may, too.
LEMMA SongInsertedGood ==
    ASSUME NEW d, Good(d), NEW row, NEW id,
           DOMAIN row = {"path", "ids", "lost", "stale"},
           ~row.stale => \A k \in Kind : Resolves(row, k, d.name[k])
    PROVE  Good(SongInserted(d, row, id))
<1> DEFINE f == With(d.song, id, row)
<1>1. CASE SongInserted(d, row, id) = d
  BY <1>1
<1>2. CASE SongInserted(d, row, id) = [d EXCEPT !.song = f]
  <2>1. \A i \in DOMAIN f : f[i] = row \/ (i \in DOMAIN d.song /\ f[i] = d.song[i])
    BY DEF With
  <2> HIDE DEF f
  <2> QED BY <1>2, <2>1, SongReplaced DEF Good, Frame
<1> QED BY <1>1, <1>2 DEF SongInserted

\* A name gets a new id, or is there already.
LEMMA NameInsertedGood ==
    ASSUME NEW d, Good(d), NEW k, NEW key, NEW id
    PROVE  Good(NameInserted(d, k, key, id))
<1> DEFINE f == With(d.name[k], id, key)
<1>1. CASE NameInserted(d, k, key, id) = d
  BY <1>1
<1>2. CASE NameInserted(d, k, key, id) = [d EXCEPT !.name[k] = f]
  <2>1. \A i \in DOMAIN d.name[k] : i \in DOMAIN f /\ f[i] = d.name[k][i]
    BY DEF With
  <2> HIDE DEF f
  <2>2. \A row : \A j \in Kind :
          Resolves(row, j, d.name[j]) => Resolves(row, j, [d.name EXCEPT ![k] = f][j])
    BY <2>1 DEF Resolves, Good, Frame
  <2>3. Frame([d EXCEPT !.name[k] = f])
    BY NameReplaced DEF Good, Frame
  <2> QED BY <1>2, <2>2, <2>3, NameReplaced DEF Good
<1> QED BY <1>1, <1>2 DEF NameInserted

\* The clean-up deletes no name that a song has.
LEMMA CleanedGood ==
    ASSUME NEW d, Good(d), NEW k
    PROVE  Good(Cleaned(d, k))
<1> DEFINE used == {d.song[i].ids[k] : i \in DOMAIN d.song}
           f == Without(d.name[k], DOMAIN d.name[k] \ used)
<1>1. Cleaned(d, k) = [d EXCEPT !.name[k] = f]
  BY DEF Cleaned
<1>2. \A i \in DOMAIN d.name[k] : i \in used => i \in DOMAIN f /\ f[i] = d.name[k][i]
  BY DEF Without
<1>3. \A i \in DOMAIN d.song : d.song[i].ids[k] \in used
  OBVIOUS
<1> HIDE DEF used, f
<1>4. Frame([d EXCEPT !.name[k] = f])
  BY NameReplaced DEF Good, Frame
<1>5. \A i \in DOMAIN d.song, j \in Kind :
        Resolves(d.song[i], j, d.name[j]) => Resolves(d.song[i], j, [d.name EXCEPT ![k] = f][j])
  BY <1>2, <1>3 DEF Resolves, Good, Frame
<1> QED BY <1>1, <1>4, <1>5, NameReplaced DEF Good

LEMMA SongDeletedGood ==
    ASSUME NEW d, Good(d), NEW id
    PROVE  Good(SongDeleted(d, id))
<1>1. \A i \in DOMAIN Without(d.song, {id}) :
        i \in DOMAIN d.song /\ Without(d.song, {id})[i] = d.song[i]
  BY DEF Without
<1> QED BY <1>1, SongReplaced DEF SongDeleted, Good, Frame

\* The flag is not part of what a song refers to.
LEMMA FlaggedGood ==
    ASSUME NEW d, Good(d), NEW S, NEW lost
    PROVE  Good(Flagged(d, S, lost))
<1> DEFINE g(i) == IF i \in S THEN [d.song[i] EXCEPT !.lost = lost] ELSE d.song[i]
           f == [i \in DOMAIN d.song |-> g(i)]
<1>1. Flagged(d, S, lost) = [d EXCEPT !.song = f]
  BY DEF Flagged
<1>2. ASSUME NEW i \in DOMAIN d.song
      PROVE  /\ DOMAIN g(i) = {"path", "ids", "lost", "stale"}
             /\ g(i).path = d.song[i].path
             /\ g(i).ids = d.song[i].ids
             /\ g(i).stale = d.song[i].stale
  <2>1. DOMAIN d.song[i] = {"path", "ids", "lost", "stale"}
    BY DEF Good, Frame
  <2> QED BY <2>1, Zenon
<1>3. DOMAIN f = DOMAIN d.song /\ \A i \in DOMAIN f : f[i] = g(i)
  OBVIOUS
<1> HIDE DEF f, g
<1> QED BY <1>1, <1>2, <1>3, SongReplaced DEF Good, Frame, Resolves

LEMMA ResultGood ==
    ASSUME NEW d, Good(d), NEW s
    PROVE  Good(Result(d, s))
<1> DEFINE E(x) == [d EXCEPT !.entry = x]
           P(x) == [d EXCEPT !.playlist = x]
<1>1. ASSUME NEW x PROVE Good(E(x)) /\ Good(P(x))
  <2>1. E(x).song = d.song /\ E(x).name = d.name /\ DOMAIN E(x) = DOMAIN d
    BY Zenon DEF Good, Frame
  <2>2. P(x).song = d.song /\ P(x).name = d.name /\ DOMAIN P(x) = DOMAIN d
    BY Zenon DEF Good, Frame
  <2> HIDE DEF E, P
  <2> QED BY <2>1, <2>2, OtherReplaced
<1>2. Good(EntriesAdded(d, s.playlist, s.ids)) /\ Good(EntriesRemoved(d, s.playlist, s.ids))
  BY <1>1 DEF EntriesAdded, EntriesRemoved
<1>3. Good(PlaylistDeleted(d, s.playlist))
  BY <1>1 DEF PlaylistDeleted
<1>4. Good(Renamed(d, s.playlist, s.name))
  BY <1>1 DEF Renamed
<1> HIDE DEF E, P
<1> QED BY <1>2, <1>3, <1>4, SongDeletedGood, CleanedGood, FlaggedGood DEF Result

LEMMA DatabasesInit == Init => Good(db) /\ Good(disk)
  BY DEF Init, Good, Frame, Empty

LEMMA WriteGood ==
    ASSUME Good(db), Good(disk), NEW t, NEW d, Write(t, d), Good(d)
    PROVE  Good(db)' /\ Good(disk)'
  BY DEF Write

LEMMA EndGood ==
    ASSUME NEW t, NEW d, NEW how, End(t, d, how), Good(d)
    PROVE  Good(db)' /\ Good(disk)'
  BY DEF End

LEMMA DatabasesStep ==
    ASSUME Good(db), Good(disk), [Next]_vars
    PROVE  Good(db)' /\ Good(disk)'
<1>0. UNCHANGED <<db, disk>> => Good(db)' /\ Good(disk)'
  OBVIOUS
<1>1. Fail => UNCHANGED <<db, disk>>
  BY DEF Fail, connection
<1>2. ASSUME NEW t \in Threads, InsertName(t) PROVE Good(db)' /\ Good(disk)'
  <2>1. ASSUME NEW k, NEW key, NEW id, Write(t, NameInserted(db, k, key, id))
        PROVE  Good(db)' /\ Good(disk)'
    BY <2>1, NameInsertedGood, WriteGood
  <2> QED BY <1>0, <1>1, <1>2, <2>1 DEF InsertName
<1>3. ASSUME NEW t \in Threads, InsertSong(t) PROVE Good(db)' /\ Good(disk)'
  <2>1. DOMAIN NewSong(job[t]) = {"path", "ids", "lost", "stale"}
    BY DEF NewSong
  <2>2. ~NewSong(job[t]).stale => \A k \in Kind : Resolves(NewSong(job[t]), k, db.name[k])
    BY DEF NewSong, Resolves
  <2>3. ASSUME NEW id, Write(t, SongInserted(db, NewSong(job[t]), id))
        PROVE  Good(db)' /\ Good(disk)'
    BY <2>1, <2>2, <2>3, SongInsertedGood, WriteGood
  <2> QED BY <1>0, <1>1, <1>3, <2>3 DEF InsertSong
<1>4. ASSUME NEW t \in Threads, Work(t) PROVE Good(db)' /\ Good(disk)'
  BY <1>0, <1>1, <1>4, ResultGood, WriteGood DEF Work
<1>5. ASSUME NEW t \in Threads, RunSingle(t) PROVE Good(db)' /\ Good(disk)'
  BY <1>0, <1>1, <1>5, ResultGood, WriteGood DEF RunSingle
<1>6. ASSUME NEW t \in Threads, AddPlaylist(t) PROVE Good(db)' /\ Good(disk)'
  <2>1. ASSUME NEW name, NEW id PROVE Good(PlaylistInserted(db, name, id))
    <3> DEFINE P(x) == [db EXCEPT !.playlist = x]
    <3>1. ASSUME NEW x PROVE P(x).song = db.song /\ P(x).name = db.name /\ DOMAIN P(x) = DOMAIN db
      BY Zenon DEF Good, Frame
    <3>2. PlaylistInserted(db, name, id) = db
          \/ PlaylistInserted(db, name, id) = P(With(db.playlist, id, name))
      BY DEF PlaylistInserted
    <3> HIDE DEF P
    <3> QED BY <3>1, <3>2, OtherReplaced
  <2> QED BY <1>0, <1>1, <1>6, <2>1, WriteGood DEF AddPlaylist
<1>7. ASSUME NEW t \in Threads, CommitTransaction(t) \/ RollbackTransaction(t)
      PROVE  Good(db)' /\ Good(disk)'
  BY <1>0, <1>1, <1>7, EndGood DEF CommitTransaction, RollbackTransaction
<1>8. CASE Restart
  BY <1>8 DEF Restart
<1>9. ASSUME NEW t \in Threads, LookUpName(t) \/ BeginTransaction(t) PROVE UNCHANGED <<db, disk>>
  BY <1>9 DEF LookUpName, BeginTransaction, connection
<1>10. ASSUME NEW t, NEW p, NEW j, Start(t, p, j) PROVE UNCHANGED <<db, disk>>
  BY <1>10 DEF Start, connection
<1>11. ASSUME NEW t, NEW v, StartAndReturn(t, v) PROVE UNCHANGED <<db, disk>>
  BY <1>11 DEF StartAndReturn, connection
<1>12. ASSUME NEW t, WorkerStarts(t) \/ StartRemove \/ RefreshFileAvailability
       PROVE  UNCHANGED <<db, disk>>
  <2>1. ASSUME NEW u, NEW op, StartFlag(u, op) PROVE UNCHANGED <<db, disk>>
    BY <2>1, <1>10, <1>11 DEF StartFlag, StartSingle
  <2>2. StartAdd(t) \/ StartCheck(t) \/ StartModifySongs(t) \/ StartRename(t) \/ StartDrop(t)
          \/ StartAddPlaylist(t) \/ StartRemove => UNCHANGED <<db, disk>>
    BY <1>10, <1>11 DEF StartAdd, StartCheck, StartModifySongs, StartRename, StartDrop,
       StartAddPlaylist, StartRemove, StartTransaction, StartSingle
  <2> QED BY <1>12, <2>1, <2>2 DEF WorkerStarts, GetSongPath, RefreshFileAvailability
<1>13. (\E p \in Paths : FilesChange(p)) \/ UNCHANGED vars => UNCHANGED <<db, disk>>
  BY DEF FilesChange, connection, vars
<1> QED
  BY <1>0, <1>2, <1>3, <1>4, <1>5, <1>6, <1>7, <1>8, <1>9, <1>12, <1>13 DEF Next, Step

\* A song keeps the artist, album and genre it was entered with, whatever is
\* removed, cleaned up, rolled back or entered under a reused id
\* (SongsKeepTheirNames).
THEOREM NamesKept == Spec => []SongsKeepTheirNames
<1>1. Good(db) /\ Good(disk) => SongsKeepTheirNames
  BY GoodRefers DEF SongsKeepTheirNames
<1>2. (Good(db) /\ Good(disk)) /\ [Next]_vars => (Good(db) /\ Good(disk))'
  BY DatabasesStep
<1> QED BY DatabasesInit, <1>1, <1>2, PTL DEF Spec
-------------------------------------------------------------------------------
(***************************************************************************)
(* The types.  What a thread writes has the type of the database because   *)
(* its local variables have theirs, which depends on where it is.          *)
(***************************************************************************)

Names == {Tags[p][k] : p \in Paths, k \in Kind}
NameTable == Table((Ids \cup {0, Null}) \X Names)

Statement ==
    [do : {"delete"}, id : Int]
        \cup [do : {"clean"}, kind : Kind]
        \cup [do : {"flag"}, ids : SUBSET Ids, lost : BOOLEAN]
        \cup [do : {"add", "remove"}, playlist : Ids, ids : SUBSET Nat]
        \cup [do : {"rename"}, playlist : Ids, name : PlaylistNames]
        \cup [do : {"drop"}, playlist : Ids]

SongJob == [op : {"add"}, path : Paths, ids : [Kind -> Ids \cup {Null}], todo : Seq(Kind)]
WorkJob == [op : {"remove", "check", "songs"}, todo : Seq(Statement)]
SingleJob == [op : {"refresh", "path", "rename", "drop"}, todo : Seq(Statement)]
CreateJob == [op : {"playlist"}, name : PlaylistNames]

\* The job j of a thread at a place.
Fits(j, place) ==
    /\ place \in {"insert", "lookup"} => j \in SongJob
    /\ place \in {"begin", "work", "rollback"} => j \in WorkJob
    /\ place = "single" => j \in SingleJob
    /\ place = "create" => j \in CreateJob
    /\ place \in {"lookup", "single"} => j.todo # <<>>

\* The two databases: they differ only while a transaction is open.
Databases ==
    /\ db \in Database /\ disk \in Database
    /\ opener = NoThread => disk = db

Jobs == DOMAIN job = Threads /\ \A t \in Threads : Fits(job[t], at[t])

Outside == files \subseteq Paths /\ events \in 0..MaxEvents

Typed == Databases /\ Jobs /\ Outside

\* A table is a function on some ids.
LEMMA TableOf ==
    ASSUME NEW S, NEW f
    PROVE  f \in Table(S) <=> f \in [DOMAIN f -> S] /\ DOMAIN f \subseteq Ids
  BY DEF Table

\* A row is added, rows are deleted.
LEMMA WithType ==
    ASSUME NEW S, NEW f \in Table(S), NEW id \in Ids, NEW row \in S
    PROVE  With(f, id, row) \in Table(S)
<1>1. f \in [DOMAIN f -> S] /\ DOMAIN f \subseteq Ids
  BY TableOf
<1>2. /\ DOMAIN With(f, id, row) = DOMAIN f \cup {id}
      /\ With(f, id, row) \in [DOMAIN f \cup {id} -> S]
  BY <1>1 DEF With
<1> QED BY <1>1, <1>2, TableOf

LEMMA WithoutType ==
    ASSUME NEW S, NEW f \in Table(S), NEW D
    PROVE  Without(f, D) \in Table(S)
<1>1. f \in [DOMAIN f -> S] /\ DOMAIN f \subseteq Ids
  BY TableOf
<1>2. /\ DOMAIN Without(f, D) = DOMAIN f \ D
      /\ Without(f, D) \in [DOMAIN f \ D -> S]
  BY <1>1 DEF Without
<1> QED BY <1>1, <1>2, TableOf

\* One part of a database is replaced.
LEMMA SongsTyped ==
    ASSUME NEW d \in Database, NEW f \in Table(Row)
    PROVE  [d EXCEPT !.song = f] \in Database
  BY DEF Database

LEMMA NamesTyped ==
    ASSUME NEW d \in Database, NEW k \in Kind, NEW f \in NameTable
    PROVE  [d EXCEPT !.name[k] = f] \in Database
<1>1. Database = [song : Table(Row), name : [Kind -> NameTable],
                  playlist : Table(PlaylistNames), entry : SUBSET (Nat \X Ids)]
  BY DEF Database, NameTable, Names
<1> DEFINE g == [d.name EXCEPT ![k] = f]
<1>2. g \in [Kind -> NameTable]
  BY <1>1
<1>3. [d EXCEPT !.name[k] = f] = [d EXCEPT !.name = g]
  OBVIOUS
<1> HIDE DEF g
<1>4. [d EXCEPT !.name = g] \in Database
  BY <1>1, <1>2
<1> QED BY <1>3, <1>4

LEMMA PlaylistsTyped ==
    ASSUME NEW d \in Database, NEW f \in Table(PlaylistNames)
    PROVE  [d EXCEPT !.playlist = f] \in Database
  BY DEF Database

LEMMA EntriesTyped ==
    ASSUME NEW d \in Database, NEW E \in SUBSET (Nat \X Ids)
    PROVE  [d EXCEPT !.entry = E] \in Database
  BY DEF Database

LEMMA PartsTyped ==
    ASSUME NEW d \in Database
    PROVE  /\ d.song \in Table(Row)
           /\ \A k \in Kind : d.name[k] \in NameTable
           /\ d.playlist \in Table(PlaylistNames)
           /\ d.entry \in SUBSET (Nat \X Ids)
  BY DEF Database, NameTable, Names

\* The inserts.
LEMMA NameInsertedType ==
    ASSUME NEW d \in Database, NEW k \in Kind,
           NEW key \in (Ids \cup {0, Null}) \X Names, NEW id \in Ids
    PROVE  NameInserted(d, k, key, id) \in Database
<1>1. With(d.name[k], id, key) \in NameTable
  BY PartsTyped, WithType DEF NameTable
<1>2. [d EXCEPT !.name[k] = With(d.name[k], id, key)] \in Database
  BY <1>1, NamesTyped
<1> QED BY <1>2 DEF NameInserted

LEMMA SongInsertedType ==
    ASSUME NEW d \in Database, NEW row \in Row, NEW id \in Ids
    PROVE  SongInserted(d, row, id) \in Database
<1>1. With(d.song, id, row) \in Table(Row)
  BY PartsTyped, WithType
<1>2. [d EXCEPT !.song = With(d.song, id, row)] \in Database
  BY <1>1, SongsTyped
<1> QED BY <1>2 DEF SongInserted

LEMMA PlaylistInsertedType ==
    ASSUME NEW d \in Database, NEW name \in PlaylistNames, NEW id \in Ids
    PROVE  PlaylistInserted(d, name, id) \in Database
<1>1. With(d.playlist, id, name) \in Table(PlaylistNames)
  BY PartsTyped, WithType
<1>2. [d EXCEPT !.playlist = With(d.playlist, id, name)] \in Database
  BY <1>1, PlaylistsTyped
<1> QED BY <1>2 DEF PlaylistInserted

\* The statements of the other operations.
LEMMA FlaggedType ==
    ASSUME NEW d \in Database, NEW S, NEW lost \in BOOLEAN
    PROVE  Flagged(d, S, lost) \in Database
<1> DEFINE g(i) == IF i \in S THEN [d.song[i] EXCEPT !.lost = lost] ELSE d.song[i]
           f == [i \in DOMAIN d.song |-> g(i)]
<1>1. d.song \in [DOMAIN d.song -> Row] /\ DOMAIN d.song \subseteq Ids
  BY PartsTyped, TableOf
<1>2. ASSUME NEW i \in DOMAIN d.song PROVE g(i) \in Row
  <2>1. d.song[i] \in Row
    BY <1>1
  <2>2. ASSUME NEW row \in Row PROVE [row EXCEPT !.lost = lost] \in Row
    BY DEF Row
  <2> QED BY <2>1, <2>2
<1> HIDE DEF g
<1>3. f \in [DOMAIN d.song -> Row] /\ DOMAIN f = DOMAIN d.song
  BY <1>2
<1>4. f \in Table(Row)
  BY <1>1, <1>3, TableOf
<1>5. Flagged(d, S, lost) = [d EXCEPT !.song = f]
  BY DEF Flagged, g
<1> HIDE DEF f
<1> QED BY <1>4, <1>5, SongsTyped

LEMMA RenamedType ==
    ASSUME NEW d \in Database, NEW p, NEW name \in PlaylistNames
    PROVE  Renamed(d, p, name) \in Database
<1>1. CASE p \in DOMAIN d.playlist
  <2>1. d.playlist \in [DOMAIN d.playlist -> PlaylistNames] /\ DOMAIN d.playlist \subseteq Ids
    BY PartsTyped, TableOf
  <2> DEFINE f == [d.playlist EXCEPT ![p] = name]
  <2>2. f \in [DOMAIN d.playlist -> PlaylistNames] /\ DOMAIN f = DOMAIN d.playlist
    BY <2>1
  <2>3. f \in Table(PlaylistNames)
    BY <2>1, <2>2, TableOf
  <2>4. [d EXCEPT !.playlist[p] = name] = [d EXCEPT !.playlist = f]
    OBVIOUS
  <2> HIDE DEF f
  <2>5. [d EXCEPT !.playlist[p] = name] \in Database
    BY <2>3, <2>4, PlaylistsTyped
  <2> QED BY <2>5 DEF Renamed
<1>2. CASE p \notin DOMAIN d.playlist
  BY <1>2 DEF Renamed
<1> QED BY <1>1, <1>2

LEMMA ResultType ==
    ASSUME NEW d \in Database, NEW s \in Statement
    PROVE  Result(d, s) \in Database
<1>1. CASE s \in [do : {"delete"}, id : Int]
  <2>1. Result(d, s) = [d EXCEPT !.song = Without(d.song, {s.id})]
    BY <1>1 DEF Result, SongDeleted
  <2> QED BY <2>1, PartsTyped, WithoutType, SongsTyped
<1>2. CASE s \in [do : {"clean"}, kind : Kind]
  <2> DEFINE lost == DOMAIN d.name[s.kind] \ {d.song[i].ids[s.kind] : i \in DOMAIN d.song}
  <2>1. Result(d, s) = [d EXCEPT !.name[s.kind] = Without(d.name[s.kind], lost)] /\ s.kind \in Kind
    BY <1>2 DEF Result, Cleaned
  <2> HIDE DEF lost
  <2>2. Without(d.name[s.kind], lost) \in NameTable
    BY <2>1, PartsTyped, WithoutType DEF NameTable
  <2> QED BY <2>1, <2>2, NamesTyped
<1>3. CASE s \in [do : {"flag"}, ids : SUBSET Ids, lost : BOOLEAN]
  <2>1. Result(d, s) = Flagged(d, s.ids, s.lost) /\ s.lost \in BOOLEAN
    BY <1>3 DEF Result
  <2> QED BY <2>1, FlaggedType
<1>4. CASE s \in [do : {"add", "remove"}, playlist : Ids, ids : SUBSET Nat]
  <2>1. \/ Result(d, s) = [d EXCEPT !.entry = d.entry \cup (s.ids \X {s.playlist})]
        \/ Result(d, s) = [d EXCEPT !.entry = d.entry \ (s.ids \X {s.playlist})]
    BY <1>4 DEF Result, EntriesAdded, EntriesRemoved
  <2>2. /\ d.entry \cup (s.ids \X {s.playlist}) \in SUBSET (Nat \X Ids)
        /\ d.entry \ (s.ids \X {s.playlist}) \in SUBSET (Nat \X Ids)
    BY <1>4, PartsTyped
  <2> QED BY <2>1, <2>2, EntriesTyped
<1>5. CASE s \in [do : {"rename"}, playlist : Ids, name : PlaylistNames]
  <2>1. Result(d, s) = Renamed(d, s.playlist, s.name) /\ s.name \in PlaylistNames
    BY <1>5 DEF Result
  <2> QED BY <2>1, RenamedType
<1>6. CASE s \in [do : {"drop"}, playlist : Ids]
  <2>1. Result(d, s) = [d EXCEPT !.playlist = Without(d.playlist, {s.playlist})]
    BY <1>6 DEF Result, PlaylistDeleted
  <2> QED BY <2>1, PartsTyped, WithoutType, PlaylistsTyped
<1> QED BY <1>1, <1>2, <1>3, <1>4, <1>5, <1>6 DEF Statement

\* The statements an operation sets out to run.
LEMMA StatementTypes ==
    /\ \A id \in Int : [do |-> "delete", id |-> id] \in Statement
    /\ \A k \in Kind : [do |-> "clean", kind |-> k] \in Statement
    /\ \A S \in SUBSET Ids, lost \in BOOLEAN :
         [do |-> "flag", ids |-> S, lost |-> lost] \in Statement
    /\ \A do \in {"add", "remove"}, p \in Ids, S \in SUBSET Nat :
         [do |-> do, playlist |-> p, ids |-> S] \in Statement
    /\ \A p \in Ids, name \in PlaylistNames :
         [do |-> "rename", playlist |-> p, name |-> name] \in Statement
    /\ \A p \in Ids : [do |-> "drop", playlist |-> p] \in Statement
  BY DEF Statement

LEMMA RemovalStatements ==
    ASSUME NEW list \in RemoveLists
    PROVE  [i \in 1..Len(list) |-> [do |-> "delete", id |-> list[i]]] \o CleanUpAfterRemoval
             \in Seq(Statement)
<1> DEFINE deletes == [i \in 1..Len(list) |-> [do |-> "delete", id |-> list[i]]]
<1>1. list \in Seq(Int)
  BY RequestsAssumption
<1>2. Len(list) \in Nat /\ \A i \in 1..Len(list) : list[i] \in Int
  BY <1>1
<1>3. deletes \in [1..Len(list) -> Statement]
  BY <1>2, StatementTypes
<1> HIDE DEF deletes
<1>4. deletes \in Seq(Statement)
  BY <1>2, <1>3
<1>5. CleanUpAfterRemoval \in Seq(Statement)
  <2>1. "artist" \in Kind /\ "genre" \in Kind /\ "album" \in Kind
    BY DEF Kind
  <2>2. ASSUME NEW a \in Statement, NEW b \in Statement, NEW c \in Statement
        PROVE  <<a, b, c>> \in Seq(Statement)
    OBVIOUS
  <2> QED BY <2>1, <2>2, StatementTypes DEF CleanUpAfterRemoval
<1>6. deletes \o CleanUpAfterRemoval \in Seq(Statement)
  BY <1>4, <1>5, ConcatProperties
<1> QED BY <1>6 DEF deletes

LEMMA OneStatement ==
    ASSUME NEW s \in Statement
    PROVE  <<s>> \in Seq(Statement) /\ <<s>> # <<>> /\ <<>> \in Seq(Statement)
  OBVIOUS

LEMMA CheckStatements ==
    ASSUME NEW S \in SUBSET Ids, NEW T \in SUBSET Ids
    PROVE  Flag(S, FALSE) \o Flag(T, TRUE) \in Seq(Statement)
<1>1. ASSUME NEW U \in SUBSET Ids, NEW lost \in BOOLEAN PROVE Flag(U, lost) \in Seq(Statement)
  BY StatementTypes, OneStatement DEF Flag
<1> QED BY <1>1, ConcatProperties

LEMMA ChangeStatements ==
    ASSUME NEW p \in Ids, NEW change \in EntryChanges
    PROVE  Entries("add", p, change.add) \o Entries("remove", p, change.remove)
             \in Seq(Statement)
<1>1. change.add \in SUBSET Nat /\ change.remove \in SUBSET Nat
  BY RequestsAssumption
<1>2. ASSUME NEW do \in {"add", "remove"}, NEW S \in SUBSET Nat
      PROVE  Entries(do, p, S) \in Seq(Statement)
  BY StatementTypes, OneStatement DEF Entries
<1> QED BY <1>1, <1>2, ConcatProperties

LEMMA NamesOfType ==
    ASSUME NEW tags
    PROVE  NamesOf(tags) \in Seq(Kind) /\ <<>> \in Seq(Kind)
<1>1. /\ <<>> \in Seq(Kind) /\ <<"artist">> \in Seq(Kind)
      /\ <<"artist", "album">> \in Seq(Kind) /\ <<"genre">> \in Seq(Kind)
  BY DEF Kind
<1> DEFINE first == IF tags["artist"] = Unnamed THEN <<>>
                    ELSE IF tags["album"] = Unnamed THEN <<"artist">> ELSE <<"artist", "album">>
           second == IF tags["genre"] = Unnamed THEN <<>> ELSE <<"genre">>
<1>2. first \in Seq(Kind) /\ second \in Seq(Kind)
  BY <1>1
<1>3. NamesOf(tags) = first \o second
  BY DEF NamesOf
<1> HIDE DEF first, second
<1> QED BY <1>1, <1>2, <1>3, ConcatProperties
-------------------------------------------------------------------------------
(* What the building blocks of the steps do to the typed state. *)

\* Thread t goes to a place with a job that fits it.
LEMMA JobsMove ==
    ASSUME Shape, Jobs, NEW t \in Threads, NEW place, NEW j, Fits(j, place),
           at' = [at EXCEPT ![t] = place],
           job' = [job EXCEPT ![t] = j]
    PROVE  Jobs'
  BY DEF Shape, Jobs

\* It keeps its job, which fits the place as well.
LEMMA JobsStay ==
    ASSUME Shape, Jobs, NEW t \in Threads, NEW place, Fits(job[t], place), Goto(t, place)
    PROVE  Jobs'
  BY DEF Shape, Jobs, Goto

LEMMA NoJobFits == Fits(NoJob, "idle")
  BY DEF Fits

LEMMA JobsEnd ==
    ASSUME Shape, Jobs, NEW t \in Threads, NEW v, Return(t, v)
    PROVE  Jobs'
  BY JobsMove, NoJobFits DEF Return

LEMMA CountKeeps == ASSUME Outside, Count PROVE events' \in 0..MaxEvents
  BY BoundsAssumption DEF Outside, Count

LEMMA StartTyped ==
    ASSUME Shape, Typed, NEW t \in Threads, NEW place, NEW j, Fits(j, place), Start(t, place, j)
    PROVE  Typed'
<1>1. Jobs'
  BY JobsMove DEF Typed, Start
<1>2. Databases' /\ Outside'
  BY CountKeeps DEF Typed, Start, Databases, Outside, connection
<1> QED BY <1>1, <1>2 DEF Typed

LEMMA StartAndReturnTyped ==
    ASSUME Typed, NEW t, NEW v, StartAndReturn(t, v)
    PROVE  Typed'
  BY CountKeeps DEF Typed, StartAndReturn, Databases, Jobs, Outside, connection

LEMMA FailTyped == ASSUME Databases, Fail PROVE Databases'
  BY DEF Databases, Fail, connection

LEMMA WriteTyped ==
    ASSUME Databases, NEW t, NEW d \in Database, Write(t, d)
    PROVE  Databases'
  BY DEF Databases, Write

LEMMA EndTyped ==
    ASSUME NEW t, NEW d \in Database, NEW how, End(t, d, how)
    PROVE  Databases'
  BY DEF Databases, End
-------------------------------------------------------------------------------
(* Every operation starts with a job that fits. *)

LEMMA TransactionStartTyped ==
    ASSUME Shape, Typed, NEW t \in Threads, NEW name \in {"remove", "check", "songs"},
           NEW todo \in Seq(Statement), StartTransaction(t, name, todo)
    PROVE  Typed'
<1>1. Fits([op |-> name, todo |-> todo], "begin")
  BY DEF Fits, WorkJob
<1> QED BY <1>1, StartTyped DEF StartTransaction

LEMMA SingleStartTyped ==
    ASSUME Shape, Typed, NEW t \in Threads, NEW name \in {"refresh", "path", "rename", "drop"},
           NEW s \in Statement, StartSingle(t, name, s)
    PROVE  Typed'
<1>1. <<s>> \in Seq(Statement) /\ <<s>> # <<>>
  BY OneStatement
<1>2. Fits([op |-> name, todo |-> <<s>>], "single")
  BY <1>1 DEF Fits, SingleJob
<1> QED BY <1>2, StartTyped DEF StartSingle

LEMMA FlagStartTyped ==
    ASSUME Shape, Typed, NEW t \in Threads, NEW op \in {"refresh", "path"}, StartFlag(t, op)
    PROVE  Typed'
<1>1. PICK i \in Ids :
        \/ StartSingle(t, op, [do |-> "flag", ids |-> {i}, lost |-> db.song[i].path \notin files])
        \/ \E v : StartAndReturn(t, v)
  BY DEF StartFlag
<1>2. (db.song[i].path \notin files) \in BOOLEAN
  OBVIOUS
<1>3. {i} \in SUBSET Ids
  OBVIOUS
<1>4. [do |-> "flag", ids |-> {i}, lost |-> db.song[i].path \notin files] \in Statement
  BY <1>2, <1>3, StatementTypes
<1> QED BY <1>1, <1>4, SingleStartTyped, StartAndReturnTyped

LEMMA StartsTyped ==
    ASSUME Shape, Typed, NEW t \in Threads,
           WorkerStarts(t) \/ StartRemove \/ RefreshFileAvailability
    PROVE  Typed'
<1>0. Ui \in Threads
  BY DEF Threads
<1>1. CASE StartAdd(t)
  <2>1. PICK p \in Paths, tagged \in BOOLEAN :
          Start(t, "insert", [op |-> "add", path |-> p, ids |-> [k \in Kind |-> Null],
                              todo |-> IF tagged THEN NamesOf(Tags[p]) ELSE <<>>])
    BY <1>1 DEF StartAdd
  <2> DEFINE todo == IF tagged THEN NamesOf(Tags[p]) ELSE <<>>
  <2>2. todo \in Seq(Kind)
    BY NamesOfType
  <2>3. [k \in Kind |-> Null] \in [Kind -> Ids \cup {Null}]
    OBVIOUS
  <2> HIDE DEF todo
  <2>4. Fits([op |-> "add", path |-> p, ids |-> [k \in Kind |-> Null], todo |-> todo], "insert")
    BY <2>2, <2>3 DEF Fits, SongJob
  <2> QED BY <2>1, <2>4, StartTyped DEF todo
<1>2. CASE StartCheck(t)
  <2>1. CASE StartAndReturn(t, "failed")
    BY <2>1, StartAndReturnTyped
  <2>2. CASE ~StartAndReturn(t, "failed")
    <3>1. PICK S \in SUBSET DOMAIN db.song :
            StartTransaction(t, "check",
              Flag({i \in S : db.song[i].lost /\ db.song[i].path \in files}, FALSE)
                \o Flag({i \in S : ~db.song[i].lost /\ db.song[i].path \notin files}, TRUE))
      BY <1>2, <2>2 DEF StartCheck
    <3>2. S \in SUBSET Ids
      BY PartsTyped, TableOf DEF Typed, Databases
    <3>3. /\ {i \in S : db.song[i].lost /\ db.song[i].path \in files} \in SUBSET Ids
          /\ {i \in S : ~db.song[i].lost /\ db.song[i].path \notin files} \in SUBSET Ids
      BY <3>2
    <3> QED BY <3>1, <3>3, CheckStatements, TransactionStartTyped
  <2> QED BY <2>1, <2>2
<1>3. CASE StartModifySongs(t)
  <2>1. PICK p \in Ids, change \in EntryChanges :
          \/ StartTransaction(t, "songs", Entries("add", p, change.add)
                                          \o Entries("remove", p, change.remove))
          \/ StartAndReturn(t, "failed")
    BY <1>3 DEF StartModifySongs
  <2> QED BY <2>1, ChangeStatements, TransactionStartTyped, StartAndReturnTyped
<1>4. CASE GetSongPath(t)
  BY <1>4, FlagStartTyped DEF GetSongPath
<1>5. CASE StartRename(t)
  <2>1. PICK p \in Ids, name \in PlaylistNames :
          \/ StartSingle(t, "rename", [do |-> "rename", playlist |-> p, name |-> name])
          \/ StartAndReturn(t, "failed")
    BY <1>5 DEF StartRename
  <2> QED BY <2>1, StatementTypes, SingleStartTyped, StartAndReturnTyped
<1>6. CASE StartDrop(t)
  BY <1>6, StatementTypes, SingleStartTyped DEF StartDrop
<1>7. CASE StartAddPlaylist(t)
  <2>1. PICK name \in PlaylistNames : Start(t, "create", [op |-> "playlist", name |-> name])
    BY <1>7 DEF StartAddPlaylist
  <2>2. Fits([op |-> "playlist", name |-> name], "create")
    BY DEF Fits, CreateJob
  <2> QED BY <2>1, <2>2, StartTyped
<1>8. CASE StartRemove
  BY <1>0, <1>8, RemovalStatements, TransactionStartTyped DEF StartRemove
<1>9. CASE RefreshFileAvailability
  BY <1>0, <1>9, FlagStartTyped DEF RefreshFileAvailability
<1> QED
  BY <1>1, <1>2, <1>3, <1>4, <1>5, <1>6, <1>7, <1>8, <1>9 DEF WorkerStarts
-------------------------------------------------------------------------------
(* The steps of adding a song. *)

\* The key of a name the job is looking for.
LEMMA KeyType ==
    ASSUME NEW j \in SongJob, NEW k \in Kind
    PROVE  Key(k, j.ids, Tags[j.path][k]) \in (Ids \cup {0, Null}) \X Names
<1>1. j.ids["artist"] \in Ids \cup {Null} /\ j.path \in Paths
  BY DEF SongJob, Kind
<1>2. Tags[j.path][k] \in Names
  BY <1>1 DEF Names
<1> QED BY <1>1, <1>2 DEF Key

LEMMA NewSongType ==
    ASSUME NEW j \in SongJob
    PROVE  NewSong(j) \in Row
<1> DEFINE stale == \E k \in Kind : /\ j.ids[k] # Null
                                    /\ ~ /\ j.ids[k] \in DOMAIN db.name[k]
                                         /\ db.name[k][j.ids[k]] = Key(k, j.ids, Tags[j.path][k])
<1>1. stale \in BOOLEAN
  OBVIOUS
<1>2. NewSong(j) = [path |-> j.path, ids |-> j.ids, lost |-> FALSE, stale |-> stale]
  BY DEF NewSong
<1> HIDE DEF stale
<1> QED BY <1>1, <1>2 DEF Row, SongJob

\* A name was looked up, found or not.
LEMMA FoundType ==
    ASSUME NEW j \in SongJob, j.todo # <<>>, NEW id \in Ids \cup {Null}
    PROVE  [j EXCEPT !.ids[Head(j.todo)] = id, !.todo = Tail(@)] \in SongJob
<1>1. Head(j.todo) \in Kind /\ Tail(j.todo) \in Seq(Kind)
  BY HeadTailProperties DEF SongJob
<1>2. [j.ids EXCEPT ![Head(j.todo)] = id] \in [Kind -> Ids \cup {Null}]
  BY DEF SongJob
<1> QED BY <1>1, <1>2 DEF SongJob

LEMMA AddStepsTyped ==
    ASSUME Shape, Typed, NEW t \in Threads, InsertName(t) \/ LookUpName(t) \/ InsertSong(t)
    PROVE  Typed'
<1>0. Databases /\ Jobs /\ Outside /\ Fits(job[t], at[t]) /\ db \in Database
  BY DEF Typed, Jobs, Databases
<1>1. CASE InsertName(t)
  <2> DEFINE kind == Head(job[t].todo)
  <2>1. at[t] = "insert" /\ job[t] \in SongJob /\ job[t].todo # <<>>
    BY <1>0, <1>1 DEF InsertName, Fits
  <2>2. kind \in Kind
    BY <2>1, HeadTailProperties DEF SongJob
  <2>3. Jobs'
    <3>1. Fits(job[t], "lookup")
      BY <2>1 DEF Fits
    <3> QED BY <1>0, <1>1, <3>1, JobsStay DEF InsertName
  <2>4. Databases'
    <3>1. ASSUME NEW id \in Ids,
                 Write(t, NameInserted(db, kind, Key(kind, job[t].ids, Tags[job[t].path][kind]), id))
          PROVE  Databases'
      BY <1>0, <2>1, <2>2, <3>1, KeyType, NameInsertedType, WriteTyped
    <3> QED BY <1>0, <1>1, <3>1, FailTyped DEF InsertName
  <2>5. Outside'
    BY <1>0, <1>1 DEF InsertName, Outside
  <2> QED BY <2>3, <2>4, <2>5 DEF Typed
<1>2. CASE LookUpName(t)
  <2> DEFINE kind == Head(job[t].todo)
  <2>1. job[t] \in SongJob /\ job[t].todo # <<>>
    BY <1>0, <1>2 DEF LookUpName, Fits
  <2>2. kind \in Kind
    BY <2>1, HeadTailProperties DEF SongJob
  <2>3. DOMAIN db.name[kind] \subseteq Ids
    BY <1>0, <2>2, PartsTyped, TableOf DEF NameTable
  <2>4. PICK id \in Ids \cup {Null} :
          job' = [job EXCEPT ![t].ids[kind] = id, ![t].todo = Tail(@)]
    BY <1>2, <2>3 DEF LookUpName
  <2>5. job' = [job EXCEPT ![t] = [job[t] EXCEPT !.ids[kind] = id, !.todo = Tail(@)]]
    BY <1>0, <2>4 DEF Jobs
  <2>6. Fits([job[t] EXCEPT !.ids[kind] = id, !.todo = Tail(@)], "insert")
    BY <2>1, FoundType DEF Fits
  <2>7. Jobs'
    BY <1>0, <1>2, <2>5, <2>6, JobsMove DEF LookUpName
  <2> QED BY <1>0, <1>2, <2>7 DEF LookUpName, Typed, Databases, Outside, connection
<1>3. CASE InsertSong(t)
  <2>1. job[t] \in SongJob
    BY <1>0, <1>3 DEF InsertSong, Fits
  <2>2. Jobs'
    BY <1>0, <1>3, JobsEnd DEF InsertSong
  <2>3. Databases'
    <3>1. ASSUME NEW id \in Ids, Write(t, SongInserted(db, NewSong(job[t]), id))
          PROVE  Databases'
      BY <1>0, <2>1, <3>1, NewSongType, SongInsertedType, WriteTyped
    <3> QED BY <1>0, <1>3, <3>1, FailTyped DEF InsertSong
  <2> QED BY <1>0, <1>3, <2>2, <2>3 DEF InsertSong, Typed, Outside
<1> QED BY <1>1, <1>2, <1>3
-------------------------------------------------------------------------------
(* The steps of the other operations. *)

LEMMA TransactionStepsTyped ==
    ASSUME Shape, Typed, NEW t \in Threads,
           \/ BeginTransaction(t) \/ Work(t) \/ CommitTransaction(t) \/ RollbackTransaction(t)
    PROVE  Typed'
<1>0. /\ Databases /\ Jobs /\ Outside /\ Fits(job[t], at[t])
      /\ db \in Database /\ disk \in Database
  BY DEF Typed, Jobs, Databases
<1>1. Outside'
  BY <1>0 DEF Outside, BeginTransaction, Work, CommitTransaction, RollbackTransaction
<1>2. CASE BeginTransaction(t)
  <2>1. job[t] \in WorkJob
    BY <1>0, <1>2 DEF BeginTransaction, Fits
  <2>2. Fits(job[t], "work") /\ Fits(job[t], "rollback")
    BY <2>1 DEF Fits
  <2>3. Jobs'
    BY <1>0, <1>2, <2>2, JobsStay, JobsEnd DEF BeginTransaction
  <2>4. Databases'
    BY <1>0, <1>2, Openers DEF BeginTransaction, Databases
  <2> QED BY <1>1, <2>3, <2>4 DEF Typed
<1>3. CASE Work(t)
  <2> DEFINE s == Head(job[t].todo)
             j == [job[t] EXCEPT !.todo = Tail(@)]
  <2>1. job[t] \in WorkJob /\ job[t].todo # <<>>
    BY <1>0, <1>3 DEF Work, Fits
  <2>2. s \in Statement /\ Tail(job[t].todo) \in Seq(Statement)
    BY <2>1, HeadTailProperties DEF WorkJob
  <2>3. j \in WorkJob
    BY <2>1, <2>2 DEF WorkJob
  <2>4. CASE /\ Write(t, Result(db, s))
             /\ job' = [job EXCEPT ![t].todo = Tail(@)]
             /\ UNCHANGED at
    <3>1. Databases'
      BY <1>0, <2>2, <2>4, ResultType, WriteTyped
    <3>2. job' = [job EXCEPT ![t] = j]
      BY <1>0, <2>4 DEF Jobs
    <3> HIDE DEF j
    <3>3. Fits(j, "work")
      BY <2>3 DEF Fits
    <3>4. at[t] = "work" /\ at' = [at EXCEPT ![t] = "work"]
      BY <1>3, <2>4 DEF Work, Shape
    <3>5. Jobs'
      BY <1>0, <3>2, <3>3, <3>4, JobsMove
    <3> QED BY <1>1, <3>1, <3>5 DEF Typed
  <2>5. CASE Fail /\ Goto(t, "rollback")
    <3>1. Fits(job[t], "rollback")
      BY <2>1 DEF Fits
    <3> QED BY <1>0, <1>1, <2>5, <3>1, JobsStay, FailTyped DEF Typed
  <2> QED BY <1>3, <2>4, <2>5 DEF Work
<1>4. CASE CommitTransaction(t)
  <2>1. Jobs'
    BY <1>0, <1>4, JobsEnd DEF CommitTransaction
  <2>2. CASE End(t, db, "stored")
    BY <1>0, <1>1, <2>1, <2>2, EndTyped DEF Typed
  <2>3. CASE opener' = (IF opener = t THEN Left ELSE opener) /\ UNCHANGED <<db, disk>>
    <3>1. opener' = NoThread => opener = NoThread
      BY <2>3, Openers
    <3> QED BY <1>0, <1>1, <2>1, <2>3, <3>1 DEF Typed, Databases
  <2> QED BY <1>4, <2>2, <2>3 DEF CommitTransaction
<1>5. CASE RollbackTransaction(t)
  <2>1. Jobs'
    BY <1>0, <1>5, JobsEnd DEF RollbackTransaction
  <2>2. Databases'
    BY <1>0, <1>5, EndTyped, FailTyped DEF RollbackTransaction
  <2> QED BY <1>1, <2>1, <2>2 DEF Typed
<1> QED BY <1>2, <1>3, <1>4, <1>5

LEMMA SinglesTyped ==
    ASSUME Shape, Typed, NEW t \in Threads, RunSingle(t) \/ AddPlaylist(t)
    PROVE  Typed'
<1>0. Databases /\ Jobs /\ Outside /\ Fits(job[t], at[t]) /\ db \in Database
  BY DEF Typed, Jobs, Databases
<1>1. Jobs' /\ Outside'
  BY <1>0, JobsEnd DEF RunSingle, AddPlaylist, Outside
<1>2. CASE RunSingle(t)
  <2>1. job[t].todo \in Seq(Statement) /\ job[t].todo # <<>>
    BY <1>0, <1>2 DEF RunSingle, Fits, SingleJob
  <2>2. Head(job[t].todo) \in Statement
    BY <2>1, HeadTailProperties
  <2>3. Databases'
    BY <1>0, <1>2, <2>2, ResultType, WriteTyped, FailTyped DEF RunSingle
  <2> QED BY <1>1, <2>3 DEF Typed
<1>3. CASE AddPlaylist(t)
  <2>1. job[t].name \in PlaylistNames
    BY <1>0, <1>3 DEF AddPlaylist, Fits, CreateJob
  <2>2. Databases'
    BY <1>0, <1>3, <2>1, PlaylistInsertedType, WriteTyped, FailTyped DEF AddPlaylist
  <2> QED BY <1>1, <2>2 DEF Typed
<1> QED BY <1>2, <1>3

LEMMA InitTyped == Init => Typed
<1> SUFFICES ASSUME Init PROVE Typed
  OBVIOUS
<1>1. ASSUME NEW S PROVE Empty \in Table(S)
  <2>1. DOMAIN Empty = {} /\ Empty \in [{} -> S]
    BY EmptySeq DEF Empty
  <2> QED BY <2>1, TableOf
<1>2. db \in Database
  <2>1. [k \in Kind |-> Empty] \in [Kind -> NameTable]
    BY <1>1 DEF NameTable
  <2>2. Empty \in Table(Row) /\ Empty \in Table(PlaylistNames)
    BY <1>1
  <2> QED BY <2>1, <2>2 DEF Init, Database, NameTable, Names
<1>3. Databases
  BY <1>2 DEF Init, Databases
<1>4. Jobs
  BY NoJobFits DEF Init, Jobs
<1>5. Outside
  BY BoundsAssumption DEF Init, Outside
<1> QED BY <1>3, <1>4, <1>5 DEF Typed

LEMMA TypedStep == Shape /\ Typed /\ [Next]_vars => Typed'
<1> SUFFICES ASSUME Shape, Typed, [Next]_vars PROVE Typed'
  OBVIOUS
<1>1. CASE UNCHANGED vars
  BY <1>1 DEF Typed, Databases, Jobs, Outside, vars, connection
<1>2. ASSUME NEW t \in Threads, Step(t) PROVE Typed'
  BY <1>2, AddStepsTyped, TransactionStepsTyped, SinglesTyped DEF Step
<1>3. ASSUME NEW t \in Workers, WorkerStarts(t) PROVE Typed'
  BY <1>3, StartsTyped DEF Threads
<1>4. CASE StartRemove \/ RefreshFileAvailability
  BY <1>4, StartsTyped DEF Threads
<1>5. ASSUME NEW p \in Paths, FilesChange(p) PROVE Typed'
  BY <1>5, CountKeeps DEF FilesChange, Typed, Databases, Jobs, Outside, connection
<1>6. CASE Restart
  <2>1. Jobs'
    BY <1>6, NoJobFits DEF Restart, Jobs
  <2>2. Databases'
    BY <1>6 DEF Restart, Typed, Databases
  <2>3. Outside'
    BY <1>6, CountKeeps DEF Restart, Typed, Outside
  <2> QED BY <2>1, <2>2, <2>3 DEF Typed
<1> QED BY <1>1, <1>2, <1>3, <1>4, <1>5, <1>6 DEF Next

\* The database and the local variables of the operations keep their types,
\* and outside a transaction the disk holds what the connection sees.
THEOREM AlwaysTyped == Spec => []TypeOK
<1>1. Init => Shape /\ Typed
  BY OutcomeInit, InitTyped DEF Outcome
<1>2. Outcome => Shape
  BY DEF Outcome
<1>3. Shape /\ Typed => TypeOK
  BY DEF Shape, Typed, Databases, Jobs, Outside, TypeOK, Places, Fates
<1> QED BY OutcomeAlways, TypedStep, <1>1, <1>2, <1>3, PTL DEF Spec
===============================================================================
