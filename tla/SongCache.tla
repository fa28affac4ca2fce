------------------------------- MODULE SongCache -------------------------------
(***************************************************************************)
(* The song cache of the player module (JukeItApp/SongCache.h, .cpp): the  *)
(* queue the manager sends over the websocket, the songs being downloaded  *)
(* ahead of time from the file server, and NextSong, which blocks.         *)
(*                                                                         *)
(* NextSong is entered by the thread that runs the session's handlers (the *)
(* strand) and by the PortAudio thread (the playback-finished callback is  *)
(* bound to Session::NextAction); UpdateQueue and Reset are called by the  *)
(* strand only.  One pass through NextSong's body is one step; between     *)
(* two passes (the one-second sleep) and during the ping of the file       *)
(* server the other threads run.  Downloads are pplx tasks of their own.   *)
(*                                                                         *)
(* A SongCacheItem is abstracted to the phase its download is in.  Cancel  *)
(* is always followed, in the same pass, by the removal of the item, after *)
(* which nothing reads it: a cancelled item is an absent one.  The branch  *)
(* of NextSong that meets a cancelled item (SongCache.cpp 62-65) is        *)
(* therefore not reachable and has no step here.                           *)
(***************************************************************************)
EXTENDS Integers, Sequences, FiniteSets

CONSTANTS Item,        \* itemIds
          NoItem,      \* "nothing taken yet"
          Queues,      \* the queues a manager may send
          Thread,      \* the threads that may be inside NextSong
          Strand,      \* the one that also runs UpdateQueue and Reset
          Prefetch,    \* how many entries are downloaded ahead: 3 in the code
          CacheLimit   \* above this size the cache is trimmed: 5 in the code

ASSUME ItemAssumption == IsFiniteSet(Item) /\ NoItem \notin Item
ASSUME QueuesAssumption == Queues \subseteq Seq(Item)
ASSUME ThreadAssumption == Strand \in Thread
ASSUME SizesAssumption == /\ Prefetch \in Nat \ {0}
                          /\ CacheLimit \in Nat
                          /\ Prefetch <= CacheLimit

VARIABLES queue,    \* queue_
          cache,    \* cache_: the phase of each item's download, or "absent"
          pc,       \* [Thread -> where in NextSong the thread is]
          taken,    \* [Thread -> the entry songPtr holds and its phase]
          outcome,  \* [Thread -> how the last call of NextSong ended]
          online    \* does the file server answer requests?

vars == <<queue, cache, pc, taken, outcome, online>>

\* "opening" is the gap inside MakeReady: ready_ is set, the stream is not.
Phase == {"loading", "opening", "ready", "failed"}
Outcome == {"none", "song", "failed", "disconnected", "empty"}
Taken == [item : Item \cup {NoItem}, phase : Phase \cup {"absent"}]
NothingTaken == [item |-> NoItem, phase |-> "absent"]

Init ==
    /\ queue = <<>>
    /\ cache = [i \in Item |-> "absent"]
    /\ pc = [t \in Thread |-> "idle"]
    /\ taken = [t \in Thread |-> NothingTaken]
    /\ outcome = [t \in Thread |-> "none"]
    /\ online \in BOOLEAN
-------------------------------------------------------------------------------
(* The helpers of the class. *)

Cached(c) == {i \in Item : c[i] # "absent"}

\* The items on the first n places of queue q.
Ahead(n, q) == {q[k] : k \in {j \in DOMAIN q : j <= n}}

\* AddToCache for every item of S that is not in the cache yet.
AddToCache(c, S) ==
    [i \in Item |-> IF c[i] = "absent" /\ i \in S THEN "loading" ELSE c[i]]

\* Mistakes in Trim: one place too few is kept; a removed entry leaves the map.
TrimOneShort(c, q) ==
    IF Cardinality(Cached(c)) > CacheLimit
    THEN [i \in Item |-> IF i \in Ahead(CacheLimit - 1, q) THEN c[i] ELSE "absent"]
    ELSE c

TrimShrinksMap(c, q) ==
    IF Cardinality(Cached(c)) > CacheLimit
    THEN [i \in Ahead(CacheLimit, q) |-> c[i]]
    ELSE c

\* The second half of UpdateCache: too big a cache keeps only the items on
\* the first CacheLimit places; the others are cancelled and removed.
Trim(c, q) ==
    IF Cardinality(Cached(c)) > CacheLimit
    THEN [i \in Item |-> IF i \in Ahead(CacheLimit, q) THEN c[i] ELSE "absent"]
    ELSE c

\* Mistakes in UpdateCache: one entry too few is added; the order is swapped.
UpdateCacheOneShort(c, q) == Trim(AddToCache(c, Ahead(Prefetch - 1, q)), q)
UpdateCacheTrimsFirst(c, q) == AddToCache(Trim(c, q), Ahead(Prefetch, q))

UpdateCache(c, q) == Trim(AddToCache(c, Ahead(Prefetch, q)), q)
-------------------------------------------------------------------------------
(* The operations the strand calls. *)

\* A mistake in UpdateQueue: the new entries are added to the old ones.
UpdateQueueAppends(q) ==
    /\ pc[Strand] = "idle"
    /\ queue' = queue \o q
    /\ cache' = UpdateCache(cache, queue \o q)
    /\ UNCHANGED <<pc, taken, outcome, online>>

UpdateQueue(q) ==
    /\ pc[Strand] = "idle"
    /\ queue' = q
    /\ cache' = UpdateCache(cache, q)
    /\ UNCHANGED <<pc, taken, outcome, online>>

Reset ==
    /\ pc[Strand] = "idle"
    /\ queue' = <<>>
    /\ cache' = [i \in Item |-> "absent"]
    /\ UNCHANGED <<pc, taken, outcome, online>>
-------------------------------------------------------------------------------
(* NextSong. *)

Call(t) ==
    /\ pc[t] = "idle"
    /\ pc' = [pc EXCEPT ![t] = "pass"]
    /\ taken' = [taken EXCEPT ![t] = NothingTaken]
    /\ outcome' = [outcome EXCEPT ![t] = "none"]
    /\ UNCHANGED <<queue, cache, online>>

\* The queue is empty: EmptyQueueException.
PassEmpty(t) ==
    /\ queue = <<>>
    /\ pc' = [pc EXCEPT ![t] = "idle"]
    /\ outcome' = [outcome EXCEPT ![t] = "empty"]
    /\ UNCHANGED <<queue, cache, taken>>

\* The head is not in the cache: it is put there and the body starts again.
PassMissing(t) ==
    /\ queue # <<>>
    /\ cache[Head(queue)] = "absent"
    /\ cache' = AddToCache(cache, {Head(queue)})
    /\ UNCHANGED <<queue, pc, taken, outcome>>

\* The head is in the cache: it leaves the cache and the queue, the cache is
\* refilled, and the phase of its download decides what happens next.
PassTake(t) ==
    /\ queue # <<>>
    /\ LET head == Head(queue)
           phase == cache[head]
       IN  /\ phase # "absent"
           /\ queue' = Tail(queue)
           /\ cache' = UpdateCache([cache EXCEPT ![head] = "absent"], Tail(queue))
           /\ taken' = [taken EXCEPT ![t] = [item |-> head, phase |-> phase]]
           /\ \/ /\ phase \in {"opening", "ready"}
                 /\ pc' = [pc EXCEPT ![t] = "idle"]
                 /\ outcome' = [outcome EXCEPT ![t] = "song"]
              \/ /\ phase = "failed"
                 /\ pc' = [pc EXCEPT ![t] = "ping"]
                 /\ UNCHANGED outcome
              \/ /\ phase = "loading"
                 /\ pc' = [pc EXCEPT ![t] = "sleep"]
                 /\ UNCHANGED outcome

Pass(t) ==
    /\ pc[t] = "pass"
    /\ PassEmpty(t) \/ PassMissing(t) \/ PassTake(t)
    /\ UNCHANGED online

\* A mistake in Wake: the sleep goes on until the song is buffered.
WakeWhenBuffered(t) ==
    /\ pc[t] = "sleep"
    /\ taken[t].phase # "loading"
    /\ pc' = [pc EXCEPT ![t] = "pass"]
    /\ UNCHANGED <<queue, cache, taken, outcome, online>>

\* The second is over; NextSong calls itself.
Wake(t) ==
    /\ pc[t] = "sleep"
    /\ pc' = [pc EXCEPT ![t] = "pass"]
    /\ UNCHANGED <<queue, cache, taken, outcome, online>>

\* TestConnection tells a song that failed from a file server that is gone.
PingDone(t) ==
    /\ pc[t] = "ping"
    /\ pc' = [pc EXCEPT ![t] = "idle"]
    /\ outcome' = [outcome EXCEPT ![t] = IF online THEN "failed" ELSE "disconnected"]
    /\ UNCHANGED <<queue, cache, taken, online>>
-------------------------------------------------------------------------------
(* Download tasks: the continuation of GetSongAsync. *)

\* A mistake in Steps: an error after MakeReady marks the song as failed.
StepsFailLate(p) ==
    CASE p = "loading" -> {"opening", "failed"}
      [] p = "opening" -> {"ready", "failed"}
      [] OTHER -> {}

\* What one step of a download task makes of the phase p.
Steps(p) ==
    CASE p = "loading" -> {"opening", "failed"}
      [] p = "opening" -> {"ready"}
      [] OTHER -> {}

\* A download of a song in the cache moves on.
DownloadCached(i) ==
    /\ \E p \in Steps(cache[i]) : cache' = [cache EXCEPT ![i] = p]
    /\ UNCHANGED <<queue, pc, taken, outcome, online>>

\* The task shares the item with the songPtr of a thread, and goes on after
\* the item has left the cache.
DownloadTaken(t) ==
    /\ \E p \in Steps(taken[t].phase) : taken' = [taken EXCEPT ![t].phase = p]
    /\ UNCHANGED <<queue, cache, pc, outcome, online>>

ServerToggles ==
    /\ online' = ~online
    /\ UNCHANGED <<queue, cache, pc, taken, outcome>>
-------------------------------------------------------------------------------
Next ==
    \/ \E q \in Queues : UpdateQueue(q)
    \/ Reset
    \/ \E t \in Thread : Call(t) \/ Pass(t) \/ Wake(t) \/ PingDone(t) \/ DownloadTaken(t)
    \/ \E i \in Item : DownloadCached(i)
    \/ ServerToggles

Spec == Init /\ [][Next]_vars
-------------------------------------------------------------------------------
TypeOK ==
    /\ queue \in Seq(Item)
    /\ cache \in [Item -> Phase \cup {"absent"}]
    /\ pc \in [Thread -> {"idle", "pass", "sleep", "ping"}]
    /\ taken \in [Thread -> Taken]
    /\ outcome \in [Thread -> Outcome]
    /\ online \in BOOLEAN

\* Between two steps the first Prefetch entries of the queue are in the cache,
\* whatever was queued, taken or trimmed before: "this should not happen"
\* (SongCache.cpp 82) is right, NextSong never misses its head.
HeadsCached == Ahead(Prefetch, queue) \subseteq Cached(cache)

\* The cache never keeps more than CacheLimit songs in memory, although every
\* operation first adds up to Prefetch songs and trims only afterwards, and
\* although songs of replaced queues stay until the cache is too big.
CacheBounded == Cardinality(Cached(cache)) <= CacheLimit

\* NextSong answers with a song only when its download has succeeded, and
\* blames a song or the file server only for a download that has failed; the
\* download task may go on after the answer but never takes it back.
AnswerMatchesDownload ==
    \A t \in Thread :
        /\ outcome[t] = "song" => taken[t].phase \in {"opening", "ready"}
        /\ outcome[t] \in {"failed", "disconnected"} => taken[t].phase = "failed"

\* A song that is among the first CacheLimit entries of the new queue keeps
\* its download: no step cancels it or starts it again, except that NextSong
\* takes the head out.
DownloadsKept ==
    [][\A i \in Ahead(CacheLimit, queue') :
          \/ cache[i] = "absent"
          \/ cache'[i] \in {cache[i]} \cup Steps(cache[i])
          \/ queue # <<>> /\ i = Head(queue) /\ queue' = Tail(queue)]_vars

\* The detailed cache keeps what SongSource promises the player.
Source == INSTANCE SongSource
          WITH calling <- [t \in Thread |-> pc[t] # "idle"],
               taken <- [t \in Thread |-> taken[t].item]
ImplementsSource == Source!Spec

\* A thread that is inside NextSong runs on, its sleep ends and the ping is
\* answered or fails.  Nothing is assumed of downloads: they may hang.
FairSpec ==
    /\ Spec
    /\ \A t \in Thread : WF_vars(Pass(t)) /\ WF_vars(Wake(t)) /\ WF_vars(PingDone(t))

\* NextSong returns to the strand, even when no download ever ends and whatever
\* the audio thread takes meanwhile: the session, which handles nothing until
\* then, is not lost.  (The audio thread's call may go on as long as the strand
\* fills the queue.)
CallsReturn == pc[Strand] # "idle" ~> pc[Strand] = "idle"

\* What the comment at SongCache.cpp 76 says of a head that is still being
\* downloaded: "we must wait for it to get buffered".
WaitsForBuffering ==
    [][\A t \in Thread :
          pc[t] = "sleep" /\ pc'[t] # "sleep" => taken[t].phase # "loading"]_vars
===============================================================================
