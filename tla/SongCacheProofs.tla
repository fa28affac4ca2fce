---------------------------- MODULE SongCacheProofs ----------------------------
(***************************************************************************)
(* What holds of the song cache for every playlist, every number of        *)
(* threads and every size of the look-ahead and of the cache.              *)
(***************************************************************************)
EXTENDS SongCache, TLAPS, FiniteSetTheorems, SequenceTheorems

Phases == Phase \cup {"absent"}

(***************************************************************************)
(* The helpers.                                                            *)
(***************************************************************************)

\* The items on the first places of a queue are items.
LEMMA AheadType ==
    ASSUME NEW n \in Nat, NEW q \in Seq(Item)
    PROVE  Ahead(n, q) \subseteq Item
  BY DEF Ahead

\* A longer look-ahead sees at least as much.
LEMMA AheadMonotonic ==
    ASSUME NEW m \in Nat, NEW n \in Nat, m <= n, NEW q \in Seq(Item)
    PROVE  Ahead(m, q) \subseteq Ahead(n, q)
  BY DEF Ahead

\* n places hold at most n items.
LEMMA AheadCardinality ==
    ASSUME NEW n \in Nat, NEW q \in Seq(Item)
    PROVE  IsFiniteSet(Ahead(n, q)) /\ Cardinality(Ahead(n, q)) <= n
  <1> DEFINE D == {j \in DOMAIN q : j <= n}
  <1>1. D \in SUBSET (1..n)
    BY DEF D
  <1>2. IsFiniteSet(1..n) /\ Cardinality(1..n) = n
    BY FS_Interval
  <1>3. IsFiniteSet(D) /\ Cardinality(D) <= n
    BY <1>1, <1>2, FS_Subset
  <1>4. [k \in D |-> q[k]] \in Surjection(D, Ahead(n, q))
    BY DEF Surjection, Ahead
  <1>5. IsFiniteSet(Ahead(n, q)) /\ Cardinality(Ahead(n, q)) <= Cardinality(D)
    BY <1>3, <1>4, FS_Surjection
  <1>6. Cardinality(D) \in Nat /\ Cardinality(Ahead(n, q)) \in Nat
    BY <1>3, <1>5, FS_CardinalityType
  <1> QED
    BY <1>3, <1>5, <1>6

\* The songs in a cache are finitely many.
LEMMA CachedFinite ==
    ASSUME NEW c
    PROVE  IsFiniteSet(Cached(c)) /\ Cardinality(Cached(c)) \in Nat
  <1>1. Cached(c) \in SUBSET Item
    BY DEF Cached
  <1> QED
    BY <1>1, ItemAssumption, FS_Subset, FS_CardinalityType

\* UpdateCache, on any cache and any queue: the songs that will be needed next
\* are there, and the cache has its size.
LEMMA UpdateCacheSound ==
    ASSUME NEW c \in [Item -> Phases], NEW q \in Seq(Item)
    PROVE  /\ UpdateCache(c, q) \in [Item -> Phases]
           /\ Ahead(Prefetch, q) \subseteq Cached(UpdateCache(c, q))
           /\ Cardinality(Cached(UpdateCache(c, q))) <= CacheLimit
  <1> DEFINE a == AddToCache(c, Ahead(Prefetch, q))
  <1>1. a \in [Item -> Phases]
    BY DEF AddToCache, Phases, Phase
  <1>2. Ahead(Prefetch, q) \subseteq Cached(a)
    BY AheadType, SizesAssumption DEF AddToCache, Cached
  <1>3. CASE Cardinality(Cached(a)) > CacheLimit
    <2> DEFINE b == [i \in Item |-> IF i \in Ahead(CacheLimit, q) THEN a[i] ELSE "absent"]
    <2>1. UpdateCache(c, q) = b
      BY <1>3 DEF UpdateCache, Trim
    <2>2. b \in [Item -> Phases]
      BY <1>1 DEF Phases
    <2>3. Ahead(Prefetch, q) \subseteq Ahead(CacheLimit, q)
      BY AheadMonotonic, SizesAssumption
    <2>4. Ahead(Prefetch, q) \subseteq Cached(b)
      BY <1>2, <2>3 DEF Cached
    <2>5. Cached(b) \in SUBSET Ahead(CacheLimit, q)
      BY DEF Cached
    <2>6. /\ IsFiniteSet(Ahead(CacheLimit, q))
          /\ Cardinality(Ahead(CacheLimit, q)) <= CacheLimit
      BY AheadCardinality, SizesAssumption
    <2>7. Cardinality(Cached(b)) <= Cardinality(Ahead(CacheLimit, q))
      BY <2>5, <2>6, FS_Subset
    <2>8. Cardinality(Cached(b)) \in Nat /\ Cardinality(Ahead(CacheLimit, q)) \in Nat
      BY <2>6, CachedFinite, FS_CardinalityType
    <2> QED
      BY <2>1, <2>2, <2>4, <2>6, <2>7, <2>8, SizesAssumption
  <1>4. CASE ~(Cardinality(Cached(a)) > CacheLimit)
    <2>1. UpdateCache(c, q) = a
      BY <1>4 DEF UpdateCache, Trim
    <2>2. Cardinality(Cached(a)) \in Nat
      BY CachedFinite
    <2> QED
      BY <1>1, <1>2, <1>4, <2>1, <2>2, SizesAssumption
  <1> QED
    BY <1>3, <1>4

\* The empty cache under the empty queue.
LEMMA EmptyCache ==
    ASSUME NEW c, c = [i \in Item |-> "absent"]
    PROVE  /\ c \in [Item -> Phases]
           /\ Ahead(Prefetch, <<>>) \subseteq Cached(c)
           /\ Cardinality(Cached(c)) <= CacheLimit
  <1>1. Cached(c) = {}
    BY DEF Cached
  <1>2. Ahead(Prefetch, <<>>) = {}
    BY DEF Ahead
  <1> QED
    BY <1>1, <1>2, FS_EmptySet, SizesAssumption DEF Phases

\* One more finished step of a download leaves the same songs in the cache.
LEMMA DownloadKeepsCached ==
    ASSUME NEW c \in [Item -> Phases], NEW i \in Item, NEW p \in Steps(c[i])
    PROVE  /\ [c EXCEPT ![i] = p] \in [Item -> Phases]
           /\ Cached([c EXCEPT ![i] = p]) = Cached(c)
  <1>1. p \in Phase /\ c[i] # "absent"
    BY DEF Steps, Phase
  <1> QED
    BY <1>1 DEF Phases, Cached, Phase
-------------------------------------------------------------------------------
(***************************************************************************)
(* The inductive invariant.  HeadsCached alone is not inductive: that the  *)
(* pass which puts a missing head in the cache cannot make the cache too   *)
(* big is known only because HeadsCached excludes this pass.               *)
(***************************************************************************)
IInv == TypeOK /\ HeadsCached /\ CacheBounded

LEMMA InitIInv == Init => IInv
  BY EmptyCache, EmptySeq DEF Init, IInv, TypeOK, HeadsCached, CacheBounded, Taken,
     NothingTaken, Outcome, Phases

\* A pass through NextSong's body.
LEMMA PassIInv ==
    ASSUME IInv, NEW t \in Thread, Pass(t)
    PROVE  IInv'
  <1> USE DEF IInv, TypeOK, HeadsCached, CacheBounded
  <1>1. CASE PassEmpty(t)
    BY <1>1 DEF Pass, PassEmpty, Outcome
  <1>2. CASE PassMissing(t)
    <2>1. Head(queue) = queue[1] /\ 1 \in DOMAIN queue
      BY <1>2 DEF PassMissing
    <2>2. Head(queue) \in Ahead(Prefetch, queue)
      BY <2>1, SizesAssumption DEF Ahead
    <2> QED
      BY <1>2, <2>2 DEF PassMissing, Cached
  <1>3. CASE PassTake(t)
    <2> DEFINE left == [cache EXCEPT ![Head(queue)] = "absent"]
    <2>1. Head(queue) \in Item /\ Tail(queue) \in Seq(Item)
      BY <1>3, HeadTailProperties DEF PassTake
    <2>2. left \in [Item -> Phases]
      BY DEF Phases
    <2>3. queue' = Tail(queue) /\ cache' = UpdateCache(left, Tail(queue))
      BY <1>3 DEF PassTake
    <2>4. /\ cache' \in [Item -> Phases]
          /\ HeadsCached'
          /\ CacheBounded'
      BY <2>1, <2>2, <2>3, UpdateCacheSound
    <2>5. pc' \in [Thread -> {"idle", "pass", "sleep", "ping"}]
      BY <1>3 DEF PassTake
    <2>6. taken' \in [Thread -> Taken]
      BY <1>3, <2>1 DEF PassTake, Taken, Phase
    <2>7. outcome' \in [Thread -> Outcome]
      BY <1>3 DEF PassTake, Outcome
    <2>8. online' \in BOOLEAN
      BY DEF Pass
    <2> QED
      BY <2>1, <2>3, <2>4, <2>5, <2>6, <2>7, <2>8 DEF Phases
  <1> QED
    BY <1>1, <1>2, <1>3 DEF Pass

\* Every step keeps the invariant.
LEMMA NextIInv == IInv /\ [Next]_vars => IInv'
  <1> SUFFICES ASSUME IInv, [Next]_vars PROVE IInv'
    OBVIOUS
  <1> USE DEF IInv, TypeOK, HeadsCached, CacheBounded
  <1>1. ASSUME NEW q \in Queues, UpdateQueue(q) PROVE IInv'
    <2>1. q \in Seq(Item) /\ cache \in [Item -> Phases]
      BY QueuesAssumption DEF Phases
    <2> QED
      BY <1>1, <2>1, UpdateCacheSound DEF UpdateQueue, Phases
  <1>2. CASE Reset
    <2>1. queue' = <<>> /\ cache' = [i \in Item |-> "absent"]
      BY <1>2 DEF Reset
    <2>2. cache' \in [Item -> Phases] /\ HeadsCached' /\ CacheBounded'
      BY <2>1, EmptyCache
    <2> QED
      BY <1>2, <2>1, <2>2, EmptySeq DEF Reset, Phases
  <1>3. ASSUME NEW t \in Thread, Call(t) PROVE IInv'
    BY <1>3 DEF Call, Taken, NothingTaken, Outcome
  <1>4. ASSUME NEW t \in Thread, Pass(t) PROVE IInv'
    BY <1>4, PassIInv
  <1>5. ASSUME NEW t \in Thread, Wake(t) PROVE IInv'
    BY <1>5 DEF Wake
  <1>6. ASSUME NEW t \in Thread, PingDone(t) PROVE IInv'
    BY <1>6 DEF PingDone, Outcome
  <1>7. ASSUME NEW t \in Thread, DownloadTaken(t) PROVE IInv'
    <2>1. PICK p \in Steps(taken[t].phase) : taken' = [taken EXCEPT ![t].phase = p]
      BY <1>7 DEF DownloadTaken
    <2>2. p \in Phase
      BY DEF Steps, Phase
    <2>3. taken' \in [Thread -> Taken]
      BY <2>1, <2>2 DEF Taken
    <2> QED
      BY <1>7, <2>3 DEF DownloadTaken
  <1>8. ASSUME NEW i \in Item, DownloadCached(i) PROVE IInv'
    <2>1. PICK p \in Steps(cache[i]) : cache' = [cache EXCEPT ![i] = p]
      BY <1>8 DEF DownloadCached
    <2>2. cache' \in [Item -> Phases] /\ Cached(cache') = Cached(cache)
      BY <2>1, DownloadKeepsCached DEF Phases
    <2> QED
      BY <1>8, <2>2 DEF DownloadCached, Phases
  <1>9. CASE ServerToggles
    BY <1>9 DEF ServerToggles
  <1>10. CASE UNCHANGED vars
    BY <1>10 DEF vars
  <1> QED
    BY <1>1, <1>2, <1>3, <1>4, <1>5, <1>6, <1>7, <1>8, <1>9, <1>10 DEF Next

\* The variables keep their types, for every playlist and number of threads.
THEOREM TypeCorrect == Spec => []TypeOK
  <1>1. IInv => TypeOK
    BY DEF IInv
  <1> QED
    BY <1>1, InitIInv, NextIInv, PTL DEF Spec

\* The songs needed next are always in the cache (SongCache.cpp 82: "this
\* should not happen").
THEOREM HeadsAlwaysCached == Spec => []HeadsCached
  <1>1. IInv => HeadsCached
    BY DEF IInv
  <1> QED
    BY <1>1, InitIInv, NextIInv, PTL DEF Spec

\* The cache never holds more than CacheLimit songs between two steps.
THEOREM CacheAlwaysBounded == Spec => []CacheBounded
  <1>1. IInv => CacheBounded
    BY DEF IInv
  <1> QED
    BY <1>1, InitIInv, NextIInv, PTL DEF Spec
-------------------------------------------------------------------------------
(***************************************************************************)
(* Which downloads a step leaves alone.  Trim keeps what is on the first   *)
(* CacheLimit places of the queue the step leaves behind, and adding a     *)
(* song never touches one that is there: so no invariant but the types is  *)
(* needed.                                                                 *)
(***************************************************************************)

\* UpdateCache leaves a download alone whose song is on the first CacheLimit
\* places of the queue.
LEMMA UpdateCacheKeeps ==
    ASSUME NEW c \in [Item -> Phases], NEW q \in Seq(Item),
           NEW i \in Ahead(CacheLimit, q), c[i] # "absent"
    PROVE  UpdateCache(c, q)[i] = c[i]
  <1> DEFINE a == AddToCache(c, Ahead(Prefetch, q))
  <1>1. i \in Item
    BY AheadType, SizesAssumption
  <1>2. a[i] = c[i]
    BY <1>1 DEF AddToCache
  <1>3. Trim(a, q)[i] = a[i]
    BY <1>1 DEF Trim
  <1> QED
    BY <1>2, <1>3 DEF UpdateCache

\* What DownloadsKept says of one step.
KeepsDownloads ==
    \A i \in Ahead(CacheLimit, queue') :
        \/ cache[i] = "absent"
        \/ cache'[i] \in {cache[i]} \cup Steps(cache[i])
        \/ queue # <<>> /\ i = Head(queue) /\ queue' = Tail(queue)

LEMMA NextKeepsDownloads == TypeOK /\ TypeOK' /\ [Next]_vars => KeepsDownloads
  <1> SUFFICES ASSUME TypeOK, TypeOK', [Next]_vars,
                      NEW i \in Ahead(CacheLimit, queue'), cache[i] # "absent"
               PROVE  \/ cache'[i] \in {cache[i]} \cup Steps(cache[i])
                      \/ queue # <<>> /\ i = Head(queue) /\ queue' = Tail(queue)
    BY DEF KeepsDownloads
  <1>1. cache \in [Item -> Phases] /\ i \in Item
    BY AheadType, SizesAssumption DEF TypeOK, Phases
  <1>2. ASSUME NEW q \in Queues, UpdateQueue(q) PROVE cache'[i] = cache[i]
    BY <1>1, <1>2, QueuesAssumption, UpdateCacheKeeps DEF UpdateQueue
  <1>3. CASE Reset
    BY <1>3 DEF Reset, Ahead
  <1>4. ASSUME NEW t \in Thread, PassMissing(t) PROVE cache'[i] = cache[i]
    BY <1>1, <1>4 DEF PassMissing, AddToCache
  <1>5. ASSUME NEW t \in Thread, PassTake(t), i # Head(queue)
        PROVE  cache'[i] = cache[i]
    <2> DEFINE left == [cache EXCEPT ![Head(queue)] = "absent"]
    <2>1. left \in [Item -> Phases] /\ left[i] = cache[i]
      BY <1>1, <1>5 DEF Phases
    <2>2. queue' = Tail(queue) /\ cache' = UpdateCache(left, queue')
      BY <1>5 DEF PassTake
    <2>3. queue' \in Seq(Item)
      BY DEF TypeOK
    <2> HIDE DEF left
    <2> QED
      BY <2>1, <2>2, <2>3, UpdateCacheKeeps
  <1>6. ASSUME NEW t \in Thread, PassTake(t) PROVE queue # <<>> /\ queue' = Tail(queue)
    BY <1>6 DEF PassTake
  <1>7. ASSUME NEW t \in Thread, Pass(t)
        PROVE  \/ cache'[i] = cache[i]
               \/ queue # <<>> /\ i = Head(queue) /\ queue' = Tail(queue)
    BY <1>4, <1>5, <1>6, <1>7 DEF Pass, PassEmpty
  <1>8. ASSUME NEW j \in Item, DownloadCached(j)
        PROVE  cache'[i] \in {cache[i]} \cup Steps(cache[i])
    BY <1>1, <1>8 DEF DownloadCached
  <1>9. ASSUME NEW t \in Thread, Call(t) \/ Wake(t) \/ PingDone(t) \/ DownloadTaken(t)
        PROVE  cache'[i] = cache[i]
    BY <1>9 DEF Call, Wake, PingDone, DownloadTaken
  <1>10. CASE ServerToggles \/ UNCHANGED vars
    BY <1>10 DEF ServerToggles, vars
  <1> QED
    BY <1>2, <1>3, <1>7, <1>8, <1>9, <1>10 DEF Next

\* A step leaves the download of every song that will be needed soon alone,
\* or lets it move on: neither a new queue nor a trimmed cache cancels it.
THEOREM DownloadsAreKept == Spec => DownloadsKept
  <1>1. TypeOK /\ TypeOK' /\ [Next]_vars => [KeepsDownloads]_vars
    BY NextKeepsDownloads
  <1> QED
    BY <1>1, TypeCorrect, PTL DEF Spec, DownloadsKept, KeepsDownloads
-------------------------------------------------------------------------------
(***************************************************************************)
(* What a call of NextSong has taken while it runs, and what it answers.   *)
(***************************************************************************)
CallInv ==
    \A t \in Thread :
        /\ pc[t] # "idle" => outcome[t] = "none"
        /\ pc[t] = "ping" => taken[t].phase = "failed"
        /\ taken[t].item = NoItem => taken[t].phase = "absent"

AInv == TypeOK /\ CallInv /\ AnswerMatchesDownload

LEMMA NextAInv == TypeOK /\ TypeOK' /\ AInv /\ [Next]_vars => AInv'
  <1> SUFFICES ASSUME TypeOK, TypeOK', AInv, [Next]_vars PROVE AInv'
    OBVIOUS
  <1> USE DEF AInv, CallInv, AnswerMatchesDownload
  <1>1. ASSUME NEW q \in Queues, UpdateQueue(q) PROVE AInv'
    BY <1>1 DEF UpdateQueue
  <1>2. CASE Reset
    BY <1>2 DEF Reset
  <1>3. ASSUME NEW t \in Thread, Call(t) PROVE AInv'
    BY <1>3 DEF Call, TypeOK, NothingTaken
  <1>4. ASSUME NEW t \in Thread, Pass(t) PROVE AInv'
    <2>1. CASE PassEmpty(t)
      BY <1>4, <2>1 DEF Pass, PassEmpty, TypeOK
    <2>2. CASE PassMissing(t)
      BY <1>4, <2>2 DEF Pass, PassMissing
    <2>3. CASE PassTake(t)
      <3>1. Head(queue) \in Item /\ Head(queue) # NoItem
        BY <2>3, HeadTailProperties, ItemAssumption DEF PassTake, TypeOK
      <3>2. /\ taken'[t].item # NoItem
            /\ \/ outcome'[t] = "song" /\ pc'[t] = "idle" /\ taken'[t].phase \in {"opening", "ready"}
               \/ outcome'[t] = "none" /\ pc'[t] = "ping" /\ taken'[t].phase = "failed"
               \/ outcome'[t] = "none" /\ pc'[t] = "sleep"
        BY <1>4, <2>3, <3>1 DEF Pass, PassTake, TypeOK
      <3>3. \A u \in Thread \ {t} : /\ taken'[u] = taken[u]
                                    /\ outcome'[u] = outcome[u]
                                    /\ pc'[u] = pc[u]
        BY <2>3 DEF PassTake, TypeOK
      <3> QED
        BY <3>2, <3>3
    <2> QED
      BY <1>4, <2>1, <2>2, <2>3 DEF Pass
  <1>5. ASSUME NEW t \in Thread, Wake(t) PROVE AInv'
    BY <1>5 DEF Wake, TypeOK
  <1>6. ASSUME NEW t \in Thread, PingDone(t) PROVE AInv'
    BY <1>6 DEF PingDone, TypeOK
  <1>7. ASSUME NEW t \in Thread, DownloadTaken(t) PROVE AInv'
    <2>1. PICK p \in Steps(taken[t].phase) : taken' = [taken EXCEPT ![t].phase = p]
      BY <1>7 DEF DownloadTaken
    <2>2. \/ taken[t].phase = "loading" /\ p \in {"opening", "failed"}
          \/ taken[t].phase = "opening" /\ p = "ready"
      BY DEF Steps
    <2>3. UNCHANGED <<pc, outcome>>
      BY <1>7 DEF DownloadTaken
    <2>4. \A u \in Thread : /\ taken'[u].item = taken[u].item
                            /\ u # t => taken'[u].phase = taken[u].phase
                            /\ u = t => taken'[u].phase = p
      BY <2>1 DEF TypeOK, Taken
    <2> QED
      BY <2>2, <2>3, <2>4
  <1>8. ASSUME NEW i \in Item, DownloadCached(i) PROVE AInv'
    BY <1>8 DEF DownloadCached
  <1>9. CASE ServerToggles
    BY <1>9 DEF ServerToggles
  <1>10. CASE UNCHANGED vars
    BY <1>10 DEF vars
  <1> QED
    BY <1>1, <1>2, <1>3, <1>4, <1>5, <1>6, <1>7, <1>8, <1>9, <1>10 DEF Next

LEMMA AlwaysAInv == Spec => []AInv
  <1>1. Init /\ TypeOK => AInv
    BY DEF Init, AInv, CallInv, AnswerMatchesDownload, NothingTaken
  <1> QED
    BY <1>1, NextAInv, TypeCorrect, PTL DEF Spec

\* NextSong answers with a song only when it has been downloaded, and with a
\* failure only when its download has failed.
THEOREM AnswersMatchDownloads == Spec => []AnswerMatchesDownload
  <1>1. AInv => AnswerMatchesDownload
    BY DEF AInv
  <1> QED
    BY <1>1, AlwaysAInv, PTL
-------------------------------------------------------------------------------
(***************************************************************************)
(* The cache implements SongSource.                                        *)
(***************************************************************************)

\* One step of the cache is a step of the source, or none.
LEMMA StepImplementsSource == AInv /\ [Next]_vars => [Source!Next]_(Source!vars)
  <1> SUFFICES ASSUME AInv, [Next]_vars PROVE [Source!Next]_(Source!vars)
    OBVIOUS
  <1> USE DEF AInv, TypeOK
  <1> DEFINE calls == [t \in Thread |-> pc[t] # "idle"]
             items == [t \in Thread |-> taken[t].item]
  <1>1. ASSUME NEW q \in Queues, UpdateQueue(q) PROVE Source!Next
    BY <1>1 DEF UpdateQueue, Source!Next, Source!Replace
  <1>2. CASE Reset
    BY <1>2 DEF Reset, Source!Next, Source!Clear
  <1>3. ASSUME NEW t \in Thread, Call(t) PROVE Source!Next
    <2>1. Source!Call(t)
      BY <1>3 DEF Call, Source!Call, NothingTaken
    <2> QED
      BY <2>1 DEF Source!Next
  <1>4. ASSUME NEW t \in Thread, Pass(t) PROVE Source!Next \/ UNCHANGED Source!vars
    <2>1. CASE PassEmpty(t)
      <3>1. Source!Exhaust(t)
        BY <1>4, <2>1 DEF Pass, PassEmpty, Source!Exhaust, Source!End
      <3> QED
        BY <3>1 DEF Source!Next
    <2>2. CASE PassMissing(t)
      BY <1>4, <2>2 DEF Pass, PassMissing, Source!vars
    <2>3. CASE PassTake(t)
      <3> DEFINE phase == cache[Head(queue)]
      <3>1. Source!TakeHead(t)
        BY <1>4, <2>3 DEF Pass, PassTake, Source!TakeHead
      <3>2. CASE phase \in {"opening", "ready"}
        <4>1. Source!Deliver(t)
          BY <1>4, <2>3, <3>1, <3>2 DEF Pass, PassTake, Source!Deliver, Source!End
        <4> QED
          BY <4>1 DEF Source!Next
      <3>3. CASE phase \in {"failed", "loading"}
        <4>1. Source!Skim(t)
          BY <1>4, <2>3, <3>1, <3>3 DEF Pass, PassTake, Source!Skim
        <4> QED
          BY <4>1 DEF Source!Next
      <3> QED
        BY <2>3, <3>2, <3>3 DEF PassTake
    <2> QED
      BY <1>4, <2>1, <2>2, <2>3 DEF Pass
  <1>5. ASSUME NEW t \in Thread, Wake(t) PROVE UNCHANGED Source!vars
    BY <1>5 DEF Wake, Source!vars
  <1>6. ASSUME NEW t \in Thread, PingDone(t) PROVE Source!Next
    <2>1. taken[t].item # NoItem
      BY <1>6 DEF PingDone, CallInv
    <2>2. Source!Report(t)
      BY <1>6, <2>1 DEF PingDone, Source!Report, Source!End
    <2> QED
      BY <2>2 DEF Source!Next
  <1>7. ASSUME NEW t \in Thread, DownloadTaken(t) PROVE UNCHANGED Source!vars
    <2>1. PICK p : taken' = [taken EXCEPT ![t].phase = p]
      BY <1>7 DEF DownloadTaken
    <2>2. \A u \in Thread : taken'[u].item = taken[u].item
      BY <2>1 DEF Taken
    <2> QED
      BY <1>7, <2>2 DEF DownloadTaken, Source!vars
  <1>8. ASSUME NEW i \in Item, DownloadCached(i) PROVE UNCHANGED Source!vars
    BY <1>8 DEF DownloadCached, Source!vars
  <1>9. CASE ServerToggles
    BY <1>9 DEF ServerToggles, Source!vars
  <1>10. CASE UNCHANGED vars
    BY <1>10 DEF vars, Source!vars
  <1> QED
    BY <1>1, <1>2, <1>3, <1>4, <1>5, <1>6, <1>7, <1>8, <1>9, <1>10 DEF Next

\* Whatever the downloads do, the player sees the queue SongSource promises.
THEOREM CacheImplementsSource == Spec => ImplementsSource
  <1>1. ASSUME Init PROVE Source!Init
    <2>1. [t \in Thread |-> pc[t] # "idle"] = [t \in Thread |-> FALSE]
      <3>1. \A t \in Thread : (pc[t] # "idle") = FALSE
        BY <1>1 DEF Init
      <3> QED
        BY <3>1
    <2>2. [t \in Thread |-> taken[t].item] = [t \in Thread |-> NoItem]
      BY <1>1 DEF Init, NothingTaken
    <2> QED
      BY <1>1, <2>1, <2>2 DEF Init, Source!Init
  <1> QED
    BY <1>1, StepImplementsSource, AlwaysAInv, PTL DEF Spec, ImplementsSource, Source!Spec
===============================================================================
