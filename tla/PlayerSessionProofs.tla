-------------------------- MODULE PlayerSessionProofs --------------------------
(***************************************************************************)
(* What PlayerSession guarantees for any songs, any queues and any set of  *)
(* failing calls.                                                          *)
(*                                                                         *)
(* The inductive invariant says what a player without a stream looks like  *)
(* (StreamSound), and what more is known when every stream can be stopped  *)
(* (StopsWork) and when nothing fails (PlayingIsHeard).  The lemmas give   *)
(* the states the player operations and OpenNextSong, ResetPlayer and      *)
(* NextOnQueue lead to; the handlers then follow one by one.               *)
(***************************************************************************)
EXTENDS PlayerSession, TLAPS, SequenceTheorems

\* A stream that is there is open, playing or paused; one that is not has not
\* ended.
StreamSound(p) ==
    /\ p.source # NoItem => p.status \in {"OPEN", "PLAYING", "PAUSED"}
    /\ p.source = NoItem => p.ended = "no"

\* When streams can be stopped, the player reads the current song or none, and
\* a session that is without a song, or whose song has ended, waits and asks.
StopsWork ==
    "stop" \notin faults =>
        /\ player.leaked = {}
        /\ player.source \in {NoItem, currentSong}
        /\ player.ended = "told" => waiting /\ asked
        /\ playing /\ currentSong = NoItem => waiting /\ asked

IInv ==
    /\ TypeOK
    /\ ResetIsComplete
    /\ WaitsOnlyWithoutQueue
    /\ StreamSound(player)
    /\ StopsWork
    /\ PlayingIsHeard
-------------------------------------------------------------------------------
(* The player's operations. *)

\* Pausing changes the status only; a stream that plays stops unless it cannot.
LEMMA PauseOfSound ==
    ASSUME NEW p \in Player, StreamSound(p), NEW c \in PauseOf(p)
    PROVE  /\ c \in Player
           /\ StreamSound(c)
           /\ c.source = p.source /\ c.ended = p.ended /\ c.leaked = p.leaked
           /\ "stop" \notin faults /\ c.source # NoItem => c.status \in {"OPEN", "PAUSED"}
    BY DEF PauseOf, Player, Status, StreamSound

\* Closing leaves the stream as it was or takes it away, and takes it away when
\* it can be stopped.
LEMMA CloseOfSound ==
    ASSUME NEW p \in Player, StreamSound(p), NEW c \in CloseOf(p)
    PROVE  /\ c \in Player
           /\ StreamSound(c)
           /\ c.source \in {NoItem, p.source}
           /\ c.leaked = p.leaked
           /\ "stop" \notin faults => c.source = NoItem
    <1>1. PICK b \in PauseOf(p) :
             c = IF b.status \in {"PAUSED", "OPEN"}
                 THEN [b EXCEPT !.status = "EMPTY", !.source = NoItem, !.ended = "no"]
                 ELSE b
      BY DEF CloseOf
    <1>2. /\ b \in Player
          /\ StreamSound(b)
          /\ b.source = p.source /\ b.leaked = p.leaked
          /\ "stop" \notin faults /\ b.source # NoItem => b.status \in {"OPEN", "PAUSED"}
      BY <1>1, PauseOfSound
    <1>3. CASE b.status \in {"PAUSED", "OPEN"}
      BY <1>1, <1>2, <1>3 DEF Player, Status, StreamSound
    <1>4. CASE b.status \notin {"PAUSED", "OPEN"}
      BY <1>1, <1>2, <1>4
    <1> QED
      BY <1>3, <1>4

\* Opening a song gives the player a new stream for it, silent still, or leaves
\* it without one; only a stream that could not be stopped leaks or stays.
LEMMA OpenOfSound ==
    ASSUME NEW p \in Player, StreamSound(p), NEW song \in Item,
           NEW c \in OpenOf(p, song)
    PROVE  /\ c \in Player
           /\ StreamSound(c)
           /\ \/ c.source = song /\ c.status = "OPEN" /\ c.ended = "no"
              \/ c.source \in {NoItem, p.source} /\ "open" \in faults
           /\ "stop" \notin faults => /\ c.leaked = p.leaked
                                      /\ c.source \in {NoItem, song}
                                      /\ c.ended = "no"
    <1> DEFINE closedOnes == IF p.status = "EMPTY" THEN {p} ELSE CloseOf(p)
               opened(b) == [status |-> "OPEN", source |-> song, ended |-> "no",
                             leaked |-> IF b.source = NoItem THEN b.leaked
                                        ELSE b.leaked \cup {b.source}]
    <1>1. ASSUME NEW b \in closedOnes
          PROVE  /\ b \in Player
                 /\ StreamSound(b)
                 /\ b.source \in {NoItem, p.source}
                 /\ b.leaked = p.leaked
                 /\ "stop" \notin faults => b.source = NoItem
      BY <1>1, CloseOfSound DEF StreamSound
    <1>2. \/ \E b \in closedOnes : c = opened(b)
          \/ c \in closedOnes /\ "open" \in faults
      BY DEF OpenOf
    <1>3. CASE \E b \in closedOnes : c = opened(b)
      <2>1. PICK b \in closedOnes : c = opened(b)
        BY <1>3
      <2> HIDE DEF closedOnes
      <2>2. c \in Player
        BY <1>1, <2>1, ItemAssumption DEF Player, Status
      <2>3. c.source = song /\ c.status = "OPEN" /\ c.ended = "no"
        BY <2>1
      <2>4. "stop" \notin faults => c.leaked = p.leaked
        BY <1>1, <2>1
      <2> QED
        BY <2>2, <2>3, <2>4, ItemAssumption DEF StreamSound
    <1>4. CASE c \in closedOnes /\ "open" \in faults
      BY <1>1, <1>4 DEF StreamSound
    <1> QED
      BY <1>2, <1>3, <1>4

\* Starting changes the status of a stream, and forgets that its song ended.
LEMMA PlayOfSound ==
    ASSUME NEW p \in Player, StreamSound(p), NEW c \in PlayOf(p)
    PROVE  /\ c \in Player
           /\ StreamSound(c) \/ p.source = NoItem
           /\ c.source = p.source /\ c.leaked = p.leaked
           /\ c.ended \in {p.ended, "no"}
           /\ c.source = NoItem => c.ended = "no"
           /\ c.source # NoItem => c.status \in {"OPEN", "PLAYING", "PAUSED"}
           /\ "start" \notin faults /\ c.source # NoItem => c.status = "PLAYING"
    BY DEF PlayOf, Player, Status, StreamSound
-------------------------------------------------------------------------------
(* The helpers of the session. *)

\* A song that was found is open, and started when the caller wants it.
LEMMA OpenNextSongSound ==
    ASSUME NEW q \in Seq(Item), NEW p \in Player, StreamSound(p),
           NEW start \in BOOLEAN, OpenNextSong(q, p, start)
    PROVE  /\ q # <<>>
           /\ queue' \in Seq(Item)
           /\ currentSong' \in Item
           /\ player' \in Player
           /\ StreamSound(player')
           /\ "stop" \notin faults => /\ player'.leaked = p.leaked
                                      /\ player'.source \in {NoItem, currentSong'}
                                      /\ player'.ended = "no"
           /\ faults = {} => /\ player'.source = currentSong'
                             /\ player'.status = "PLAYING" <=> start
           /\ Sounding(player') /\ player'.source # p.source => start
    <1>1. PICK k \in DOMAIN q :
             /\ queue' = SubSeq(q, k + 1, Len(q))
             /\ currentSong' = q[k]
             /\ \E opened \in OpenOf(p, q[k]) :
                   player' \in IF start THEN PlayOf(opened) ELSE {opened}
      BY DEF OpenNextSong
    <1>2. PICK opened \in OpenOf(p, q[k]) :
             player' \in IF start THEN PlayOf(opened) ELSE {opened}
      BY <1>1
    <1>3. k \in 1..Len(q) /\ Len(q) \in Nat
      BY <1>1, LenProperties
    <1>4. q # <<>>
      BY <1>3, EmptySeq
    <1>5. q[k] \in Item
      BY <1>3, ElementOfSeq
    <1>6. queue' \in Seq(Item)
      <2>1. \A i \in k + 1 .. Len(q) : q[i] \in Item
        BY <1>3, ElementOfSeq
      <2> QED
        BY <1>1, <1>3, <2>1, SubSeqProperties
    <1>7. /\ opened \in Player
          /\ StreamSound(opened)
          /\ \/ opened.source = q[k] /\ opened.status = "OPEN" /\ opened.ended = "no"
             \/ opened.source \in {NoItem, p.source} /\ "open" \in faults
          /\ "stop" \notin faults => /\ opened.leaked = p.leaked
                                     /\ opened.source \in {NoItem, q[k]}
                                     /\ opened.ended = "no"
      BY <1>2, <1>5, OpenOfSound
    <1>8. CASE start
      <2>1. player' \in PlayOf(opened)
        BY <1>2, <1>8
      <2>2. /\ player' \in Player
            /\ player'.source = opened.source /\ player'.leaked = opened.leaked
            /\ player'.ended \in {opened.ended, "no"}
            /\ player'.source = NoItem => player'.ended = "no"
            /\ player'.source # NoItem => player'.status \in {"OPEN", "PLAYING", "PAUSED"}
            /\ "start" \notin faults /\ player'.source # NoItem => player'.status = "PLAYING"
        BY <1>7, <2>1, PlayOfSound
      <2> QED
        BY <1>1, <1>4, <1>5, <1>6, <1>7, <1>8, <2>2, ItemAssumption DEF StreamSound
    <1>9. CASE ~start
      <2>1. player' = opened
        BY <1>2, <1>9
      <2> QED
        BY <1>1, <1>4, <1>5, <1>6, <1>7, <1>9, <2>1 DEF Sounding
    <1> QED
      BY <1>8, <1>9

\* Resetting takes song, queue and wish away; the stream too, if it can stop.
LEMMA ResetPlayerSound ==
    ASSUME TypeOK, ResetIsComplete, NEW p \in Player, StreamSound(p), ResetPlayer(p)
    PROVE  /\ cache' = "null"
           /\ queue' = <<>>
           /\ ~playing'
           /\ playing' \in BOOLEAN
           /\ currentSong' = NoItem
           /\ player' \in Player
           /\ StreamSound(player')
           /\ player'.source \in {NoItem, p.source}
           /\ player'.leaked = p.leaked
           /\ "stop" \notin faults /\ cache # "null" => player'.source = NoItem
           /\ cache = "null" => player' = p
    BY CloseOfSound DEF ResetPlayer, ResetIsComplete, TypeOK

\* The parts of the state NextOnQueue determines.
PartsOK ==
    /\ cache \in {"null", "set"}
    /\ queue \in Seq(Item)
    /\ playing \in BOOLEAN
    /\ waiting \in BOOLEAN
    /\ currentSong \in Item \cup {NoItem}
    /\ player \in Player
    /\ asked \in BOOLEAN
    /\ ResetIsComplete
    /\ WaitsOnlyWithoutQueue
    /\ StreamSound(player)
    /\ StopsWork
    /\ PlayingIsHeard

\* The queue is exhausted: the session waits and has asked.
LEMMA QueueEmptySound ==
    ASSUME NEW p, NEW a \in BOOLEAN, QueueEmpty(p, a)
    PROVE  queue' = <<>> /\ waiting' = TRUE /\ asked' = TRUE /\ player' = p
           /\ cache' = cache /\ currentSong' = currentSong
    <1>1. Len(<<>>) < Enough
      BY EnoughAssumption, EmptySeq
    <1>2. asked' = (a \/ Len(<<>>) < Enough)
      BY DEF QueueEmpty, AskUnlessEnough
    <1>3. asked' = TRUE
      BY <1>1, <1>2
    <1> QED
      BY <1>3 DEF QueueEmpty

\* NextAction keeps the invariant on any queue, after an UPDATEQUEUE and after
\* the end of the song alike.
LEMMA NextOnQueueSound ==
    ASSUME TypeOK, ResetIsComplete, cache = "set",
           NEW q \in Seq(Item), NEW p \in Player, StreamSound(p),
           NEW w \in BOOLEAN, NEW a \in BOOLEAN, w => q = <<>>,
           "stop" \notin faults => p.leaked = {} /\ p.source \in {NoItem, currentSong},
           faults = {} /\ currentSong # NoItem =>
               p.source = currentSong /\ (p.status = "PLAYING" <=> playing),
           NextOnQueue(q, p, w, a),
           UNCHANGED faults
    PROVE  PartsOK'
    <1>1. CASE /\ OpenNextSong(q, p, playing)
               /\ waiting' = w
               /\ asked' = a
               /\ UNCHANGED <<cache, playing>>
      <2>1. playing \in BOOLEAN
        BY DEF TypeOK
      <2>2. /\ q # <<>>
            /\ queue' \in Seq(Item)
            /\ currentSong' \in Item
            /\ player' \in Player
            /\ StreamSound(player')
            /\ "stop" \notin faults => /\ player'.leaked = p.leaked
                                       /\ player'.source \in {NoItem, currentSong'}
                                       /\ player'.ended = "no"
            /\ faults = {} => /\ player'.source = currentSong'
                              /\ player'.status = "PLAYING" <=> playing
        BY <1>1, <2>1, OpenNextSongSound
      <2>3. StopsWork'
        BY <2>2, ItemAssumption DEF StopsWork
      <2>4. PlayingIsHeard'
        BY <1>1, <2>2 DEF PlayingIsHeard
      <2> QED
        BY <1>1, <2>1, <2>2, <2>3, <2>4 DEF PartsOK, ResetIsComplete, WaitsOnlyWithoutQueue, StreamSound
    <1>2. CASE QueueEmpty(p, a) /\ UNCHANGED playing
      <2>1. /\ queue' = <<>> /\ waiting' = TRUE /\ asked' = TRUE /\ player' = p
            /\ cache' = cache /\ currentSong' = currentSong
        BY <1>2, QueueEmptySound
      <2>2. queue' \in Seq(Item)
        BY <2>1, EmptySeq
      <2>3. StopsWork'
        BY <1>2, <2>1 DEF StopsWork
      <2>4. PlayingIsHeard'
        BY <1>2, <2>1 DEF PlayingIsHeard
      <2> QED
        BY <1>2, <2>1, <2>2, <2>3, <2>4
        DEF TypeOK, PartsOK, ResetIsComplete, WaitsOnlyWithoutQueue, StreamSound
    <1>3. CASE Disconnected(q, p) /\ waiting' = w /\ asked' = a
      <2>1. /\ cache' = "null"
            /\ queue' = <<>>
            /\ ~playing'
            /\ playing' \in BOOLEAN
            /\ currentSong' = NoItem
            /\ player' \in Player
            /\ StreamSound(player')
            /\ player'.leaked = p.leaked
            /\ "stop" \notin faults => player'.source = NoItem
        BY <1>3, ResetPlayerSound DEF Disconnected
      <2>2. queue' \in Seq(Item)
        BY <2>1, EmptySeq
      <2>3. StopsWork'
        BY <2>1 DEF StopsWork, StreamSound
      <2>4. PlayingIsHeard'
        BY <2>1 DEF PlayingIsHeard
      <2> QED
        BY <1>3, <2>1, <2>2, <2>3, <2>4 DEF PartsOK, ResetIsComplete, WaitsOnlyWithoutQueue, StreamSound
    <1> QED
      BY <1>1, <1>2, <1>3 DEF NextOnQueue
-------------------------------------------------------------------------------
(* The invariant. *)

LEMMA InitIInv == Init => IInv
  <1> SUFFICES ASSUME Init PROVE IInv
    OBVIOUS
  <1>1. PICK s \in Status :
           player = [status |-> s, source |-> NoItem, ended |-> "no", leaked |-> {}]
    BY DEF Init
  <1>2. player \in Player
    BY <1>1 DEF Player
  <1>3. queue \in Seq(Item)
    BY EmptySeq DEF Init
  <1>4. TypeOK
    BY <1>2, <1>3 DEF Init, TypeOK, Answer
  <1> QED
    BY <1>1, <1>4 DEF Init, IInv, ResetIsComplete, WaitsOnlyWithoutQueue, StreamSound,
                      StopsWork, PlayingIsHeard

\* What the invariant says of the parts, and back.
LEMMA IInvParts ==
    /\ IInv => PartsOK
    /\ PartsOK' /\ callbacks' \in BOOLEAN /\ answer' \in Answer /\ closed' \in BOOLEAN
          /\ faults' \subseteq Fault => IInv'
  BY DEF IInv, PartsOK, TypeOK

\* A request that changes nothing but the answer.
LEMMA RefusedIInv ==
    ASSUME IInv, NEW code \in Answer, Refused(code)
    PROVE  IInv'
  BY DEF Refused, IInv, TypeOK, ResetIsComplete, WaitsOnlyWithoutQueue, StreamSound,
         StopsWork, PlayingIsHeard

\* What is known of the player before any step.
LEMMA PlayerKnown ==
    ASSUME IInv
    PROVE  /\ TypeOK /\ ResetIsComplete
           /\ player \in Player
           /\ StreamSound(player)
           /\ "stop" \notin faults => player.leaked = {} /\ player.source \in {NoItem, currentSong}
           /\ faults = {} /\ currentSong # NoItem =>
                  player.source = currentSong /\ (player.status = "PLAYING" <=> playing)
           /\ queue \in Seq(Item) /\ playing \in BOOLEAN /\ waiting \in BOOLEAN
           /\ asked \in BOOLEAN /\ (waiting => queue = <<>>)
  BY DEF IInv, TypeOK, StopsWork, PlayingIsHeard, WaitsOnlyWithoutQueue

LEMMA PlayCurrentIInv == IInv /\ PlayCurrent => IInv'
  <1> SUFFICES ASSUME IInv, PlayCurrent PROVE IInv'
    OBVIOUS
  <1>1. /\ cache = "set" /\ currentSong # NoItem /\ playing' = TRUE
        /\ player' \in IF playing THEN {player} ELSE PlayOf(player)
        /\ answer' = "OK"
        /\ UNCHANGED <<cache, queue, waiting, currentSong, callbacks, asked, closed, faults>>
    BY DEF PlayCurrent
  <1>2. /\ player' \in Player
        /\ StreamSound(player')
        /\ player'.source = player.source /\ player'.leaked = player.leaked
        /\ player'.ended \in {player.ended, "no"}
        /\ ~playing /\ "start" \notin faults /\ player'.source # NoItem => player'.status = "PLAYING"
    BY <1>1, PlayerKnown, PlayOfSound DEF StreamSound
  <1>3. StopsWork'
    BY <1>1, <1>2 DEF IInv, StopsWork
  <1>4. PlayingIsHeard'
    BY <1>1, <1>2 DEF IInv, TypeOK, PlayingIsHeard
  <1> QED
    BY <1>1, <1>2, <1>3, <1>4
    DEF IInv, TypeOK, Answer, ResetIsComplete, WaitsOnlyWithoutQueue, StreamSound

LEMMA PlayFirstIInv == IInv /\ PlayFirst => IInv'
  <1> SUFFICES ASSUME IInv, PlayFirst PROVE IInv'
    OBVIOUS
  <1>1. /\ cache = "set" /\ currentSong = NoItem /\ answer' = NextCode
        /\ UNCHANGED <<callbacks, closed, faults>>
    BY DEF PlayFirst
  <1>2. NextCode \in Answer
    BY DEF NextCode, Answer
  <1>3. CASE /\ OpenNextSong(queue, player, ~playing)
             /\ playing' = TRUE
             /\ UNCHANGED <<cache, waiting, asked>>
    <2>1. /\ queue # <<>>
          /\ queue' \in Seq(Item)
          /\ currentSong' \in Item
          /\ player' \in Player
          /\ StreamSound(player')
          /\ "stop" \notin faults => /\ player'.leaked = player.leaked
                                     /\ player'.source \in {NoItem, currentSong'}
                                     /\ player'.ended = "no"
          /\ faults = {} => /\ player'.source = currentSong'
                            /\ player'.status = "PLAYING" <=> ~playing
      BY <1>3, PlayerKnown, OpenNextSongSound
    <2>2. StopsWork'
      BY <1>1, <1>3, <2>1, ItemAssumption DEF IInv, StopsWork
    <2>3. ~playing \/ "stop" \in faults
      BY <1>1, <2>1 DEF IInv, StopsWork, WaitsOnlyWithoutQueue
    <2>4. PlayingIsHeard'
      BY <1>1, <1>3, <2>1, <2>3 DEF PlayingIsHeard
    <2> QED
      BY <1>1, <1>2, <1>3, <2>1, <2>2, <2>4
      DEF IInv, TypeOK, ResetIsComplete, WaitsOnlyWithoutQueue, StreamSound
  <1>4. CASE QueueEmpty(player, asked) /\ playing' = TRUE
    <2>1. /\ queue' = <<>> /\ waiting' = TRUE /\ asked' = TRUE /\ player' = player
          /\ cache' = cache /\ currentSong' = currentSong
      BY <1>4, PlayerKnown, QueueEmptySound
    <2>2. queue' \in Seq(Item)
      BY <2>1, EmptySeq
    <2>3. StopsWork' /\ PlayingIsHeard'
      BY <1>1, <2>1 DEF IInv, StopsWork, PlayingIsHeard
    <2> QED
      BY <1>1, <1>2, <1>4, <2>1, <2>2, <2>3
      DEF IInv, TypeOK, ResetIsComplete, WaitsOnlyWithoutQueue, StreamSound
  <1>5. CASE Disconnected(queue, player) /\ UNCHANGED <<waiting, asked>>
    <2>1. NextOnQueue(queue, player, waiting, asked)
      BY <1>5 DEF NextOnQueue
    <2>2. PartsOK'
      BY <1>1, <2>1, PlayerKnown, NextOnQueueSound
    <2> QED
      BY <1>1, <1>2, <2>2, IInvParts DEF IInv, TypeOK
  <1> QED
    BY <1>3, <1>4, <1>5 DEF PlayFirst

LEMMA PauseIInv == IInv /\ Pause => IInv'
  <1> SUFFICES ASSUME IInv, Pause PROVE IInv'
    OBVIOUS
  <1>1. /\ player' \in PauseOf(player) /\ playing' = FALSE /\ answer' = "OK" /\ cache = "set"
        /\ UNCHANGED <<cache, queue, waiting, currentSong, callbacks, asked, closed, faults>>
    BY DEF Pause
  <1>2. /\ player' \in Player
        /\ StreamSound(player')
        /\ player'.source = player.source /\ player'.ended = player.ended
        /\ player'.leaked = player.leaked
        /\ "stop" \notin faults /\ player'.source # NoItem => player'.status \in {"OPEN", "PAUSED"}
    BY <1>1, PlayerKnown, PauseOfSound
  <1>3. StopsWork' /\ PlayingIsHeard'
    BY <1>1, <1>2 DEF IInv, StopsWork, PlayingIsHeard
  <1> QED
    BY <1>1, <1>2, <1>3
    DEF IInv, TypeOK, Answer, ResetIsComplete, WaitsOnlyWithoutQueue, StreamSound

\* ResetPlayer by itself, as in RESET and when the connection closes.
LEMMA ResetIInv ==
    ASSUME IInv, ResetPlayer(player), UNCHANGED <<waiting, callbacks, asked, faults>>,
           answer' \in Answer, closed' \in BOOLEAN
    PROVE  IInv'
  <1>1. /\ cache' = "null"
        /\ queue' = <<>>
        /\ ~playing'
        /\ playing' \in BOOLEAN
        /\ currentSong' = NoItem
        /\ player' \in Player
        /\ StreamSound(player')
        /\ player'.source \in {NoItem, player.source}
        /\ player'.leaked = player.leaked
        /\ "stop" \notin faults /\ cache # "null" => player'.source = NoItem
        /\ cache = "null" => player' = player
    BY PlayerKnown, ResetPlayerSound
  <1>2. queue' \in Seq(Item)
    BY <1>1, EmptySeq
  <1>3. StopsWork'
    BY <1>1 DEF IInv, StopsWork, StreamSound, ResetIsComplete
  <1>4. PlayingIsHeard'
    BY <1>1 DEF PlayingIsHeard
  <1> QED
    BY <1>1, <1>2, <1>3, <1>4
    DEF IInv, TypeOK, ResetIsComplete, WaitsOnlyWithoutQueue, StreamSound

LEMMA InitializeIInv ==
    ASSUME IInv, NEW reachable \in BOOLEAN, Initialize(reachable)
    PROVE  IInv'
  <1>1. /\ cache' = "set" /\ queue' = <<>>
        /\ callbacks' \in BOOLEAN
        /\ answer' \in Answer
        /\ UNCHANGED <<playing, waiting, currentSong, player, closed, faults>>
    BY DEF Initialize, Answer, IInv, TypeOK
  <1>2. asked' \in BOOLEAN /\ (asked => asked')
    <2>1. CASE reachable
      BY <2>1 DEF Initialize, AskUnlessEnough, IInv, TypeOK
    <2>2. CASE ~reachable
      BY <2>2 DEF Initialize, IInv, TypeOK
    <2> QED
      BY <2>1, <2>2
  <1>3. queue' \in Seq(Item)
    BY <1>1, EmptySeq
  <1>4. StopsWork' /\ PlayingIsHeard'
    BY <1>1, <1>2 DEF IInv, StopsWork, PlayingIsHeard
  <1> QED
    BY <1>1, <1>2, <1>3, <1>4
    DEF IInv, TypeOK, ResetIsComplete, WaitsOnlyWithoutQueue, StreamSound

LEMMA UpdateQueueNotSetIInv == IInv /\ UpdateQueueNotSet => IInv'
  <1> SUFFICES ASSUME IInv, UpdateQueueNotSet PROVE IInv'
    OBVIOUS
  <1>1. "stop" \notin faults => player.source = NoItem /\ player.ended = "no"
    BY DEF UpdateQueueNotSet, IInv, ResetIsComplete, StopsWork, StreamSound
  <1>2. StopsWork' /\ PlayingIsHeard'
    BY <1>1 DEF UpdateQueueNotSet, IInv, ResetIsComplete, StopsWork, PlayingIsHeard
  <1> QED
    BY <1>2 DEF UpdateQueueNotSet, IInv, TypeOK, Answer, ResetIsComplete,
                WaitsOnlyWithoutQueue, StreamSound

LEMMA UpdateQueueIInv ==
    ASSUME IInv, NEW q \in Queues, UpdateQueue(q)
    PROVE  IInv'
  <1>1. cache = "set" /\ answer' = "OK" /\ UNCHANGED <<callbacks, closed, faults>>
    BY DEF UpdateQueue
  <1>2. q \in Seq(Item)
    BY QueuesAssumption
  <1>3. CASE waiting
    <2>1. NextOnQueue(q, player, FALSE, FALSE)
      BY <1>3 DEF UpdateQueue
    <2>2. PartsOK'
      BY <1>1, <1>2, <2>1, PlayerKnown, NextOnQueueSound
    <2> QED
      BY <1>1, <2>2, IInvParts DEF IInv, TypeOK, Answer
  <1>4. CASE ~waiting
    <2>1. /\ queue' = q
          /\ asked' = (FALSE \/ Len(q) < Enough)
          /\ UNCHANGED <<cache, playing, waiting, currentSong, player>>
      BY <1>4 DEF UpdateQueue, AskUnlessEnough
    <2>2. asked' \in BOOLEAN
      BY <2>1
    <2>3. StopsWork' /\ PlayingIsHeard'
      BY <1>1, <1>4, <2>1 DEF IInv, StopsWork, PlayingIsHeard
    <2> QED
      BY <1>1, <1>2, <1>4, <2>1, <2>2, <2>3
      DEF IInv, TypeOK, Answer, ResetIsComplete, WaitsOnlyWithoutQueue, StreamSound
  <1> QED
    BY <1>3, <1>4

LEMMA PlaybackFinishedIInv == IInv /\ PlaybackFinished => IInv'
  <1> SUFFICES ASSUME IInv, PlaybackFinished PROVE IInv'
    OBVIOUS
  <1>1. player.source # NoItem /\ UNCHANGED <<callbacks, answer, closed, faults>>
    BY DEF PlaybackFinished
  <1>2. CASE ~callbacks
    <2>1. /\ player' = [player EXCEPT !.ended = "untold"]
          /\ UNCHANGED <<cache, queue, playing, waiting, currentSong, asked>>
      BY <1>2 DEF PlaybackFinished
    <2>2. player' \in Player /\ StreamSound(player')
      BY <1>1, <2>1, PlayerKnown DEF Player, StreamSound
    <2>3. StopsWork' /\ PlayingIsHeard'
      BY <1>1, <2>1, PlayerKnown DEF Player, IInv, StopsWork, PlayingIsHeard
    <2> QED
      BY <1>1, <2>1, <2>2, <2>3
      DEF IInv, TypeOK, ResetIsComplete, WaitsOnlyWithoutQueue, StreamSound
  <1>3. CASE callbacks
    <2> DEFINE p == [player EXCEPT !.ended = "told"]
    <2>1. /\ p \in Player
          /\ StreamSound(p)
          /\ p.source = player.source /\ p.leaked = player.leaked /\ p.status = player.status
      BY <1>1, PlayerKnown DEF Player, StreamSound
    <2>2. CASE cache = "set"
      <3>1. NextOnQueue(queue, p, waiting, asked)
        BY <1>3, <2>2 DEF PlaybackFinished
      <3> HIDE DEF p
      <3>2. PartsOK'
        BY <1>1, <2>1, <2>2, <3>1, PlayerKnown, NextOnQueueSound
      <3> QED
        BY <1>1, <3>2, IInvParts DEF IInv, TypeOK
    <2>3. CASE cache # "set"
      <3>1. player' = p /\ UNCHANGED <<cache, queue, playing, waiting, currentSong, asked>>
        BY <1>3, <2>3 DEF PlaybackFinished
      <3>2. currentSong = NoItem
        BY <2>3 DEF IInv, TypeOK, ResetIsComplete
      <3>3. "stop" \in faults
        BY <1>1, <3>2 DEF IInv, StopsWork
      <3> HIDE DEF p
      <3>4. StopsWork' /\ PlayingIsHeard'
        BY <1>1, <3>1, <3>2, <3>3 DEF StopsWork, PlayingIsHeard
      <3> QED
        BY <1>1, <2>1, <3>1, <3>4
        DEF IInv, TypeOK, ResetIsComplete, WaitsOnlyWithoutQueue, StreamSound
    <2> QED
      BY <2>2, <2>3
  <1> QED
    BY <1>2, <1>3

LEMMA NextIInv == IInv /\ [Next]_vars => IInv'
  <1> SUFFICES ASSUME IInv, [Next]_vars PROVE IInv'
    OBVIOUS
  <1>1. CASE NotSet
    BY <1>1, RefusedIInv DEF NotSet, Answer
  <1>2. CASE Malformed
    BY <1>2, RefusedIInv DEF Malformed, Answer
  <1>3. CASE Volume
    BY <1>3, RefusedIInv DEF Volume, Answer
  <1>4. CASE PlayCurrent
    BY <1>4, PlayCurrentIInv
  <1>5. CASE PlayFirst
    BY <1>5, PlayFirstIInv
  <1>6. CASE Pause
    BY <1>6, PauseIInv
  <1>7. CASE NextAction
    <2>1. /\ cache = "set" /\ NextOnQueue(queue, player, waiting, asked)
          /\ answer' \in Answer /\ UNCHANGED <<callbacks, closed, faults>>
      BY <1>7 DEF NextAction, NextCode, Answer
    <2>2. PartsOK'
      BY <2>1, PlayerKnown, NextOnQueueSound
    <2> QED
      BY <2>1, <2>2, IInvParts DEF IInv, TypeOK
  <1>8. CASE ResetAction
    BY <1>8, ResetIInv DEF ResetAction, Answer, IInv, TypeOK
  <1>9. ASSUME NEW reachable \in BOOLEAN, Initialize(reachable) PROVE IInv'
    BY <1>9, InitializeIInv
  <1>10. CASE UpdateQueueNotSet
    BY <1>10, UpdateQueueNotSetIInv
  <1>11. ASSUME NEW q \in Queues, UpdateQueue(q) PROVE IInv'
    BY <1>11, UpdateQueueIInv
  <1>12. CASE PlaybackFinished
    BY <1>12, PlaybackFinishedIInv
  <1>13. CASE OnClose
    BY <1>13, ResetIInv DEF OnClose, IInv, TypeOK
  <1>14. CASE UNCHANGED vars
    BY <1>14 DEF vars, IInv, TypeOK, ResetIsComplete, WaitsOnlyWithoutQueue, StreamSound,
                 StopsWork, PlayingIsHeard
  <1> QED
    BY <1>1, <1>2, <1>3, <1>4, <1>5, <1>6, <1>7, <1>8, <1>9, <1>10, <1>11, <1>12, <1>13,
       <1>14 DEF Next

LEMMA AlwaysIInv == Spec => []IInv
  BY InitIInv, NextIInv, PTL DEF Spec
-------------------------------------------------------------------------------
\* The session's state keeps its types.
THEOREM TypeCorrect == Spec => []TypeOK
  BY AlwaysIInv, PTL DEF IInv

\* A session without a file server has nothing left of the last one, whatever
\* PortAudio and the decoder do.
THEOREM ResetAlwaysComplete == Spec => []ResetIsComplete
  BY AlwaysIInv, PTL DEF IInv

\* The player never reads a song the session has let go, if streams can be
\* stopped.
THEOREM NeverDangling == Spec => []NoDanglingStream
  <1>1. IInv => NoDanglingStream
    BY DEF IInv, StopsWork, NoDanglingStream
  <1> QED
    BY <1>1, AlwaysIInv, PTL

\* waitingForQueue_ never outlives the queue it waits for.
THEOREM WaitingHasNoQueue == Spec => []WaitsOnlyWithoutQueue
  BY AlwaysIInv, PTL DEF IInv

\* A manager whose music has stopped has been asked for songs.
THEOREM NeverSilentUnasked == Spec => []NeverSilent
  <1>1. IInv => NeverSilent
    BY DEF IInv, StopsWork, NeverSilent
  <1> QED
    BY <1>1, AlwaysIInv, PTL

\* What the manager asked for is what is heard.
THEOREM PlayingAlwaysHeard == Spec => []PlayingIsHeard
  BY AlwaysIInv, PTL DEF IInv

\* A step of NextAction starts a song only while the manager wants it.
LEMMA NextOnQueueAsked ==
    ASSUME TypeOK, ResetIsComplete, NEW q \in Seq(Item), NEW p \in Player, StreamSound(p),
           p.source = player.source, NEW w, NEW a,
           NextOnQueue(q, p, w, a)
    PROVE  Sounding(player') /\ player'.source # player.source => playing'
  <1>1. CASE OpenNextSong(q, p, playing) /\ UNCHANGED playing
    <2>1. playing \in BOOLEAN
      BY DEF TypeOK
    <2> QED
      BY <1>1, <2>1, OpenNextSongSound
  <1>2. CASE QueueEmpty(p, a)
    BY <1>2 DEF QueueEmpty
  <1>3. CASE Disconnected(q, p)
    <2>1. player'.source \in {NoItem, p.source}
      BY <1>3, ResetPlayerSound DEF Disconnected
    <2> QED
      BY <2>1 DEF Sounding
  <1> QED
    BY <1>1, <1>2, <1>3 DEF NextOnQueue

LEMMA NextAsked ==
    ASSUME IInv, [Next]_vars
    PROVE  Sounding(player') /\ player'.source # player.source => playing'
  <1> DEFINE A == Sounding(player') /\ player'.source # player.source => playing'
  <1>1. CASE player' = player
    BY <1>1
  <1>2. CASE PlayCurrent
    BY <1>2 DEF PlayCurrent
  <1>3. CASE PlayFirst
    <2>1. CASE playing'
      BY <2>1
    <2>2. CASE Disconnected(queue, player) /\ UNCHANGED <<waiting, asked>>
      <3>1. NextOnQueue(queue, player, waiting, asked)
        BY <2>2 DEF NextOnQueue
      <3> QED
        BY <3>1, PlayerKnown, NextOnQueueAsked
    <2> QED
      BY <1>3, <2>1, <2>2 DEF PlayFirst
  <1>4. CASE Pause
    <2>1. player'.source = player.source
      BY <1>4, PlayerKnown, PauseOfSound DEF Pause
    <2> QED
      BY <2>1
  <1>5. CASE NextAction
    BY <1>5, PlayerKnown, NextOnQueueAsked DEF NextAction
  <1>6. CASE ResetPlayer(player)
    <2>1. player'.source \in {NoItem, player.source}
      BY <1>6, PlayerKnown, ResetPlayerSound
    <2> QED
      BY <2>1 DEF Sounding
  <1>7. ASSUME NEW q \in Queues, UpdateQueue(q), player' # player PROVE A
    <2>1. NextOnQueue(q, player, FALSE, FALSE)
      BY <1>7 DEF UpdateQueue
    <2>2. q \in Seq(Item)
      BY QueuesAssumption
    <2> QED
      BY <2>1, <2>2, PlayerKnown, NextOnQueueAsked
  <1>8. CASE PlaybackFinished
    <2> DEFINE p == [player EXCEPT !.ended = "told"]
    <2>1. /\ p \in Player
          /\ StreamSound(p)
          /\ p.source = player.source
          /\ [player EXCEPT !.ended = "untold"].source = player.source
      BY <1>8, PlayerKnown DEF PlaybackFinished, Player, StreamSound
    <2>2. \/ player' \in {p, [player EXCEPT !.ended = "untold"]}
          \/ NextOnQueue(queue, p, waiting, asked)
      BY <1>8 DEF PlaybackFinished
    <2> HIDE DEF p
    <2>3. CASE NextOnQueue(queue, p, waiting, asked)
      BY <2>1, <2>3, PlayerKnown, NextOnQueueAsked
    <2> QED
      BY <2>1, <2>2, <2>3
  <1> QED
    BY <1>1, <1>2, <1>3, <1>4, <1>5, <1>6, <1>7, <1>8
    DEF Next, NotSet, Malformed, Volume, Refused, ResetAction, Initialize, UpdateQueueNotSet,
        OnClose, vars

\* Sound starts only while the manager wants it.
THEOREM NeverUnaskedSound == Spec => NoUnaskedSound
  BY AlwaysIInv, NextAsked, PTL DEF Spec, NoUnaskedSound
===============================================================================
