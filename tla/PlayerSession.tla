----------------------------- MODULE PlayerSession -----------------------------
(***************************************************************************)
(* What a session of the player server does for its manager (the web app   *)
(* on the other end of the websocket): the request handlers of             *)
(* MusicPlayer::Session (JukeItApp/MusicPlayerAPI.cc 227-441), the player  *)
(* they drive (MusicPlayer.cc) and the song that ends by itself.           *)
(*                                                                         *)
(* One request is one step, as the strand runs one handler at a time; the  *)
(* playback-finished callback, which runs NextAction on the PortAudio      *)
(* thread, is a step between two handlers.  NextSong is the abstract one   *)
(* of SongSource: it drops any number of heads (songs that had failed, or  *)
(* were still being downloaded) and answers with the next one, with        *)
(* "empty" or with "the file server is gone".  How messages travel is in   *)
(* SessionLoop.                                                            *)
(***************************************************************************)
EXTENDS Integers, Sequences

CONSTANTS Item,     \* itemIds
          NoItem,   \* no song
          Queues,   \* the queues a manager may send
          Enough    \* HasEnoughSongs: 3 in the code

ASSUME ItemAssumption == NoItem \notin Item
ASSUME QueuesAssumption == Queues \subseteq Seq(Item)
ASSUME EnoughAssumption == Enough \in Nat \ {0}

VARIABLES cache,        \* cache_: "null" or "set"
          queue,        \* the queue inside cache_
          playing,      \* playing_: what the manager asked for
          waiting,      \* waitingForQueue_
          currentSong,  \* currentSong_
          player,       \* player_._streamInfo
          callbacks,    \* have the player's two callbacks been set?
          answer,       \* the code of the last response
          asked,        \* REQUESTPLAYLIST sent, no UPDATEQUEUE processed since
          closed,       \* closed_
          faults        \* the PortAudio and decoder calls that may fail: fixed

vars == <<cache, queue, playing, waiting, currentSong, player, callbacks,
          answer, asked, closed, faults>>

Fault == {"open", "start", "stop"}

Answer == {"none", "OK", "MALFORMED_REQUEST", "FILESERVER_NOT_SET", "FILESERVER_UNREACHABLE"}

\* "other" is what an uninitialised status may hold besides the four values.
Status == {"OPEN", "EMPTY", "PLAYING", "PAUSED", "other"}

\* source: the song the open PortAudio stream reads, NoItem without a stream;
\* ended: has the stream met the end of its song, and was the session told;
\* leaked: songs read by streams that were started and never stopped.
Player == [status : Status, source : Item \cup {NoItem},
           ended : {"no", "told", "untold"}, leaked : SUBSET Item]

\* The constructor leaves _streamInfo.status uninitialised.
Init ==
    /\ cache = "null"
    /\ queue = <<>>
    /\ playing = FALSE
    /\ waiting = FALSE
    /\ currentSong = NoItem
    /\ \E s \in Status :
          player = [status |-> s, source |-> NoItem, ended |-> "no", leaked |-> {}]
    /\ callbacks = FALSE
    /\ answer = "none"
    /\ asked = FALSE
    /\ closed = FALSE
    /\ faults \in SUBSET Fault
-------------------------------------------------------------------------------
(* The player's operations: the states each may leave player p in. *)

\* Pa_StopStream fails without a stream (the pointer is garbage then).
PauseOf(p) ==
    IF p.status # "PLAYING" THEN {p}
    ELSE (IF p.source # NoItem THEN {[p EXCEPT !.status = "PAUSED"]} ELSE {p})
             \cup (IF "stop" \in faults THEN {p} ELSE {})

\* A mistake in CloseOf: the stream is closed but no longer counts as empty.
CloseToNewStatus(p) ==
    {IF c.status \in {"PAUSED", "OPEN"}
     THEN [c EXCEPT !.status = "CLOSED", !.source = NoItem, !.ended = "no"]
     ELSE c : c \in PauseOf(p)}

\* A player that could not be paused is not cleaned up.
CloseOf(p) ==
    {IF c.status \in {"PAUSED", "OPEN"}
     THEN [c EXCEPT !.status = "EMPTY", !.source = NoItem, !.ended = "no"]
     ELSE c : c \in PauseOf(p)}

\* Open goes on when Close has not stopped the old stream, and returns early,
\* saying nothing, when the data cannot be decoded or played.
OpenOf(p, song) ==
    LET opened(c) == [status |-> "OPEN", source |-> song, ended |-> "no",
                      leaked |-> IF c.source = NoItem THEN c.leaked
                                 ELSE c.leaked \cup {c.source}]
        closedOnes == IF p.status = "EMPTY" THEN {p} ELSE CloseOf(p)
    IN  {opened(c) : c \in closedOnes} \cup (IF "open" \in faults THEN closedOnes ELSE {})

PlayOf(p) ==
    IF p.status \in {"OPEN", "PAUSED"}
    THEN {[p EXCEPT !.status = "PLAYING", !.ended = "no"]}
             \cup (IF "start" \in faults THEN {p} ELSE {})
    ELSE {p}
-------------------------------------------------------------------------------
(* Helpers of the session. *)

\* RequestPlaylistSong and the test in UpdateQueueAction.
AskUnlessEnough(q, before) == asked' = (before \/ Len(q) < Enough)

\* Mistakes in ResetPlayer: the player is not closed; the flag is kept.
ResetWithoutClose(p) ==
    /\ cache' = "null"
    /\ queue' = <<>>
    /\ player' = p
    /\ IF cache = "null"
       THEN UNCHANGED <<playing, currentSong>>
       ELSE playing' = FALSE /\ currentSong' = NoItem

ResetKeepsPlaying(p) ==
    /\ cache' = "null"
    /\ queue' = <<>>
    /\ UNCHANGED playing
    /\ IF cache = "null"
       THEN player' = p /\ UNCHANGED currentSong
       ELSE player' \in CloseOf(p) /\ currentSong' = NoItem

\* With the player in state p.
ResetPlayer(p) ==
    /\ cache' = "null"
    /\ queue' = <<>>
    /\ IF cache = "null"
       THEN player' = p /\ UNCHANGED <<playing, currentSong>>
       ELSE player' \in CloseOf(p) /\ playing' = FALSE /\ currentSong' = NoItem

\* A mistake in OpenNextSong: the song is started whatever the manager wants.
OpenAndPlay(q, p, start) ==
    \E k \in DOMAIN q :
        /\ queue' = SubSeq(q, k + 1, Len(q))
        /\ currentSong' = q[k]
        /\ \E opened \in OpenOf(p, q[k]) : player' \in PlayOf(opened)

\* OpenNextSong on queue q finds a song; start: the caller then calls Play.
OpenNextSong(q, p, start) ==
    \E k \in DOMAIN q :
        /\ queue' = SubSeq(q, k + 1, Len(q))
        /\ currentSong' = q[k]
        /\ \E opened \in OpenOf(p, q[k]) :
              player' \in IF start THEN PlayOf(opened) ELSE {opened}

\* A mistake in QueueEmpty: the manager is not asked.
QueueEmptyUnasked(p, before) ==
    /\ queue' = <<>>
    /\ waiting' = TRUE
    /\ asked' = before
    /\ player' = p
    /\ UNCHANGED <<cache, currentSong>>

\* OpenNextSong ends with EmptyQueueException, after dropping the whole queue.
QueueEmpty(p, before) ==
    /\ queue' = <<>>
    /\ waiting' = TRUE
    /\ AskUnlessEnough(<<>>, before)
    /\ player' = p
    /\ UNCHANGED <<cache, currentSong>>

\* OpenNextSong ends with FileserverDisconnectedException.
Disconnected(q, p) == q # <<>> /\ ResetPlayer(p)

\* NextAction on queue q and player p, with w in waitingForQueue_ and a in
\* asked before it.
NextOnQueue(q, p, w, a) ==
    \/ /\ OpenNextSong(q, p, playing)
       /\ waiting' = w
       /\ asked' = a
       /\ UNCHANGED <<cache, playing>>
    \/ /\ QueueEmpty(p, a)
       /\ UNCHANGED playing
    \/ /\ Disconnected(q, p)
       /\ waiting' = w
       /\ asked' = a

\* The code of a NextAction that is over.
NextCode == IF cache' = "null" THEN "FILESERVER_NOT_SET" ELSE "OK"

Refused(code) ==
    /\ answer' = code
    /\ UNCHANGED <<cache, queue, playing, waiting, currentSong, player, callbacks, asked,
                   closed, faults>>
-------------------------------------------------------------------------------
(* The requests of the manager. *)

\* PLAY, NEXT and PAUSE before INITIALIZE.
NotSet ==
    /\ ~closed
    /\ cache = "null"
    /\ Refused("FILESERVER_NOT_SET")

\* INITIALIZE or VOLUME with bad parameters, UPDATEQUEUE with bad entries.
Malformed ==
    /\ ~closed
    /\ Refused("MALFORMED_REQUEST")

\* VOLUME in range (the volume itself is not modelled), and INITIALIZE,
\* UPDATEQUEUE or VOLUME without parameters, which do nothing and are answered OK.
Volume ==
    /\ ~closed
    /\ Refused("OK")

\* PLAY with a song open.
PlayCurrent ==
    /\ ~closed
    /\ cache = "set"
    /\ currentSong # NoItem
    /\ playing' = TRUE
    /\ player' \in IF playing THEN {player} ELSE PlayOf(player)
    /\ answer' = "OK"
    /\ UNCHANGED <<cache, queue, waiting, currentSong, callbacks, asked, closed, faults>>

\* PLAY with no song yet.
PlayFirst ==
    /\ ~closed
    /\ cache = "set"
    /\ currentSong = NoItem
    /\ \/ /\ OpenNextSong(queue, player, ~playing)
          /\ playing' = TRUE
          /\ UNCHANGED <<cache, waiting, asked>>
       \/ /\ QueueEmpty(player, asked)
          /\ playing' = TRUE
       \/ /\ Disconnected(queue, player)
          /\ UNCHANGED <<waiting, asked>>
    /\ answer' = NextCode
    /\ UNCHANGED <<callbacks, closed, faults>>

\* A mistake in Pause: playing_ is kept.
PauseKeepsPlaying ==
    /\ ~closed
    /\ cache = "set"
    /\ player' \in PauseOf(player)
    /\ answer' = "OK"
    /\ UNCHANGED <<cache, queue, playing, waiting, currentSong, callbacks, asked, closed, faults>>

Pause ==
    /\ ~closed
    /\ cache = "set"
    /\ player' \in PauseOf(player)
    /\ playing' = FALSE
    /\ answer' = "OK"
    /\ UNCHANGED <<cache, queue, waiting, currentSong, callbacks, asked, closed, faults>>

NextAction ==
    /\ ~closed
    /\ cache = "set"
    /\ NextOnQueue(queue, player, waiting, asked)
    /\ answer' = NextCode
    /\ UNCHANGED <<callbacks, closed, faults>>

ResetAction ==
    /\ ~closed
    /\ ResetPlayer(player)
    /\ answer' = "OK"
    /\ UNCHANGED <<waiting, callbacks, asked, closed, faults>>

\* The new cache replaces the old one before the file server is tried, and
\* stays when it does not answer.
Initialize(reachable) ==
    /\ ~closed
    /\ cache' = "set"
    /\ queue' = <<>>
    /\ IF reachable
       THEN /\ callbacks' = TRUE
            /\ AskUnlessEnough(<<>>, asked)
            /\ answer' = "OK"
       ELSE /\ answer' = "FILESERVER_UNREACHABLE"
            /\ UNCHANGED <<callbacks, asked>>
    /\ UNCHANGED <<playing, waiting, currentSong, player, closed, faults>>

\* UPDATEQUEUE before INITIALIZE: the queue is not kept.
UpdateQueueNotSet ==
    /\ ~closed
    /\ cache = "null"
    /\ answer' = "FILESERVER_NOT_SET"
    /\ asked' = FALSE
    /\ UNCHANGED <<cache, queue, playing, waiting, currentSong, player, callbacks, closed,
                   faults>>

\* A mistake in UpdateQueue: the session goes on waiting.
UpdateQueueStillWaits(q) ==
    /\ ~closed
    /\ cache = "set"
    /\ IF waiting
       THEN NextOnQueue(q, player, TRUE, FALSE)
       ELSE /\ queue' = q
            /\ AskUnlessEnough(q, FALSE)
            /\ UNCHANGED <<cache, playing, waiting, currentSong, player>>
    /\ answer' = "OK"
    /\ UNCHANGED <<callbacks, closed, faults>>

\* UPDATEQUEUE answers OK whatever becomes of the NextAction inside it.
UpdateQueue(q) ==
    /\ ~closed
    /\ cache = "set"
    /\ IF waiting
       THEN NextOnQueue(q, player, FALSE, FALSE)
       ELSE /\ queue' = q
            /\ AskUnlessEnough(q, FALSE)
            /\ UNCHANGED <<cache, playing, waiting, currentSong, player>>
    /\ answer' = "OK"
    /\ UNCHANGED <<callbacks, closed, faults>>
-------------------------------------------------------------------------------
(* What happens by itself. *)

\* The decoder meets the end of the song; the callback is NextAction.
PlaybackFinished ==
    /\ player.status = "PLAYING"
    /\ player.source # NoItem
    /\ player.ended = "no"
    /\ IF ~callbacks
       THEN /\ player' = [player EXCEPT !.ended = "untold"]
            /\ UNCHANGED <<cache, queue, playing, waiting, currentSong, asked>>
       ELSE LET p == [player EXCEPT !.ended = "told"]
            IN  IF cache = "set"
                THEN NextOnQueue(queue, p, waiting, asked)
                ELSE /\ player' = p
                     /\ UNCHANGED <<cache, queue, playing, waiting, currentSong, asked>>
    /\ UNCHANGED <<callbacks, answer, closed, faults>>

\* The connection is closed by either side; OnClose may run twice.
OnClose ==
    /\ ResetPlayer(player)
    /\ closed' = TRUE
    /\ UNCHANGED <<waiting, callbacks, answer, asked, faults>>
-------------------------------------------------------------------------------
Next ==
    \/ NotSet \/ Malformed \/ Volume
    \/ PlayCurrent \/ PlayFirst \/ Pause \/ NextAction \/ ResetAction
    \/ \E reachable \in BOOLEAN : Initialize(reachable)
    \/ UpdateQueueNotSet
    \/ \E q \in Queues : UpdateQueue(q)
    \/ PlaybackFinished
    \/ OnClose

Spec == Init /\ [][Next]_vars
-------------------------------------------------------------------------------
TypeOK ==
    /\ cache \in {"null", "set"}
    /\ queue \in Seq(Item)
    /\ playing \in BOOLEAN
    /\ waiting \in BOOLEAN
    /\ currentSong \in Item \cup {NoItem}
    /\ player \in Player
    /\ callbacks \in BOOLEAN
    /\ answer \in Answer
    /\ asked \in BOOLEAN
    /\ closed \in BOOLEAN
    /\ faults \subseteq Fault

\* Without a file server nothing is left of the last one: no song, no queue,
\* and the manager's PLAY is forgotten.  Close, RESET, a lost file server and
\* a lost connection all come to this, from any state.
ResetIsComplete ==
    cache = "null" => ~playing /\ currentSong = NoItem /\ queue = <<>>

\* Every stream PortAudio may be running reads the song the session keeps
\* alive in currentSong_; the song's memory is freed with the last pointer.
\* This takes a PortAudio that can stop its streams.
NoDanglingStream ==
    "stop" \notin faults =>
        {player.source} \cup player.leaked \subseteq {NoItem, currentSong}

\* The session waits for a queue only while it has none, so an UPDATEQUEUE it
\* was waiting for never throws away songs that could have been played, not
\* even when the flag outlives the reset of the player that set it.
WaitsOnlyWithoutQueue == waiting => queue = <<>>

\* Whenever the manager has asked for music and none is coming (no song is
\* open, or the song has ended and the session was told), the session waits
\* for a queue and the manager has a request for one to answer.  This takes a
\* PortAudio that can stop the stream of a song that is replaced.
NeverSilent ==
    /\ "stop" \notin faults
    /\ playing
    /\ currentSong = NoItem \/ player.ended = "told"
    => waiting /\ asked

\* What the manager asked for is what is heard: with a song, the player is
\* started exactly when playing_ says so, if PortAudio and the decoder work.
PlayingIsHeard ==
    faults = {} /\ currentSong # NoItem =>
        /\ player.source = currentSong
        /\ player.status = "PLAYING" <=> playing

\* Sound starts only while the manager wants it: a song opened by a late
\* UPDATEQUEUE, by NEXT or by the end of the last one stays silent when the
\* manager has paused or reset the player meanwhile.
Sounding(p) == p.status = "PLAYING" /\ p.source # NoItem
NoUnaskedSound == [][Sounding(player') /\ player'.source # player.source => playing']_vars
===============================================================================
