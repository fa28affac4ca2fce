------------------------------- MODULE WebPlayer -------------------------------
(***************************************************************************)
(* The web app as the manager of a player: its websockets                  *)
(* (JukeItWeb/app/actions/playerActions.js, reducers/playerReducer.js),    *)
(* the queues it keeps (playbackActions.js, playbackReducer.js), the strip *)
(* that sends them to the player while it is visible                       *)
(* (containers/PlayerStrip), and log out (loginActions.js), together with  *)
(* what a session of the player server does with a queue                   *)
(* (JukeItApp/MusicPlayerAPI.cc, in detail in PlayerSession).              *)
(*                                                                         *)
(* The web app is one thread: a step is one event with everything it       *)
(* dispatches.  The strip runs inside each dispatch of a message's         *)
(* handler, so that each change of the queues is sent; the dispatches of   *)
(* a click are rendered together, and one update is sent for all.          *)
(*                                                                         *)
(* A song is its queue item, a number given once.  What the buttons show   *)
(* (PLAY, PAUSE, STATUS, volume, time) is left out, and so are requests    *)
(* and responses that change nothing else.                                 *)
(***************************************************************************)
EXTENDS Integers, Sequences, FiniteSets

CONSTANTS MaxSockets,  \* bound: websockets opened
          MaxActs,     \* bound: what users and guests do, and what goes wrong
          MinQueue,    \* minimumQueueSize: 5 in the code
          Enough       \* HasEnoughSongs of the player: 3 in the code

ASSUME WebAssumption ==
    MaxSockets \in Nat /\ MaxActs \in Nat /\ MinQueue \in Nat /\ Enough \in Nat \ {0}

VARIABLES account,      \* "in", "leaving" (signOut not resolved yet) or "out"
          playlist,     \* activePlaylist: "none", "empty" or "songs"
          uploading,    \* is an uploaded library on its way to become the playlist?
          queues,       \* priorityQueue, orderQueue, playlistQueue
          removing,     \* items of the order queue being removed from firebase
          made,         \* the last number given to an item
          webSocket,    \* the socket in the store, 0 for null
          connected,    \* playerConnected
          initialized,  \* initialized: is the strip visible?
          shown,        \* queueKey: the item of the current song, 0 for null
          state,        \* the websockets
          up, down,     \* what each carries to the player, and back
          session,      \* the player's session on each
          orphans,      \* history: live sockets the store has forgotten
          acts          \* how much has been done, for the bound

store == <<account, playlist, uploading, queues, removing, made>>
player == <<webSocket, connected, initialized, shown>>
wire == <<state, up, down, session, orphans>>
vars == <<store, player, wire, acts>>

Sockets == 1..MaxSockets
None == 0
Live == {"connecting", "open"}

NewSession == [cache |-> FALSE, queue |-> <<>>, waiting |-> FALSE, playing |-> FALSE,
               song |-> "none"]

NoQueues == [priority |-> <<>>, order |-> <<>>, list |-> <<>>]

Init ==
    /\ account = "in"
    /\ playlist = "none"
    /\ uploading = FALSE
    /\ queues = NoQueues
    /\ removing = {}
    /\ made = 0
    /\ webSocket = None
    /\ connected = FALSE
    /\ initialized = FALSE
    /\ shown = None
    /\ state = [s \in Sockets |-> "unused"]
    /\ up = [s \in Sockets |-> <<>>]
    /\ down = [s \in Sockets |-> <<>>]
    /\ session = [s \in Sockets |-> NewSession]
    /\ orphans = {}
    /\ acts = 0

Count(n) == acts + n <= MaxActs /\ acts' = acts + n

Act == Count(1)
-------------------------------------------------------------------------------
(* The queues. *)

Items(s) == {s[i] : i \in DOMAIN s}

All(q) == q.priority \o q.order \o q.list

\* splice takes out the first element that is item, if there is one.
First(s, item) ==
    CHOOSE k \in DOMAIN s : s[k] = item /\ \A j \in 1..k - 1 : s[j] # item

Without(s, item) ==
    IF item \in Items(s)
    THEN LET k == First(s, item)
         IN  [i \in 1..Len(s) - 1 |-> IF i < k THEN s[i] ELSE s[i + 1]]
    ELSE s

\* PLAYBACK_REMOVE_QUEUE_ITEM, for an item that is not in the order queue.
Removed(q, item) ==
    IF item \in Items(q.priority)
    THEN [q EXCEPT !.priority = Without(@, item)]
    ELSE [q EXCEPT !.list = Without(@, item)]

Missing(q) == IF Len(All(q)) < MinQueue THEN MinQueue - Len(All(q)) ELSE 0

\* The states maintainPlaylistQueue takes the queues q through, song by song.
Maintained(q) ==
    IF playlist = "songs"
    THEN [k \in 1..Missing(q) |-> [q EXCEPT !.list = @ \o [j \in 1..k |-> made + j]]]
    ELSE <<>>

\* Without songs it calls itself until the stack is full; the exception ends
\* the handler.
Runaway(q) == playlist # "songs" /\ Missing(q) > 0

Last(steps) == IF steps = <<>> THEN queues ELSE steps[Len(steps)]
-------------------------------------------------------------------------------
(* The websocket. *)

\* WebSocket.send: an exception while connecting, nothing once closing.
Send(messages) ==
    up' = IF webSocket # None /\ state[webSocket] = "open"
          THEN [up EXCEPT ![webSocket] = @ \o messages] ELSE up

UpdateQueue(q) == [type |-> "UPDATEQUEUE", queue |-> All(q)]

\* Mistake in Changes: the strip looks at the length of the queues only.
ChangesOfLength(steps) ==
    /\ queues' = Last(steps)
    /\ Send(IF initialized /\ Len(All(Last(steps))) # Len(All(queues))
            THEN [k \in DOMAIN steps |-> UpdateQueue(steps[k])] ELSE <<>>)

\* The queues go through steps while the strip, if visible, sends each.
Changes(steps) ==
    /\ queues' = Last(steps)
    /\ Send(IF initialized THEN [k \in DOMAIN steps |-> UpdateQueue(steps[k])] ELSE <<>>)

\* Mistakes in SetWebsocket: the old socket is not closed; the flag is kept.
SetWebsocketUnclosed(new, states) ==
    /\ state' = states
    /\ webSocket' = new
    /\ initialized' = FALSE

SetWebsocketInitialized(new, states) ==
    /\ state' = IF webSocket # None /\ states[webSocket] \in Live
                THEN [states EXCEPT ![webSocket] = "closing"] ELSE states
    /\ webSocket' = new
    /\ UNCHANGED initialized

\* setWebsocket, the sockets being in states: the one in the store is closed.
SetWebsocket(new, states) ==
    /\ state' = IF webSocket # None /\ states[webSocket] \in Live
                THEN [states EXCEPT ![webSocket] = "closing"] ELSE states
    /\ webSocket' = new
    /\ initialized' = FALSE

Connect ==
    /\ account = "in"
    /\ \E s \in Sockets :
          /\ state[s] = "unused"
          /\ \A r \in Sockets : r < s => state[r] # "unused"
          /\ SetWebsocket(s, [state EXCEPT ![s] = "connecting"])
    /\ UNCHANGED <<store, connected, shown, up, down, session, orphans, acts>>

OnOpen(s) ==
    /\ state[s] = "connecting"
    /\ state' = [state EXCEPT ![s] = "open"]
    /\ connected' = TRUE
    /\ UNCHANGED <<store, webSocket, initialized, shown, up, down, session, orphans, acts>>

\* Mistake in OnClose: the store's socket is kept if it is another one.
OnCloseOfOwn(s) ==
    /\ state[s] \in {"connecting", "open", "closing"}
    /\ connected' = FALSE
    /\ IF webSocket = s
       THEN SetWebsocket(None, [state EXCEPT ![s] = "closed"])
       ELSE state' = [state EXCEPT ![s] = "closed"] /\ UNCHANGED <<webSocket, initialized>>
    /\ shown' = None
    /\ up' = [up EXCEPT ![s] = <<>>]
    /\ down' = [down EXCEPT ![s] = <<>>]
    /\ session' = [session EXCEPT ![s] = NewSession]
    /\ UNCHANGED <<store, orphans, acts>>

\* A connection refused, lost or closed: its onclose closes whatever socket is
\* in the store.
OnClose(s) ==
    /\ state[s] \in {"connecting", "open", "closing"}
    /\ connected' = FALSE
    /\ SetWebsocket(None, [state EXCEPT ![s] = "closed"])
    /\ shown' = None
    /\ up' = [up EXCEPT ![s] = <<>>]
    /\ down' = [down EXCEPT ![s] = <<>>]
    /\ session' = [session EXCEPT ![s] = NewSession]
    /\ UNCHANGED <<store, orphans, acts>>

Closed(states) ==
    IF connected /\ webSocket # None /\ states[webSocket] \in Live
    THEN [states EXCEPT ![webSocket] = "closing"] ELSE states

Disconnect ==
    /\ account = "in"
    /\ connected
    /\ state' = Closed(state)
    /\ UNCHANGED <<store, player, up, down, session, orphans, acts>>
-------------------------------------------------------------------------------
(* What the user does. *)

\* initializePlayer, behind the button of a page that shows a playlist.
StartPlayback ==
    /\ Act
    /\ account = "in" /\ playlist # "none"
    /\ connected /\ ~initialized
    /\ Send(<<[type |-> "INITIALIZE"]>>)
    /\ UNCHANGED <<store, player, state, down, session, orphans>>

\* resetPlayer and then messages: the player is reset by the answer to RESET,
\* or at once if it is not initialized.
ResetPlayer(messages) ==
    /\ IF webSocket # None /\ initialized
       THEN Send(<<[type |-> "RESET"]>> \o messages) /\ UNCHANGED <<initialized, shown>>
       ELSE initialized' = FALSE /\ shown' = None /\ UNCHANGED up
    /\ UNCHANGED <<webSocket, connected>>

StopPlayback ==
    /\ Act
    /\ account = "in"
    /\ ResetPlayer(<<>>)
    /\ UNCHANGED <<store, state, down, session, orphans>>

\* The buttons of the strip.
Press ==
    /\ Act
    /\ initialized
    /\ \E button \in {"PLAY", "NEXT"} : Send(<<[type |-> button]>>)
    /\ UNCHANGED <<store, player, state, down, session, orphans>>

AddItem ==
    /\ Act
    /\ account = "in" /\ playlist = "songs"
    /\ made' = made + 1
    /\ \E place \in {"priority", "list"} :
          Changes(<<[queues EXCEPT ![place] = Append(@, made + 1)]>>)
    /\ UNCHANGED <<account, playlist, uploading, removing, player, state, down, session, orphans>>

\* removeQueueItem by a click: one update is sent, for the last state.
RemoveItem ==
    /\ Act
    /\ account = "in" /\ playlist # "none"
    /\ \E item \in Items(All(queues)) :
          IF item \in Items(queues.order)
          THEN /\ removing' = removing \cup {item}
               /\ UNCHANGED <<queues, made, up>>
          ELSE LET q == Removed(queues, item)
                   steps == <<q>> \o Maintained(q)
               IN  /\ Changes(<<steps[Len(steps)]>>)
                   /\ made' = made + Len(steps) - 1
                   /\ UNCHANGED removing
    /\ UNCHANGED <<account, playlist, uploading, player, state, down, session, orphans>>

\* removePlaylist, by a click: what it changes but the player and firebase.
NoPlaylist == [queues EXCEPT !.list = <<>>]

\* removePlaylist: behind a button shown while the player is not initialized,
\* and whenever another list is chosen to be played, which is then uploaded.
RemovePlaylist ==
    /\ Act
    /\ account = "in"
    /\ \E chosen \in BOOLEAN :
          /\ chosen \/ (playlist # "none" /\ ~initialized)
          /\ uploading' = (uploading \/ chosen)
    /\ ResetPlayer(IF queues.list = <<>> THEN <<>> ELSE <<UpdateQueue(NoPlaylist)>>)
    /\ queues' = NoPlaylist
    /\ removing' = Items(queues.order)
    /\ playlist' = "none"
    /\ UNCHANGED <<account, made, state, down, session, orphans>>

PlaylistChanged ==
    /\ uploading
    /\ uploading' = FALSE
    /\ playlist' \in {"empty", "songs"}
    /\ UNCHANGED <<account, queues, removing, made, player, wire, acts>>

\* Mistake in LogOut: the listeners of firebase stay.
LogOutListening ==
    /\ Act
    /\ account = "in"
    /\ account' = "leaving"
    /\ ResetPlayer(<<>>)
    /\ queues' = NoPlaylist
    /\ playlist' = "none"
    /\ state' = Closed(state)
    /\ UNCHANGED <<uploading, removing, made, down, session, orphans>>

\* logOut: the listeners of firebase go first, then the playlist, then the
\* connection, if there is one already.
LogOut ==
    /\ Act
    /\ account = "in"
    /\ account' = "leaving"
    /\ ResetPlayer(<<>>)
    /\ queues' = NoPlaylist
    /\ removing' = {}
    /\ playlist' = "none"
    /\ state' = Closed(state)
    /\ UNCHANGED <<uploading, made, down, session, orphans>>

\* signOut resolves, and LOGOUT makes everything null, the websocket too.
LoggedOut ==
    /\ account = "leaving"
    /\ account' = "out"
    /\ playlist' = "none"
    /\ queues' = NoQueues
    /\ webSocket' = None
    /\ connected' = FALSE
    /\ initialized' = FALSE
    /\ shown' = None
    /\ orphans' = orphans \cup {s \in Sockets : s = webSocket /\ state[s] \in Live}
    /\ UNCHANGED <<uploading, removing, made, state, up, down, session, acts>>

LogIn ==
    /\ account = "out"
    /\ account' = "in"
    /\ UNCHANGED <<playlist, uploading, queues, removing, made, player, wire, acts>>
-------------------------------------------------------------------------------
(* The order queue, which guests fill, is a copy of a list in firebase. *)

ChildAdded ==
    /\ Act
    /\ account = "in"
    /\ made' = made + 1
    /\ Changes(<<[queues EXCEPT !.order = Append(@, made + 1)]>>)
    /\ UNCHANGED <<account, playlist, uploading, removing, player, state, down, session, orphans>>

ChildRemoved ==
    \E item \in removing :
        /\ removing' = removing \ {item}
        /\ Changes(<<[queues EXCEPT !.order = Without(@, item)]>>)
        /\ UNCHANGED <<account, playlist, uploading, made, player, state, down, session,
                       orphans, acts>>
-------------------------------------------------------------------------------
(* The player's session on socket s. *)

Note(type, item) == [type |-> type, item |-> item]

\* The songs of a queue that could not be loaded, at the places in failed, are
\* reported in their order.
Place(failed, n) == CHOOSE k \in failed : Cardinality({j \in failed : j <= k}) = n

Failures(queue, failed) ==
    [n \in 1..Cardinality(failed) |-> Note("SONGFAILED", queue[Place(failed, n)])]

Answer(s, notes, changed) ==
    /\ session' = [session EXCEPT ![s] = changed]
    /\ down' = [down EXCEPT ![s] = @ \o notes]

\* OpenNextSong in session c: the first song that can be played is opened,
\* those before it having failed or been dropped for their slow download; or
\* there is none; or the file server is gone and ResetPlayer is called.
\* n is what the call counts for the bound, and one more if a song is not played.
OpenNextSong(s, c, n) ==
    \/ \E k \in DOMAIN c.queue : \E failed \in SUBSET (1..k - 1) :
          /\ Count(IF k = 1 THEN n ELSE n + 1)
          /\ Answer(s, Append(Failures(c.queue, failed), Note("SONGSTARTED", c.queue[k])),
                    [c EXCEPT !.queue = SubSeq(@, k + 1, Len(@)), !.song = "open"])
    \/ \E failed \in SUBSET DOMAIN c.queue :
          /\ Count(IF c.queue = <<>> THEN n ELSE n + 1)
          /\ Answer(s, Append(Failures(c.queue, failed), Note("REQUESTPLAYLIST", None)),
                    [c EXCEPT !.queue = <<>>, !.waiting = TRUE])
    \/ \E k \in DOMAIN c.queue : \E failed \in SUBSET (1..k - 1) :
          /\ Count(n + 1)
          /\ Answer(s, Append(Failures(c.queue, failed), Note("FILESERVERDISCONNECTED", None)),
                    [NewSession EXCEPT !.waiting = c.waiting])

Ask(c) == IF Len(c.queue) < Enough THEN <<Note("REQUESTPLAYLIST", None)>> ELSE <<>>

\* INITIALIZE: a new cache, kept even if the file server does not answer.
Initialize(s, c) ==
    LET new == [c EXCEPT !.cache = TRUE, !.queue = <<>>]
    IN  \/ Answer(s, Append(Ask(new), Note("INITIALIZE", TRUE)), new) /\ UNCHANGED acts
        \/ Answer(s, <<Note("INITIALIZE", FALSE)>>, new) /\ Act

Reset(s, c) ==
    /\ Answer(s, <<Note("RESET", TRUE)>>,
              IF c.cache THEN [NewSession EXCEPT !.waiting = c.waiting] ELSE c)
    /\ UNCHANGED acts

ReplaceQueue(s, c, queue) ==
    LET new == [c EXCEPT !.queue = queue]
    IN  IF c.waiting
        THEN OpenNextSong(s, [new EXCEPT !.waiting = FALSE], 0)
        ELSE Answer(s, Ask(new), new) /\ UNCHANGED acts

PlayAction(s, c) ==
    LET playing == [c EXCEPT !.playing = TRUE]
    IN  IF c.song = "none"
        THEN OpenNextSong(s, playing, 0)
        ELSE Answer(s, <<>>, playing) /\ UNCHANGED acts

\* What a session does for a socket that is being closed is not seen.
HandleRequest(s) ==
    /\ state[s] = "open" /\ up[s] # <<>>
    /\ up' = [up EXCEPT ![s] = Tail(@)]
    /\ LET request == Head(up[s])
           c == session[s]
       IN  \/ request.type = "INITIALIZE" /\ Initialize(s, c)
           \/ request.type = "RESET" /\ Reset(s, c)
           \/ /\ request.type \in {"UPDATEQUEUE", "PLAY", "NEXT"} /\ ~c.cache
              /\ UNCHANGED <<down, session, acts>>
           \/ request.type = "UPDATEQUEUE" /\ c.cache /\ ReplaceQueue(s, c, request.queue)
           \/ request.type = "PLAY" /\ c.cache /\ PlayAction(s, c)
           \/ request.type = "NEXT" /\ c.cache /\ OpenNextSong(s, c, 0)
    /\ UNCHANGED <<store, player, state, orphans>>

\* The playback-finished callback runs NextAction.
SongEnds(s) ==
    /\ state[s] = "open"
    /\ session[s].cache /\ session[s].playing /\ session[s].song = "open"
    /\ OpenNextSong(s, [session[s] EXCEPT !.song = "ended"], 1)
    /\ UNCHANGED <<store, player, state, up, orphans>>
-------------------------------------------------------------------------------
(* Messages of the player.  The code does not ask which socket a message is  *)
(* from: a socket that has been closed delivers none, and an orphan was      *)
(* never sent a request, so that its session has nothing to say.             *)

Handled == UNCHANGED <<account, playlist, uploading, webSocket, connected>>

MaintainPlaylistQueue ==
    /\ Changes(Maintained(queues))
    /\ made' = made + Len(Maintained(queues))
    /\ Handled
    /\ UNCHANGED <<removing, initialized, shown>>

\* removeQueueItem, and then onRemoved unless the exception has come first.
RemoveQueueItem(item, onRemoved) ==
    IF item \in Items(queues.order)
    THEN /\ removing' = removing \cup {item}
         /\ onRemoved
         /\ UNCHANGED <<queues, made, up>>
    ELSE LET q == Removed(queues, item)
         IN  /\ Changes(<<q>> \o Maintained(q))
             /\ made' = made + Len(Maintained(q))
             /\ IF Runaway(q) THEN UNCHANGED shown ELSE onRemoved
             /\ UNCHANGED removing

\* Without a playlist both handlers fail on its map.
Known(item) == playlist # "none" /\ item \in Items(All(queues))

\* Mistake in SongStarted: the queues are left alone.
SongStartedOnly(item) ==
    /\ IF Known(item) THEN shown' = item ELSE UNCHANGED shown
    /\ Handled
    /\ UNCHANGED <<queues, removing, made, up, initialized>>

SongStarted(item) ==
    /\ IF Known(item)
       THEN RemoveQueueItem(item, shown' = item)
       ELSE UNCHANGED <<queues, removing, made, up, shown>>
    /\ Handled
    /\ UNCHANGED initialized

HandleSongFailed(item) ==
    /\ IF Known(item)
       THEN RemoveQueueItem(item, UNCHANGED shown)
       ELSE UNCHANGED <<queues, removing, made, up, shown>>
    /\ Handled
    /\ UNCHANGED initialized

\* Mistake in HandleFileserverDisconnected: the strip stays.
DisconnectedButInitialized ==
    /\ shown' = None
    /\ Handled
    /\ UNCHANGED <<queues, removing, made, up, initialized>>

HandleFileserverDisconnected ==
    /\ initialized' = FALSE
    /\ shown' = None
    /\ Handled
    /\ UNCHANGED <<queues, removing, made, up>>

\* The callbacks of INITIALIZE: when the strip appears it sends the queue.
Initialized(success) ==
    /\ initialized' = success
    /\ Send(IF success /\ ~initialized THEN <<UpdateQueue(queues)>> ELSE <<>>)
    /\ Handled
    /\ UNCHANGED <<queues, removing, made, shown>>

\* Mistake in OnReset: the strip stays.
OnResetInitialized ==
    /\ shown' = None
    /\ Handled
    /\ UNCHANGED <<queues, removing, made, up, initialized>>

OnReset ==
    /\ initialized' = FALSE
    /\ shown' = None
    /\ Handled
    /\ UNCHANGED <<queues, removing, made, up>>

WebSocketOnMessage(s) ==
    /\ state[s] = "open" /\ down[s] # <<>>
    /\ down' = [down EXCEPT ![s] = Tail(@)]
    /\ LET msg == Head(down[s])
       IN  \/ msg.type = "REQUESTPLAYLIST" /\ MaintainPlaylistQueue
           \/ msg.type = "SONGSTARTED" /\ SongStarted(msg.item)
           \/ msg.type = "SONGFAILED" /\ HandleSongFailed(msg.item)
           \/ msg.type = "FILESERVERDISCONNECTED" /\ HandleFileserverDisconnected
           \/ msg.type = "INITIALIZE" /\ Initialized(msg.item)
           \/ msg.type = "RESET" /\ OnReset
    /\ UNCHANGED <<state, session, orphans, acts>>
-------------------------------------------------------------------------------
User ==
    \/ Connect \/ Disconnect \/ StartPlayback \/ StopPlayback \/ Press
    \/ AddItem \/ RemoveItem \/ RemovePlaylist \/ LogOut \/ LogIn

Next ==
    \/ User
    \/ PlaylistChanged
    \/ LoggedOut
    \/ ChildAdded
    \/ ChildRemoved
    \/ \E s \in Sockets :
          OnOpen(s) \/ OnClose(s) \/ HandleRequest(s) \/ SongEnds(s) \/ WebSocketOnMessage(s)

\* Fairness: the player handles its requests, the browser its messages, and a
\* socket being closed closes.  Nothing else need happen.
Fairness ==
    \A s \in Sockets :
       /\ WF_vars(HandleRequest(s))
       /\ WF_vars(WebSocketOnMessage(s))
       /\ WF_vars(state[s] = "closing" /\ OnClose(s))

Spec == Init /\ [][Next]_vars /\ Fairness
-------------------------------------------------------------------------------
Status == {"unused", "connecting", "open", "closing", "closed"}

\* Types; and the items being removed from firebase are in its copy still.
TypeOK ==
    /\ account \in {"in", "leaving", "out"}
    /\ playlist \in {"none", "empty", "songs"}
    /\ made \in Nat /\ acts \in 0..MaxActs
    /\ \A place \in DOMAIN NoQueues : Items(queues[place]) \subseteq 1..made
    /\ removing \subseteq Items(queues.order)
    /\ webSocket \in Sockets \cup {None}
    /\ {uploading, connected, initialized} \subseteq BOOLEAN
    /\ shown \in 0..made
    /\ state \in [Sockets -> Status]
    /\ orphans \subseteq Sockets
    /\ \A s \in Sockets :
          /\ session[s].song \in {"none", "open", "ended"}
          /\ Items(session[s].queue) \subseteq 1..made

\* While the strip is visible the socket in the store has been opened, and the
\* player counts as connected: what the strip sends finds its way
\* (PlayerStrip/index.js 54-79 tests only the flags).
StripHasItsSocket ==
    initialized =>
        connected /\ webSocket # None /\ state[webSocket] \in {"open", "closing"}

\* The open socket in the store can be closed: disconnect (playerActions.js
\* 797-815) and log out do nothing unless the player counts as connected.
CanDisconnect ==
    webSocket # None /\ state[webSocket] = "open" => connected

\* Sockets are not left open behind the store's back, whatever is replaced,
\* lost or closed in whatever order: only LOGOUT forgets one.
OneLiveSocket ==
    \A s \in Sockets : state[s] \in Live => s = webSocket \/ s \in orphans

Quiet ==
    /\ webSocket # None /\ state[webSocket] = "open"
    /\ up[webSocket] = <<>> /\ down[webSocket] = <<>>

\* When all messages have been handled, an initialized player has its cache.
InitializedIsServed == initialized /\ Quiet => session[webSocket].cache

\* When all messages have been handled, the player's queue is what is left of
\* the queues of the web app: it plays no song that was removed, and all that
\* follow the next one, in their order.
PlayerHasTheQueue ==
    initialized /\ Quiet =>
        LET all    == All(queues)
            theirs == session[webSocket].queue
        IN  /\ Len(theirs) <= Len(all)
            /\ theirs = SubSeq(all, Len(all) - Len(theirs) + 1, Len(all))

\* The song that is shown as current is not waiting in a queue, or firebase has
\* been asked to remove it there.
CurrentIsNotQueued ==
    /\ shown \notin Items(queues.priority) \cup Items(queues.list)
    /\ account = "in" /\ shown \in Items(queues.order) => shown \in removing

\* What a comment says is not a good state (playerActions.js 811): connected
\* without a websocket.
ConnectedHasSocket == connected => webSocket # None

\* A stop that was sent is followed by the strip's going.
StopEnds ==
    \A s \in Sockets :
        (initialized /\ s = webSocket /\ \E k \in DOMAIN up[s] : up[s][k].type = "RESET")
            ~> ~initialized
===============================================================================
