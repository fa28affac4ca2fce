---------------------------- MODULE WebPlayerProofs ----------------------------
(***************************************************************************)
(* The sockets of WebPlayer, for any number of them, of user actions and   *)
(* of songs: what is said of them does not depend on what they carry.      *)
(***************************************************************************)
EXTENDS WebPlayer, SequenceTheorems, TLAPS

Shape ==
    /\ account \in {"in", "leaving", "out"}
    /\ webSocket \in Sockets \cup {None}
    /\ connected \in BOOLEAN
    /\ state \in [Sockets -> Status]
    /\ DOMAIN up = Sockets /\ DOMAIN down = Sockets /\ DOMAIN session = Sockets
    /\ orphans \subseteq Sockets

\* Nothing was sent on socket s, so that the player says nothing.
Mute(s) == up[s] = <<>> /\ down[s] = <<>> /\ ~session[s].cache

\* A socket is mute before it is open, and after the store has forgotten it:
\* while a log out is under way nothing is sent.
MuteSockets ==
    /\ \A s \in Sockets : state[s] \in {"unused", "connecting"} \/ s \in orphans => Mute(s)
    /\ account = "leaving" /\ webSocket # None /\ state[webSocket] = "open" =>
          Mute(webSocket) /\ ~initialized

\* A socket that is registered has been used, and is not one of the forgotten.
Registered ==
    /\ webSocket # None => state[webSocket] # "unused" /\ webSocket \notin orphans
    /\ \A s \in orphans : state[s] # "unused"

IInv ==
    Shape /\ MuteSockets /\ Registered /\ StripHasItsSocket /\ CanDisconnect /\ OneLiveSocket

LEMMA NoSocket == None \notin Sockets
  BY DEF None, Sockets

LEMMA InitIInv == Init => IInv
  <1> SUFFICES ASSUME Init
               PROVE  IInv
    OBVIOUS
  <1>1. Shape /\ \A s \in Sockets : state[s] = "unused" /\ Mute(s)
    BY DEF Init, Shape, Status, Mute, NewSession
  <1>2. webSocket = None /\ account = "in" /\ ~initialized /\ orphans = {}
    BY DEF Init
  <1> QED
    BY <1>1, <1>2 DEF IInv, MuteSockets, Registered, StripHasItsSocket, CanDisconnect,
                      OneLiveSocket, Live

\* What is sent goes to the open socket of the store, and nothing adds nothing.
LEMMA SendReaches ==
    ASSUME Shape, NEW messages, Send(messages)
    PROVE  /\ DOMAIN up' = Sockets
           /\ \A s \in Sockets : up'[s] = up[s] \/ (s = webSocket /\ state[s] = "open")
           /\ messages = <<>> => \A s \in Sockets : up[s] = <<>> => up'[s] = <<>>
  <1>1. <<>> \o <<>> = <<>>
    BY EmptySeq, ConcatEmptySeq
  <1> QED BY <1>1 DEF Send, Shape

\* What an event may do to the sockets by way of the queues and the strip.
Traffic ==
    /\ UNCHANGED <<account, webSocket, connected, state, down, session, orphans>>
    /\ initialized' => initialized
    /\ DOMAIN up' = Sockets
    /\ \A s \in Sockets :
          \/ up'[s] = up[s]
          \/ s = webSocket /\ state[s] = "open" /\ (account = "leaving" => up'[s] = <<>>)

LEMMA TrafficIInv == IInv /\ Traffic => IInv'
  <1> SUFFICES ASSUME IInv, Traffic
               PROVE  IInv'
    OBVIOUS
  <1>1. Shape' /\ Registered' /\ StripHasItsSocket' /\ CanDisconnect' /\ OneLiveSocket'
    BY DEF IInv, Traffic, Shape, Registered, StripHasItsSocket, CanDisconnect, OneLiveSocket
  <1>2. MuteSockets'
    <2>1. ASSUME NEW s \in Sockets, state[s] \in {"unused", "connecting"} \/ s \in orphans
          PROVE  Mute(s)'
      <3>1. ~(s = webSocket /\ state[s] = "open")
        BY <2>1, NoSocket DEF IInv, Registered
      <3> QED BY <2>1, <3>1 DEF IInv, Traffic, MuteSockets, Mute
    <2>2. ASSUME account = "leaving", webSocket # None, state[webSocket] = "open"
          PROVE  Mute(webSocket)' /\ ~initialized'
      <3>1. webSocket \in Sockets
        BY <2>2 DEF IInv, Shape
      <3> QED BY <2>2, <3>1 DEF IInv, Traffic, MuteSockets, Mute
    <2> QED BY <2>1, <2>2 DEF Traffic, MuteSockets
  <1> QED BY <1>1, <1>2 DEF IInv
-------------------------------------------------------------------------------
(* Sockets come and go. *)

LEMMA ConnectIInv == IInv /\ Connect => IInv'
  <1> SUFFICES ASSUME IInv, Connect
               PROVE  IInv'
    OBVIOUS
  <1> USE NoSocket
  <1>1. PICK s \in Sockets : /\ state[s] = "unused"
                             /\ SetWebsocket(s, [state EXCEPT ![s] = "connecting"])
    BY DEF Connect
  <1>2. /\ webSocket' = s /\ initialized' = FALSE
        /\ state' \in [Sockets -> Status]
        /\ state'[s] = "connecting"
        /\ \A r \in Sockets : r # s => state'[r] = state[r] \/ state'[r] = "closing"
        /\ webSocket # None => state'[webSocket] \notin Live
        /\ \A r \in Sockets : r # s /\ r # webSocket => state'[r] = state[r]
    BY <1>1 DEF IInv, Shape, Registered, Status, SetWebsocket, Live
  <1>3. UNCHANGED <<account, connected, up, down, session, orphans>> /\ account = "in"
    BY DEF Connect, store
  <1>4. Shape' /\ Registered' /\ StripHasItsSocket' /\ CanDisconnect'
    BY <1>1, <1>2, <1>3 DEF IInv, Shape, Registered, StripHasItsSocket, CanDisconnect
  <1>5. OneLiveSocket'
    BY <1>2, <1>3 DEF IInv, Shape, OneLiveSocket, Live
  <1>6. MuteSockets'
    BY <1>1, <1>2, <1>3 DEF IInv, Shape, MuteSockets, Mute
  <1> QED BY <1>4, <1>5, <1>6 DEF IInv

LEMMA OnOpenIInv ==
    ASSUME IInv, NEW s \in Sockets, OnOpen(s)
    PROVE  IInv'
  <1> USE NoSocket
  <1>1. /\ UNCHANGED <<account, webSocket, initialized, up, down, session, orphans>>
        /\ connected' = TRUE /\ state[s] = "connecting"
        /\ state' = [state EXCEPT ![s] = "open"]
    BY DEF OnOpen, store
  <1>2. webSocket = s => ~initialized
    BY <1>1 DEF IInv, StripHasItsSocket
  <1>3. Shape' /\ Registered' /\ StripHasItsSocket' /\ CanDisconnect' /\ OneLiveSocket'
    BY <1>1, <1>2 DEF IInv, Shape, Status, Registered, StripHasItsSocket, CanDisconnect,
                      OneLiveSocket, Live
  <1>4. MuteSockets'
    BY <1>1, <1>2 DEF IInv, Shape, MuteSockets, Mute
  <1> QED BY <1>3, <1>4 DEF IInv

LEMMA OnCloseIInv ==
    ASSUME IInv, NEW s \in Sockets, OnClose(s)
    PROVE  IInv'
  <1> USE NoSocket
  <1>1. /\ webSocket' = None /\ initialized' = FALSE /\ connected' = FALSE
        /\ state' \in [Sockets -> Status]
        /\ state'[s] = "closed"
        /\ webSocket # None => state'[webSocket] \notin Live
        /\ \A r \in Sockets : r # s /\ r # webSocket => state'[r] = state[r]
        /\ \A r \in Sockets : state[r] = "unused" \/ state'[r] # "unused"
        /\ \A r \in Sockets : state'[r] \in {"unused", "connecting"} => state'[r] = state[r]
    BY DEF OnClose, SetWebsocket, IInv, Shape, Registered, Status, Live
  <1>2. /\ UNCHANGED <<account, orphans>>
        /\ DOMAIN up' = Sockets /\ DOMAIN down' = Sockets /\ DOMAIN session' = Sockets
        /\ up'[s] = <<>> /\ down'[s] = <<>> /\ ~session'[s].cache
        /\ \A r \in Sockets : r # s => up'[r] = up[r] /\ down'[r] = down[r]
                                          /\ session'[r] = session[r]
    BY DEF OnClose, IInv, Shape, NewSession, store
  <1>3. Shape' /\ Registered' /\ StripHasItsSocket' /\ CanDisconnect'
    BY <1>1, <1>2 DEF IInv, Shape, Registered, StripHasItsSocket, CanDisconnect, OnClose
  <1>4. OneLiveSocket'
    BY <1>1, <1>2 DEF IInv, Shape, OneLiveSocket, Live
  <1>5. MuteSockets'
    BY <1>1, <1>2 DEF IInv, MuteSockets, Mute
  <1> QED BY <1>3, <1>4, <1>5 DEF IInv

\* What Closed does to the sockets.
LEMMA ClosedStates ==
    ASSUME IInv
    PROVE  /\ Closed(state) \in [Sockets -> Status]
           /\ \A r \in Sockets : Closed(state)[r] = state[r] \/ Closed(state)[r] = "closing"
           /\ \A r \in Sockets : state[r] = "unused" => Closed(state)[r] = "unused"
           /\ webSocket # None /\ state[webSocket] = "closing" =>
                 Closed(state)[webSocket] = "closing"
           /\ webSocket # None => Closed(state)[webSocket] # "open"
  BY NoSocket DEF IInv, Shape, Registered, CanDisconnect, Closed, Status, Live

LEMMA DisconnectIInv == IInv /\ Disconnect => IInv'
  <1> SUFFICES ASSUME IInv, Disconnect
               PROVE  IInv'
    OBVIOUS
  <1>1. /\ state' = Closed(state)
        /\ UNCHANGED <<account, webSocket, connected, initialized, up, down, session, orphans>>
    BY DEF Disconnect, store, player
  <1>2. Shape' /\ Registered' /\ CanDisconnect' /\ OneLiveSocket'
    BY <1>1, ClosedStates DEF IInv, Shape, Registered, CanDisconnect, OneLiveSocket, Live
  <1>3. StripHasItsSocket'
    BY <1>1, ClosedStates DEF IInv, Shape, StripHasItsSocket
  <1>4. MuteSockets'
    BY <1>1, ClosedStates DEF IInv, MuteSockets, Mute
  <1> QED BY <1>2, <1>3, <1>4 DEF IInv

LEMMA LogOutIInv == IInv /\ LogOut => IInv'
  <1> SUFFICES ASSUME IInv, LogOut
               PROVE  IInv'
    OBVIOUS
  <1>1. /\ state' = Closed(state) /\ account' = "leaving"
        /\ UNCHANGED <<webSocket, connected, down, session, orphans>>
        /\ initialized' => initialized
    BY DEF LogOut, ResetPlayer, IInv, Shape
  <1>2. /\ DOMAIN up' = Sockets
        /\ \A s \in Sockets : up'[s] = up[s] \/ (s = webSocket /\ state[s] = "open")
    <2>1. CASE webSocket # None /\ initialized
      BY <2>1, SendReaches DEF LogOut, ResetPlayer, IInv
    <2>2. CASE ~(webSocket # None /\ initialized)
      BY <2>2 DEF LogOut, ResetPlayer, IInv, Shape
    <2> QED BY <2>1, <2>2
  <1>3. Shape' /\ Registered' /\ CanDisconnect' /\ OneLiveSocket'
    BY <1>1, <1>2, ClosedStates DEF IInv, Shape, Registered, CanDisconnect, OneLiveSocket, Live
  <1>4. StripHasItsSocket'
    BY <1>1, ClosedStates DEF IInv, Shape, StripHasItsSocket
  <1>5. ASSUME NEW s \in Sockets, state'[s] \in {"unused", "connecting"} \/ s \in orphans
        PROVE  Mute(s)'
    <2>1. state[s] \in {"unused", "connecting"} \/ s \in orphans
      BY <1>1, <1>5, ClosedStates
    <2>2. ~(s = webSocket /\ state[s] = "open")
      BY <2>1, NoSocket DEF IInv, Registered
    <2> QED BY <1>1, <1>2, <2>1, <2>2 DEF IInv, MuteSockets, Mute
  <1>6. MuteSockets'
    BY <1>1, <1>5, ClosedStates DEF MuteSockets
  <1> QED BY <1>3, <1>4, <1>6 DEF IInv

LEMMA LoggedOutIInv == IInv /\ LoggedOut => IInv'
  <1> SUFFICES ASSUME IInv, LoggedOut
               PROVE  IInv'
    OBVIOUS
  <1>1. /\ account = "leaving" /\ account' = "out" /\ webSocket' = None
        /\ connected' = FALSE /\ initialized' = FALSE
        /\ orphans' = orphans \cup {s \in Sockets : s = webSocket /\ state[s] \in Live}
        /\ UNCHANGED <<state, up, down, session>>
    BY DEF LoggedOut
  <1>2. Shape' /\ Registered' /\ StripHasItsSocket' /\ CanDisconnect' /\ OneLiveSocket'
    BY <1>1 DEF IInv, Shape, Registered, StripHasItsSocket, CanDisconnect, OneLiveSocket, Live
  <1>3. MuteSockets'
    <2>1. ASSUME NEW s \in Sockets, s = webSocket, state[s] \in Live
          PROVE  Mute(s)
      BY <1>1, <2>1, NoSocket DEF IInv, MuteSockets, Live
    <2> QED BY <1>1, <2>1 DEF IInv, MuteSockets, Mute
  <1> QED BY <1>2, <1>3 DEF IInv
-------------------------------------------------------------------------------
(* Events that only use the socket of the store. *)

\* Whatever the strip sends while a log out is under way is nothing.
LEMMA ChangesReach ==
    ASSUME IInv, NEW steps, Changes(steps)
    PROVE  /\ DOMAIN up' = Sockets
           /\ \A s \in Sockets :
                 \/ up'[s] = up[s]
                 \/ s = webSocket /\ state[s] = "open" /\ (account = "leaving" => up'[s] = <<>>)
  <1>1. Shape
    BY DEF IInv
  <1>2. CASE initialized
    <2>1. PICK messages : Send(messages)
      BY DEF Changes
    <2>2. webSocket # None /\ state[webSocket] = "open" => account # "leaving"
      BY <1>2 DEF IInv, MuteSockets
    <2> QED BY <1>1, <2>1, <2>2, SendReaches, NoSocket
  <1>3. CASE ~initialized
    <2>1. Send(<<>>)
      BY <1>3 DEF Changes
    <2>2. ASSUME NEW s \in Sockets, s = webSocket, state[s] = "open", account = "leaving"
          PROVE  up[s] = <<>>
      BY <2>2, NoSocket DEF IInv, MuteSockets, Mute
    <2> QED BY <1>1, <2>1, <2>2, SendReaches
  <1> QED BY <1>2, <1>3 DEF IInv, Shape

LEMMA UserIInv ==
    ASSUME IInv, StartPlayback \/ StopPlayback \/ Press \/ RemovePlaylist
    PROVE  IInv'
  <1>1. Shape
    BY DEF IInv
  <1>2. /\ UNCHANGED <<account, webSocket, connected, state, down, session, orphans>>
        /\ initialized' => initialized
    BY DEF StartPlayback, StopPlayback, Press, RemovePlaylist, ResetPlayer, store, player, IInv,
           Shape
  <1>3. UNCHANGED up \/ \E messages : Send(messages)
    BY DEF StartPlayback, StopPlayback, Press, RemovePlaylist, ResetPlayer
  <1>4. account = "in" \/ initialized
    BY DEF StartPlayback, StopPlayback, Press, RemovePlaylist
  <1>5. account = "leaving" => ~(webSocket # None /\ state[webSocket] = "open")
    BY <1>4 DEF IInv, MuteSockets
  <1>6. Traffic
    <2>1. CASE UNCHANGED up
      BY <1>1, <1>2, <2>1 DEF Traffic, Shape
    <2>2. ASSUME NEW messages, Send(messages)
          PROVE  Traffic
      BY <1>1, <1>2, <1>5, <2>2, SendReaches, NoSocket DEF Traffic
    <2> QED BY <1>3, <2>1, <2>2
  <1> QED BY <1>6, TrafficIInv

LEMMA QueuesIInv ==
    ASSUME IInv, AddItem \/ RemoveItem \/ ChildAdded \/ ChildRemoved
    PROVE  IInv'
  <1>1. /\ UNCHANGED <<account, webSocket, connected, initialized, state, down, session, orphans>>
        /\ UNCHANGED up \/ \E steps : Changes(steps)
    BY DEF AddItem, RemoveItem, ChildAdded, ChildRemoved, player
  <1>2. Traffic
    <2>1. CASE UNCHANGED up
      BY <1>1, <2>1 DEF Traffic, IInv, Shape
    <2>2. ASSUME NEW steps, Changes(steps)
          PROVE  Traffic
      BY <1>1, <2>2, ChangesReach DEF Traffic, IInv, Shape
    <2> QED BY <1>1, <2>1, <2>2
  <1> QED BY <1>2, TrafficIInv

\* The player: it is not asked, and has nothing to play, on a mute socket.
LEMMA SessionIInv ==
    ASSUME IInv, NEW s \in Sockets, HandleRequest(s) \/ SongEnds(s)
    PROVE  IInv'
  <1>1. state[s] = "open" /\ ~Mute(s)
    BY DEF HandleRequest, SongEnds, Mute
  <1>2. /\ UNCHANGED <<account, webSocket, connected, initialized, state, orphans>>
        /\ up' = up \/ up' = [up EXCEPT ![s] = Tail(@)]
    BY DEF HandleRequest, SongEnds, store, player
  <1>3. /\ down' = down \/ \E notes : down' = [down EXCEPT ![s] = @ \o notes]
        /\ session' = session \/ \E c : session' = [session EXCEPT ![s] = c]
    BY DEF HandleRequest, SongEnds, Initialize, Reset, ReplaceQueue, PlayAction, OpenNextSong,
           Answer
  <1>4. /\ DOMAIN up' = Sockets /\ DOMAIN down' = Sockets /\ DOMAIN session' = Sockets
        /\ \A r \in Sockets : r # s => up'[r] = up[r] /\ down'[r] = down[r]
                                          /\ session'[r] = session[r]
    BY <1>2, <1>3 DEF IInv, Shape
  <1>5. Shape' /\ Registered' /\ StripHasItsSocket' /\ CanDisconnect' /\ OneLiveSocket'
    BY <1>2, <1>4 DEF IInv, Shape, Registered, StripHasItsSocket, CanDisconnect, OneLiveSocket
  <1>6. s \notin orphans /\ ~(account = "leaving" /\ s = webSocket)
    BY <1>1, NoSocket DEF IInv, MuteSockets
  <1>7. MuteSockets'
    BY <1>1, <1>2, <1>4, <1>6 DEF IInv, Shape, MuteSockets, Mute
  <1> QED BY <1>5, <1>7 DEF IInv

\* A message of the player comes from the socket of the store.
LEMMA MessageIInv ==
    ASSUME IInv, NEW s \in Sockets, WebSocketOnMessage(s)
    PROVE  IInv'
  <1> USE NoSocket
  <1>1. state[s] = "open" /\ ~Mute(s)
    BY DEF WebSocketOnMessage, Mute
  <1>2. s = webSocket /\ s \notin orphans /\ connected /\ account # "leaving"
    BY <1>1 DEF IInv, MuteSockets, OneLiveSocket, CanDisconnect, Live
  <1>3. /\ UNCHANGED <<account, webSocket, connected, state, session, orphans>>
        /\ UNCHANGED up \/ (\E messages : Send(messages))
        /\ down' = [down EXCEPT ![s] = Tail(@)]
    BY DEF WebSocketOnMessage, MaintainPlaylistQueue, SongStarted, HandleSongFailed,
           RemoveQueueItem, HandleFileserverDisconnected, Initialized, OnReset, Changes, Handled
  <1>4. /\ DOMAIN up' = Sockets /\ DOMAIN down' = Sockets
        /\ \A r \in Sockets : r # s => up'[r] = up[r] /\ down'[r] = down[r]
    BY <1>2, <1>3, SendReaches DEF IInv, Shape
  <1>5. Shape' /\ Registered' /\ StripHasItsSocket' /\ CanDisconnect' /\ OneLiveSocket'
    BY <1>1, <1>2, <1>3, <1>4
       DEF IInv, Shape, Registered, StripHasItsSocket, CanDisconnect, OneLiveSocket
  <1>6. MuteSockets'
    BY <1>1, <1>2, <1>3, <1>4 DEF IInv, MuteSockets, Mute
  <1> QED BY <1>5, <1>6 DEF IInv

LEMMA NextIInv == IInv /\ [Next]_vars => IInv'
  <1> SUFFICES ASSUME IInv, [Next]_vars
               PROVE  IInv'
    OBVIOUS
  <1>1. CASE PlaylistChanged \/ UNCHANGED vars
    <2>1. Traffic
      BY <1>1 DEF PlaylistChanged, vars, store, player, wire, Traffic, IInv, Shape
    <2> QED BY <2>1, TrafficIInv
  <1>2. CASE LogIn
    BY <1>2 DEF LogIn, player, wire, IInv, Shape, MuteSockets, Mute, Registered,
                StripHasItsSocket, CanDisconnect, OneLiveSocket
  <1>3. CASE Next /\ ~PlaylistChanged /\ ~LogIn
    BY <1>3, ConnectIInv, DisconnectIInv, LogOutIInv, LoggedOutIInv, UserIInv, QueuesIInv,
       OnOpenIInv, OnCloseIInv, SessionIInv, MessageIInv DEF Next, User
  <1> QED BY <1>1, <1>2, <1>3

LEMMA Invariant == Spec => []IInv
  BY InitIInv, NextIInv, PTL DEF Spec
-------------------------------------------------------------------------------
\* While the strip is visible its socket has been opened and the player counts
\* as connected (PlayerStrip/index.js 54-79).
THEOREM StripAlwaysHasItsSocket == Spec => []StripHasItsSocket
  <1>1. IInv => StripHasItsSocket
    BY DEF IInv
  <1> QED BY <1>1, Invariant, PTL

\* The open socket in the store can always be closed (playerActions.js 797-815).
THEOREM CanAlwaysDisconnect == Spec => []CanDisconnect
  <1>1. IInv => CanDisconnect
    BY DEF IInv
  <1> QED BY <1>1, Invariant, PTL

\* No socket but the one in the store is connecting or open, except those that
\* LOGOUT forgot (playerActions.js 402-418, playerReducer.js 70).
THEOREM OnlyOneLiveSocket == Spec => []OneLiveSocket
  <1>1. IInv => OneLiveSocket
    BY DEF IInv
  <1> QED BY <1>1, Invariant, PTL
===============================================================================
