----------------------------- MODULE PlayerServer -----------------------------
(***************************************************************************)
(* The player server: MusicPlayer::API starts and stops it, Listener       *)
(* accepts connections, keeps one session and turns the others away        *)
(* (JukeItApp/MusicPlayerAPI.cc 17-32 and 518-662); the CEF message handler*)
(* MsgHandler_MusicPlayer calls API from the browser's UI thread.          *)
(*                                                                         *)
(* Two threads: the UI thread (Start, Close, and the wait in join) and the *)
(* thread of the io_context, which runs one completion handler at a time   *)
(* and ends when no operation is pending.  An accept that has completed    *)
(* and whose handler has not run yet is a state of its own: Listener::Close*)
(* comes in between.  What a session does while it is open is in           *)
(* SessionLoop.                                                            *)
(***************************************************************************)
EXTENDS Integers, FiniteSets

CONSTANTS Conn,        \* connections of managers
          Nobody       \* no connection

ASSUME NobodyAssumption == IsFiniteSet(Conn) /\ Nobody \notin Conn

VARIABLES ui,         \* the UI thread: "idle", or "joining" inside API::Close
          running,    \* running_
          io,         \* is the io_context's thread inside run()?
          acceptor,   \* acceptor_: "closed", "listening", or open and not "bound"
          accept,     \* the async_accept: not "none", "pending", or how it ended
          accepted,   \* socket_: the connection of an accept that ended "ok"
          slot,       \* the connection of sessionPtr_, Nobody for nullptr
          slotClosed, \* sessionPtr_->IsClosed()
          failedClose, \* the session whose async_close has failed: OnClose is due
          conn        \* what becomes of each connection

vars == <<ui, running, io, acceptor, accept, accepted, slot, slotClosed,
          failedClose, conn>>

\* backlog: in the system's queue; handshake, open, closing (by Listener::Close),
\* ending (for bad payload, with no read pending), dead (the handshake failed:
\* the session has stopped, closed_ is not set) and closed: states of a session;
\* turning, turned: being rejected.
ConnState == {"away", "backlog", "accepted", "handshake", "open", "closing",
              "ending", "dead", "closed", "turning", "turned"}

\* The states in which an operation of the connection is pending.
Pending == {"handshake", "open", "closing", "ending", "turning", "turned"}

Work ==
    \/ accept # "none"
    \/ failedClose # Nobody
    \/ \E c \in Conn : conn[c] \in Pending

Init ==
    /\ ui = "idle"
    /\ running = FALSE
    /\ io = FALSE
    /\ acceptor = "closed"
    /\ accept = "none"
    /\ accepted = Nobody
    /\ slot = Nobody
    /\ slotClosed = FALSE
    /\ failedClose = Nobody
    /\ conn = [c \in Conn |-> "away"]
-------------------------------------------------------------------------------
(* The UI thread. *)

\* API::Start, called by OpenPlayer only when the server is not running.  The
\* errors of the listener's constructor are logged and forgotten; without an
\* open acceptor Run does nothing.
Start(result) ==
    /\ ui = "idle"
    /\ ~running
    /\ running' = TRUE
    /\ io' = TRUE
    /\ acceptor' = result
    /\ accept' = IF result = "closed" THEN "none" ELSE "pending"
    /\ UNCHANGED <<ui, accepted, slot, slotClosed, conn, failedClose>>

\* Session::Close is called off the strand.  On a session that is not open
\* async_close fails, and posts its handler, which no thread runs any more when
\* the io_context's has ended.
CloseSlot ==
    IF slot = Nobody \/ slotClosed
    THEN UNCHANGED <<conn, failedClose>>
    ELSE \/ /\ conn[slot] = "open"
            /\ conn' = [conn EXCEPT ![slot] = "closing"]
            /\ UNCHANGED failedClose
         \/ /\ conn[slot] = "ending"
            /\ UNCHANGED <<conn, failedClose>>
         \/ /\ conn[slot] \in {"handshake", "dead"}
            /\ failedClose' = IF io THEN slot ELSE Nobody
            /\ UNCHANGED conn

\* A mistake in CloseStart: the pending accept is not cancelled.
CloseWithoutCancel ==
    /\ ui = "idle"
    /\ running
    /\ ui' = "joining"
    /\ CloseSlot
    /\ UNCHANGED <<running, io, acceptor, accept, accepted, slot, slotClosed>>

\* API::Close up to the join.
CloseStart ==
    /\ ui = "idle"
    /\ running
    /\ ui' = "joining"
    /\ CloseSlot
    /\ acceptor' = "closed"
    /\ accept' = IF accept = "pending" THEN "aborted" ELSE accept
    /\ UNCHANGED <<running, io, accepted, slot, slotClosed>>

\* The thread has ended; what is left is freed.
CloseEnd ==
    /\ ui = "joining"
    /\ ~io
    /\ ui' = "idle"
    /\ running' = FALSE
    /\ slot' = Nobody
    /\ slotClosed' = FALSE
    /\ conn' = [c \in Conn |-> "away"]
    /\ UNCHANGED <<io, acceptor, accept, accepted, failedClose>>
-------------------------------------------------------------------------------
(* Managers and the system. *)

Connect(c) ==
    /\ acceptor = "listening"
    /\ conn[c] \in {"away", "closed"}
    /\ c # slot \/ slotClosed
    /\ conn' = [conn EXCEPT ![c] = "backlog"]
    /\ UNCHANGED <<ui, running, io, acceptor, accept, accepted, slot, slotClosed, failedClose>>

AcceptCompletes(c) ==
    /\ accept = "pending"
    /\ acceptor = "listening"
    /\ conn[c] = "backlog"
    /\ accept' = "ok"
    /\ accepted' = c
    /\ conn' = [conn EXCEPT ![c] = "accepted"]
    /\ UNCHANGED <<ui, running, io, acceptor, slot, slotClosed, failedClose>>

\* Without bind, or when the system is out of descriptors.
AcceptFails ==
    /\ accept = "pending"
    /\ accept' = "error"
    /\ UNCHANGED <<ui, running, io, acceptor, accepted, slot, slotClosed, conn, failedClose>>
-------------------------------------------------------------------------------
(* Completion handlers, on the io_context's thread. *)

\* The end of Listener::OnAccept.
DoAccept == accept' = IF acceptor = "closed" THEN "error" ELSE "pending"

\* Mistakes in AcceptSession: any session is replaced; socket_ is used twice.
AcceptAlways ==
    /\ io
    /\ accept = "ok"
    /\ slot' = accepted
    /\ slotClosed' = FALSE
    /\ conn' = [conn EXCEPT ![accepted] = "handshake"]
    /\ accepted' = Nobody
    /\ DoAccept
    /\ UNCHANGED <<ui, running, io, acceptor, failedClose>>

AcceptOnce ==
    /\ io
    /\ accept = "ok"
    /\ slot = Nobody \/ slotClosed
    /\ slot' = accepted
    /\ slotClosed' = FALSE
    /\ conn' = [conn EXCEPT ![accepted] = "handshake"]
    /\ DoAccept
    /\ UNCHANGED accepted
    /\ UNCHANGED <<ui, running, io, acceptor, failedClose>>

\* OnAccept with no session, or a closed one: Session::Run.
AcceptSession ==
    /\ io
    /\ accept = "ok"
    /\ slot = Nobody \/ slotClosed
    /\ slot' = accepted
    /\ slotClosed' = FALSE
    /\ conn' = [conn EXCEPT ![accepted] = "handshake"]
    /\ accepted' = Nobody
    /\ DoAccept
    /\ UNCHANGED <<ui, running, io, acceptor, failedClose>>

\* A mistake in TurnAway: a session that is not open yet is waited for.
TurnAwayIfOpen ==
    /\ io
    /\ accept = "ok"
    /\ slot # Nobody
    /\ conn[slot] = "open"
    /\ conn' = [conn EXCEPT ![accepted] = "turning"]
    /\ accepted' = Nobody
    /\ DoAccept
    /\ UNCHANGED <<ui, running, io, acceptor, slot, slotClosed, failedClose>>

\* OnAccept with a session: RejectConnection.
TurnAway ==
    /\ io
    /\ accept = "ok"
    /\ slot # Nobody
    /\ ~slotClosed
    /\ conn' = [conn EXCEPT ![accepted] = "turning"]
    /\ accepted' = Nobody
    /\ DoAccept
    /\ UNCHANGED <<ui, running, io, acceptor, slot, slotClosed, failedClose>>

\* OnAccept with an error: no further accept.
OnAcceptError ==
    /\ io
    /\ accept \in {"error", "aborted"}
    /\ accept' = "none"
    /\ UNCHANGED <<ui, running, io, acceptor, accepted, slot, slotClosed, conn, failedClose>>

\* Session::OnAccept: with an error the session is left as it is.
Handshake(c, ok) ==
    /\ io
    /\ conn[c] = "handshake"
    /\ conn' = [conn EXCEPT ![c] = IF ok THEN "open" ELSE "dead"]
    /\ UNCHANGED <<ui, running, io, acceptor, accept, accepted, slot, slotClosed, failedClose>>

\* OnClose, which sets closed_.
SessionCloses(c) ==
    /\ conn' = [conn EXCEPT ![c] = "closed"]
    /\ slotClosed' = (slotClosed \/ c = slot)
    /\ UNCHANGED <<ui, running, io, acceptor, accept, accepted, slot, failedClose>>

\* The manager ends the connection, or it breaks.
SessionEnds(c) == io /\ conn[c] = "open" /\ SessionCloses(c)

\* The third failure in a row: DoClose, and no further read.
BadPayload(c) ==
    /\ io
    /\ conn[c] = "open"
    /\ conn' = [conn EXCEPT ![c] = "ending"]
    /\ UNCHANGED <<ui, running, io, acceptor, accept, accepted, slot, slotClosed, failedClose>>

\* The pending read meets the end of a session that is being closed before
\* the handler of async_close has run: OnClose runs twice.
ReadMeetsClose(c) ==
    /\ io
    /\ conn[c] = "closing"
    /\ c = slot
    /\ slotClosed' = TRUE
    /\ UNCHANGED <<ui, running, io, acceptor, accept, accepted, slot, failedClose, conn>>

CloseDone(c) == io /\ conn[c] \in {"closing", "ending"} /\ SessionCloses(c)

\* OnClose after an async_close that failed; the session itself goes on.
CloseFailed ==
    /\ io
    /\ failedClose # Nobody
    /\ slotClosed' = (slotClosed \/ failedClose = slot)
    /\ failedClose' = Nobody
    /\ UNCHANGED <<ui, running, io, acceptor, accept, accepted, slot, conn>>

\* The two handlers in RejectConnection ignore errors.
TurnedAway(c) ==
    /\ io
    /\ \/ conn[c] = "turning" /\ conn' = [conn EXCEPT ![c] = "turned"]
       \/ conn[c] = "turned" /\ conn' = [conn EXCEPT ![c] = "away"]
    /\ UNCHANGED <<ui, running, io, acceptor, accept, accepted, slot, slotClosed, failedClose>>

\* A mistake in IoEnds: the thread ends when nobody is connected.
IoEndsEarly ==
    /\ io
    /\ \A c \in Conn : conn[c] \notin Pending
    /\ io' = FALSE
    /\ UNCHANGED <<ui, running, acceptor, accept, accepted, slot, slotClosed, conn, failedClose>>

\* run() returns.
IoEnds ==
    /\ io
    /\ ~Work
    /\ io' = FALSE
    /\ UNCHANGED <<ui, running, acceptor, accept, accepted, slot, slotClosed, conn, failedClose>>
-------------------------------------------------------------------------------
Next ==
    \/ \E result \in {"closed", "bound", "listening"} : Start(result)
    \/ CloseStart \/ CloseEnd
    \/ \E c \in Conn : Connect(c) \/ AcceptCompletes(c)
    \/ AcceptFails
    \/ AcceptSession \/ TurnAway \/ OnAcceptError \/ IoEnds
    \/ \E c \in Conn, ok \in BOOLEAN : Handshake(c, ok)
    \/ \E c \in Conn : SessionEnds(c) \/ BadPayload(c) \/ ReadMeetsClose(c)
                          \/ CloseDone(c) \/ TurnedAway(c)
    \/ CloseFailed

Spec == Init /\ [][Next]_vars

\* The io_context's thread runs the handlers of completed operations, the
\* system serves its queue in order, a manager completes the handshakes it is
\* asked for or goes away, and join returns.  No manager has to leave, and
\* nobody has to start or stop the server.
FairSpec ==
    /\ Spec
    /\ WF_vars(AcceptSession \/ TurnAway)
    /\ WF_vars(OnAcceptError)
    /\ WF_vars(IoEnds)
    /\ WF_vars(CloseFailed)
    /\ WF_vars(CloseEnd)
    /\ \A c \in Conn : /\ SF_vars(AcceptCompletes(c))
                       /\ WF_vars(\E ok \in BOOLEAN : Handshake(c, ok))
                       /\ WF_vars(CloseDone(c))
                       /\ WF_vars(TurnedAway(c))
-------------------------------------------------------------------------------
TypeOK ==
    /\ ui \in {"idle", "joining"}
    /\ running \in BOOLEAN
    /\ io \in BOOLEAN
    /\ acceptor \in {"closed", "bound", "listening"}
    /\ accept \in {"none", "pending", "ok", "error", "aborted"}
    /\ accepted \in Conn \cup {Nobody}
    /\ slot \in Conn \cup {Nobody}
    /\ slotClosed \in BOOLEAN
    /\ failedClose \in Conn \cup {Nobody}
    /\ conn \in [Conn -> ConnState]
    /\ accepted # Nobody => accept = "ok" /\ conn[accepted] = "accepted"

\* One manager at a time: unless the server is being stopped, a session that
\* is in its handshake, open or being closed is the one Listener knows of, which it turns
\* others away for and will close.
SlotHoldsSession ==
    ui = "idle" =>
        \A c \in Conn : conn[c] \in {"handshake", "open", "ending"} => c = slot /\ ~slotClosed

\* No operation waits for a thread that has ended, in particular none when
\* Close frees the sessions and the io_context they belong to.
ThreadServesWork ==
    /\ Work => io
    /\ ~running => ~io

\* Who connects gets a session or is turned away, unless the listener has
\* given up (accept failed) or the server is stopped.
NewcomersServed ==
    \A c \in Conn : conn[c] = "backlog" ~> (conn[c] # "backlog" \/ accept = "none")

\* Close returns when no accept and no handshake was under way when it began
\* (the sessions that were open are closing then).
QuietCloseReturns ==
    (/\ ui = "joining"
     /\ accept # "ok"
     /\ \A c \in Conn : conn[c] \notin {"handshake", "open"})
        ~> ui = "idle"

\* What the comment at MusicPlayerAPI.cc 648-649 says: the work the thread has
\* to end is what Listener::Close closes, so Close returns.
CloseReturns == ui = "joining" ~> ui = "idle"
===============================================================================
