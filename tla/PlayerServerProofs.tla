-------------------------- MODULE PlayerServerProofs --------------------------
(***************************************************************************)
(* The safety of the player server, for any number of managers.            *)
(***************************************************************************)
EXTENDS PlayerServer, TLAPS

\* Only API::Close, which is waiting in join then, closes a session off the
\* strand; CloseEnd leaves nothing of it behind.
ClosesOnlyWhileJoining ==
    ui = "idle" => failedClose = Nobody /\ \A c \in Conn : conn[c] # "closing"

\* SlotHoldsSession is not inductive alone: a close that is still pending when
\* the server is idle could mark the session of the slot as closed.
IInv ==
    /\ TypeOK
    /\ SlotHoldsSession
    /\ ThreadServesWork
    /\ ClosesOnlyWhileJoining
-------------------------------------------------------------------------------
LEMMA InitIInv == Init => IInv
  BY NobodyAssumption
     DEF Init, IInv, TypeOK, ConnState, SlotHoldsSession, ThreadServesWork, Work, Pending,
         ClosesOnlyWhileJoining

\* The UI thread: starting, and the two ends of API::Close.
LEMMA StartIInv ==
    ASSUME IInv, NEW result \in {"closed", "bound", "listening"}, Start(result)
    PROVE  IInv'
  <1>1. accepted = Nobody
    BY DEF IInv, TypeOK, ThreadServesWork, Work, Start
  <1> QED
    BY <1>1 DEF IInv, TypeOK, SlotHoldsSession, ThreadServesWork, Work, Pending,
                ClosesOnlyWhileJoining, Start

LEMMA CloseStartIInv == IInv /\ CloseStart => IInv'
  <1> SUFFICES ASSUME IInv, CloseStart
               PROVE  IInv'
    OBVIOUS
  <1> USE NobodyAssumption
  <1>1. conn' \in [Conn -> ConnState] /\ failedClose' \in Conn \cup {Nobody}
    BY DEF IInv, TypeOK, ConnState, CloseStart, CloseSlot
  <1>2. accepted # Nobody => conn'[accepted] = conn[accepted]
    BY DEF IInv, TypeOK, CloseStart, CloseSlot
  <1>3. TypeOK'
    BY <1>1, <1>2 DEF IInv, TypeOK, CloseStart
  <1>4. Work' => io
    BY DEF IInv, TypeOK, ThreadServesWork, Work, Pending, CloseStart, CloseSlot
  <1>5. ThreadServesWork'
    BY <1>4 DEF IInv, ThreadServesWork, CloseStart
  <1>6. SlotHoldsSession' /\ ClosesOnlyWhileJoining'
    BY DEF SlotHoldsSession, ClosesOnlyWhileJoining, CloseStart
  <1> QED
    BY <1>3, <1>5, <1>6 DEF IInv

LEMMA CloseEndIInv == IInv /\ CloseEnd => IInv'
  <1> SUFFICES ASSUME IInv, CloseEnd
               PROVE  IInv'
    OBVIOUS
  <1> USE NobodyAssumption
  <1>1. accept = "none" /\ failedClose = Nobody /\ accepted = Nobody
    BY DEF IInv, TypeOK, ThreadServesWork, Work, CloseEnd
  <1>2. \A c \in Conn : conn'[c] = "away"
    BY DEF CloseEnd
  <1>3. TypeOK'
    BY <1>1 DEF IInv, TypeOK, ConnState, CloseEnd
  <1>4. ~Work'
    BY <1>1, <1>2 DEF Work, Pending, CloseEnd
  <1>5. ThreadServesWork'
    BY <1>4 DEF ThreadServesWork, CloseEnd
  <1>6. SlotHoldsSession' /\ ClosesOnlyWhileJoining'
    BY <1>1, <1>2 DEF SlotHoldsSession, ClosesOnlyWhileJoining, CloseEnd
  <1> QED
    BY <1>3, <1>5, <1>6 DEF IInv

\* Managers and the system.
LEMMA ConnectIInv ==
    ASSUME IInv, NEW c \in Conn, Connect(c) \/ AcceptCompletes(c)
    PROVE  IInv'
  <1> USE NobodyAssumption
  <1>1. CASE Connect(c)
    BY <1>1 DEF IInv, TypeOK, ConnState, SlotHoldsSession, ThreadServesWork, Work, Pending,
                ClosesOnlyWhileJoining, Connect
  <1>2. CASE AcceptCompletes(c)
    BY <1>2 DEF IInv, TypeOK, ConnState, SlotHoldsSession, ThreadServesWork, Work, Pending,
                ClosesOnlyWhileJoining, AcceptCompletes
  <1> QED
    BY <1>1, <1>2

LEMMA AcceptFailsIInv == IInv /\ AcceptFails => IInv'
  BY DEF IInv, TypeOK, SlotHoldsSession, ThreadServesWork, Work, ClosesOnlyWhileJoining,
         AcceptFails

\* The listener's handlers.  A session takes the slot only when the last one is
\* closed, and then no other can be in its handshake or open.
LEMMA AcceptSessionIInv == IInv /\ AcceptSession => IInv'
  <1> SUFFICES ASSUME IInv, AcceptSession
               PROVE  IInv'
    OBVIOUS
  <1> USE NobodyAssumption
  <1>1. TypeOK'
    BY DEF IInv, TypeOK, ConnState, AcceptSession, DoAccept
  <1>2. SlotHoldsSession'
    <2> SUFFICES ASSUME ui' = "idle", NEW c \in Conn,
                        conn'[c] \in {"handshake", "open", "ending"}
                 PROVE  c = slot' /\ ~slotClosed'
      BY DEF SlotHoldsSession
    <2>1. CASE c = accepted
      BY <2>1 DEF AcceptSession
    <2>2. CASE c # accepted
      <3>1. conn[c] \in {"handshake", "open", "ending"} /\ ui = "idle"
        BY <2>2 DEF IInv, TypeOK, AcceptSession
      <3> QED
        BY <3>1 DEF IInv, SlotHoldsSession, AcceptSession
    <2> QED
      BY <2>1, <2>2
  <1>3. ThreadServesWork' /\ ClosesOnlyWhileJoining'
    BY DEF IInv, TypeOK, ThreadServesWork, ClosesOnlyWhileJoining, AcceptSession
  <1> QED
    BY <1>1, <1>2, <1>3 DEF IInv

LEMMA TurnAwayIInv == IInv /\ TurnAway => IInv'
  <1> SUFFICES ASSUME IInv, TurnAway
               PROVE  IInv'
    OBVIOUS
  <1> USE NobodyAssumption
  <1>1. TypeOK'
    BY DEF IInv, TypeOK, ConnState, TurnAway, DoAccept
  <1>2. SlotHoldsSession' /\ ThreadServesWork' /\ ClosesOnlyWhileJoining'
    BY DEF IInv, TypeOK, SlotHoldsSession, ThreadServesWork, ClosesOnlyWhileJoining, TurnAway
  <1> QED
    BY <1>1, <1>2 DEF IInv

LEMMA OnAcceptErrorIInv == IInv /\ OnAcceptError => IInv'
  BY DEF IInv, TypeOK, SlotHoldsSession, ThreadServesWork, Work, ClosesOnlyWhileJoining,
         OnAcceptError

LEMMA IoEndsIInv == IInv /\ IoEnds => IInv'
  <1> SUFFICES ASSUME IInv, IoEnds
               PROVE  IInv'
    OBVIOUS
  <1>1. ~Work'
    BY DEF IoEnds, Work
  <1>2. ThreadServesWork'
    BY <1>1 DEF ThreadServesWork, IoEnds
  <1>3. TypeOK' /\ SlotHoldsSession' /\ ClosesOnlyWhileJoining'
    BY DEF IInv, TypeOK, SlotHoldsSession, ClosesOnlyWhileJoining, IoEnds
  <1> QED
    BY <1>2, <1>3 DEF IInv

\* The handlers of one connection.
LEMMA ConnectionIInv ==
    ASSUME IInv, NEW c \in Conn,
           \/ \E ok \in BOOLEAN : Handshake(c, ok)
           \/ SessionEnds(c) \/ BadPayload(c) \/ CloseDone(c) \/ TurnedAway(c)
    PROVE  IInv'
  <1> USE NobodyAssumption
  <1>1. io
    BY DEF Handshake, SessionEnds, BadPayload, CloseDone, TurnedAway
  <1>2. UNCHANGED <<ui, running, io, acceptor, accept, accepted, slot, failedClose>>
    BY DEF Handshake, SessionEnds, BadPayload, CloseDone, TurnedAway, SessionCloses
  <1>3. PICK s \in ConnState \ {"closing", "accepted", "handshake"} :
           /\ conn' = [conn EXCEPT ![c] = s]
           /\ conn[c] # "accepted"
           /\ s \in {"open", "ending"} => /\ conn[c] \in {"handshake", "open"}
                                          /\ slotClosed' = slotClosed
           /\ slotClosed' # slotClosed => c = slot /\ slotClosed'
    BY DEF IInv, TypeOK, ConnState, Handshake, SessionEnds, BadPayload, CloseDone,
           TurnedAway, SessionCloses
  <1>4. TypeOK'
    <2>1. slotClosed' \in BOOLEAN
      BY DEF IInv, TypeOK, Handshake, SessionEnds, BadPayload, CloseDone, TurnedAway,
             SessionCloses
    <2> QED
      BY <1>2, <1>3, <2>1 DEF IInv, TypeOK
  <1>5. SlotHoldsSession'
    BY <1>2, <1>3 DEF IInv, TypeOK, SlotHoldsSession
  <1>6. ThreadServesWork' /\ ClosesOnlyWhileJoining'
    BY <1>1, <1>2, <1>3 DEF IInv, TypeOK, ThreadServesWork, ClosesOnlyWhileJoining
  <1> QED
    BY <1>4, <1>5, <1>6 DEF IInv

\* OnClose runs a second time, or for a session that was not open.
LEMMA LateCloseIInv ==
    ASSUME IInv, CloseFailed \/ \E c \in Conn : ReadMeetsClose(c)
    PROVE  IInv'
  <1> USE NobodyAssumption
  <1>1. ui # "idle"
    BY DEF IInv, ClosesOnlyWhileJoining, CloseFailed, ReadMeetsClose
  <1>2. slotClosed' \in BOOLEAN
    BY DEF IInv, TypeOK, CloseFailed, ReadMeetsClose
  <1> QED
    BY <1>1, <1>2 DEF IInv, TypeOK, SlotHoldsSession, ThreadServesWork, Work,
                      ClosesOnlyWhileJoining, CloseFailed, ReadMeetsClose

LEMMA NextIInv == IInv /\ [Next]_vars => IInv'
  <1> SUFFICES ASSUME IInv, [Next]_vars
               PROVE  IInv'
    OBVIOUS
  <1>1. CASE UNCHANGED vars
    BY <1>1 DEF vars, IInv, TypeOK, SlotHoldsSession, ThreadServesWork, Work,
                ClosesOnlyWhileJoining
  <1>2. CASE \E result \in {"closed", "bound", "listening"} : Start(result)
    BY <1>2, StartIInv
  <1>3. CASE CloseStart \/ CloseEnd
    BY <1>3, CloseStartIInv, CloseEndIInv
  <1>4. CASE \E c \in Conn : Connect(c) \/ AcceptCompletes(c)
    BY <1>4, ConnectIInv
  <1>5. CASE AcceptFails
    BY <1>5, AcceptFailsIInv
  <1>6. CASE AcceptSession \/ TurnAway \/ OnAcceptError \/ IoEnds
    BY <1>6, AcceptSessionIInv, TurnAwayIInv, OnAcceptErrorIInv, IoEndsIInv
  <1>7. CASE \E c \in Conn : \/ \E ok \in BOOLEAN : Handshake(c, ok)
                            \/ SessionEnds(c) \/ BadPayload(c) \/ CloseDone(c)
                            \/ TurnedAway(c)
    BY <1>7, ConnectionIInv
  <1>8. CASE CloseFailed \/ \E c \in Conn : ReadMeetsClose(c)
    BY <1>8, LateCloseIInv
  <1> QED
    BY <1>1, <1>2, <1>3, <1>4, <1>5, <1>6, <1>7, <1>8 DEF Next

LEMMA AlwaysIInv == Spec => []IInv
  BY InitIInv, NextIInv, PTL DEF Spec

\* Every variable keeps its type, and socket_ holds a connection only between
\* the end of an accept and its handler.
THEOREM TypeCorrect == Spec => []TypeOK
  BY AlwaysIInv, PTL DEF IInv

\* Listener keeps one manager at a time and always knows which (OnAccept).
THEOREM OneManager == Spec => []SlotHoldsSession
  BY AlwaysIInv, PTL DEF IInv

\* No operation is left without a thread, so API::Close frees nothing that is
\* still at work once join has returned.
THEOREM WorkHasThread == Spec => []ThreadServesWork
  BY AlwaysIInv, PTL DEF IInv
===============================================================================
