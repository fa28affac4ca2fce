------------------------------ MODULE SessionLoop ------------------------------
(***************************************************************************)
(* How the messages of one websocket session travel: the read loop, the    *)
(* write queue and the two ways to close of MusicPlayer::Session           *)
(* (JukeItApp/MusicPlayerAPI.cc 17-225 and 476-509).                       *)
(*                                                                         *)
(* Each completion handler is one step: the strand runs one at a time.     *)
(* What a request does to the player is in PlayerSession; here it sends    *)
(* some notifications, may start or stop the sound, and is answered.  A    *)
(* message to the manager is the number of the request it answers, or      *)
(* Note for a notification.  What Boost.Beast does with a connection is    *)
(* an assumption of this module: the guards on link.                       *)
(***************************************************************************)
EXTENDS Integers, Sequences

CONSTANTS MaxRequests,   \* bound: how many messages the manager sends
          MaxQueued,     \* bound: no status is sent with so many messages queued
          LostReads      \* how reads on a lost connection may end

ASSUME MaxRequestsAssumption == MaxRequests \in Nat
ASSUME MaxQueuedAssumption == MaxQueued \in Nat
ASSUME LostReadsAssumption == LostReads \subseteq {"error", "aborted"}

VARIABLES link,         \* the connection
          inbox,        \* what the manager has sent and no read has returned
          sent,         \* how many messages the manager has sent
          reading,      \* is an async_read pending?
          failCounter,  \* failCounter_
          recent,       \* history: the last three results of OnRead
          handled,      \* how many requests have been answered
          writeQueue,   \* writeQueue_
          writing,      \* writing_
          inFlight,     \* the messages of pending async_writes
          delivered,    \* the responses the manager has received
          sounding,     \* is a song playing that reports its status?
          closing,      \* is an async_close pending, and for which reason?
          closed        \* closed_

input == <<inbox, sent>>
output == <<writeQueue, writing, inFlight>>
vars == <<link, input, reading, failCounter, recent, handled, output, delivered,
          sounding, closing, closed>>

\* A request with a method of the API; one without a version or an id; one
\* with no method, or one that is not supported; no JSON object at all.
Kind == {"request", "malformed", "unsupported", "garbage"}
Fails == {"unsupported", "garbage", "error"}

Note == 0

Init ==
    /\ link = "open"
    /\ inbox = <<>>
    /\ sent = 0
    /\ reading = TRUE
    /\ failCounter = 0
    /\ recent = <<>>
    /\ handled = 0
    /\ writeQueue = <<>>
    /\ writing = FALSE
    /\ inFlight = <<>>
    /\ delivered = <<>>
    /\ sounding = FALSE
    /\ closing = "no"
    /\ closed = FALSE
-------------------------------------------------------------------------------
(* Helpers. *)

\* DoWrite with q in writeQueue_ and w in writing_.  To push several messages
\* and call it once does what the code does, which calls it after each push.
DoWrite(q, w) ==
    IF q # <<>> /\ ~w
    THEN writeQueue' = Tail(q) /\ writing' = TRUE /\ inFlight' = Append(inFlight, Head(q))
    ELSE writeQueue' = q /\ writing' = w /\ UNCHANGED inFlight

\* OnClose: the player is stopped first, and reports that it was.
OnClose ==
    /\ IF sounding /\ ~writing
       THEN /\ inFlight' = Append(inFlight, Head(Append(writeQueue, Note)))
            /\ writing' = TRUE
       ELSE UNCHANGED <<inFlight, writing>>
    /\ writeQueue' = <<>>
    /\ sounding' = FALSE
    /\ closed' = TRUE

LastThree(s) == SubSeq(s, IF Len(s) > 3 THEN Len(s) - 2 ELSE 1, Len(s))

\* Mistakes in CountAndGoOn: the connection is closed at the fourth failure;
\* the counter is never reset.
CountMoreThanThree(kind, q) ==
    LET count == IF kind \in Fails THEN failCounter + 1 ELSE 0
    IN  /\ recent' = LastThree(Append(recent, kind))
        /\ failCounter' = count
        /\ reading' = (count <= 3)
        /\ closing' = IF count > 3 THEN "bad_payload" ELSE closing
        /\ DoWrite(q, writing)

CountForever(kind, q) ==
    LET count == IF kind \in Fails THEN failCounter + 1 ELSE failCounter
    IN  /\ recent' = LastThree(Append(recent, kind))
        /\ failCounter' = count
        /\ reading' = (count < 3)
        /\ closing' = IF count >= 3 THEN "bad_payload" ELSE closing
        /\ DoWrite(q, writing)

\* The end of OnRead after an input of the given kind, when q is queued: at
\* the third failure the connection is closed, else OnRead writes and reads.
\* (After a third failure there is nothing left to write: NoStalledWrite.)
\* HandleRequest resets the counter unless it has just counted a failure.
CountAndGoOn(kind, q) ==
    LET count == IF kind \in Fails THEN failCounter + 1 ELSE 0
    IN  /\ recent' = LastThree(Append(recent, kind))
        /\ failCounter' = count
        /\ reading' = (count < 3)
        /\ closing' = IF count >= 3 THEN "bad_payload" ELSE closing
        /\ DoWrite(q, writing)
-------------------------------------------------------------------------------
(* The manager and the network. *)

ManagerSends(kind) ==
    /\ link = "open"
    /\ sent < MaxRequests
    /\ inbox' = Append(inbox, kind)
    /\ sent' = sent + 1
    /\ UNCHANGED <<link, reading, failCounter, recent, handled, output, delivered,
                   sounding, closing, closed>>

\* The manager closes the websocket, or the connection breaks.
LinkGoes(how) ==
    /\ link = "open"
    /\ link' = how
    /\ UNCHANGED <<input, reading, failCounter, recent, handled, output, delivered,
                   sounding, closing, closed>>
-------------------------------------------------------------------------------
(* Completion handlers of reads. *)

\* OnRead with a JSON object: HandleRequest sends what the request's handler
\* has to say, then the response.  sound: is a song playing afterwards?
ReadRequest(notes, sound) ==
    /\ reading
    /\ link # "lost"
    /\ ~closed
    /\ inbox # <<>>
    /\ Head(inbox) # "garbage"
    /\ notes > 0 \/ sound # sounding => Head(inbox) = "request"
    /\ inbox' = Tail(inbox)
    /\ handled' = handled + 1
    /\ sounding' = sound
    /\ CountAndGoOn(Head(inbox),
                    writeQueue \o [i \in 1..notes |-> Note] \o <<handled + 1>>)
    /\ UNCHANGED <<link, sent, delivered, closed>>

\* OnRead with anything else.
ReadGarbage ==
    /\ reading
    /\ link # "lost"
    /\ ~closed
    /\ inbox # <<>>
    /\ Head(inbox) = "garbage"
    /\ inbox' = Tail(inbox)
    /\ CountAndGoOn("garbage", writeQueue)
    /\ UNCHANGED <<link, sent, handled, delivered, sounding, closed>>

\* OnRead with the error "closed", after everything that was sent before.
ReadClosed ==
    /\ reading
    /\ link = "closed"
    /\ inbox = <<>> \/ closed
    /\ reading' = FALSE
    /\ OnClose
    /\ UNCHANGED <<link, input, failCounter, recent, handled, delivered, closing>>

\* OnRead with "operation aborted": the read loop ends.
ReadAborted ==
    /\ reading
    /\ closed \/ (link = "lost" /\ "aborted" \in LostReads)
    /\ reading' = FALSE
    /\ UNCHANGED <<link, input, failCounter, recent, handled, output, delivered,
                   sounding, closing, closed>>

\* A mistake in ReadError: the read loop ends and nobody is told.
ReadErrorEnds ==
    /\ reading
    /\ link = "lost"
    /\ "error" \in LostReads
    /\ reading' = FALSE
    /\ UNCHANGED <<link, input, failCounter, recent, handled, output, delivered,
                   sounding, closing, closed>>

\* OnRead with another error goes on to parse an empty buffer.
ReadError ==
    /\ reading
    /\ link = "lost"
    /\ "error" \in LostReads
    /\ CountAndGoOn("error", writeQueue)
    /\ UNCHANGED <<link, input, handled, delivered, sounding, closed>>
-------------------------------------------------------------------------------
(* Writes. *)

\* A status of the playing song.
SendStatus ==
    /\ sounding
    /\ Len(writeQueue) < MaxQueued
    /\ DoWrite(Append(writeQueue, Note), writing)
    /\ UNCHANGED <<link, input, reading, failCounter, recent, handled, delivered,
                   sounding, closing, closed>>

\* A mistake in WriteDone: the next write is left to the next request.
WriteDoneIdles ==
    /\ inFlight # <<>>
    /\ link = "open"
    /\ delivered' = IF Head(inFlight) = Note THEN delivered
                    ELSE Append(delivered, Head(inFlight))
    /\ inFlight' = Tail(inFlight)
    /\ writing' = FALSE
    /\ UNCHANGED <<link, input, reading, failCounter, recent, handled, writeQueue,
                   sounding, closing, closed>>

\* A mistake in NextWrite: the last message is written, not the first.
NextWriteNewest ==
    IF writeQueue # <<>>
    THEN /\ writeQueue' = SubSeq(writeQueue, 1, Len(writeQueue) - 1)
         /\ inFlight' = Append(Tail(inFlight), writeQueue[Len(writeQueue)])
         /\ writing' = TRUE
    ELSE /\ inFlight' = Tail(inFlight)
         /\ writing' = FALSE
         /\ UNCHANGED writeQueue

\* OnWrite, and the next write.
NextWrite ==
    IF writeQueue # <<>>
    THEN /\ writeQueue' = Tail(writeQueue)
         /\ inFlight' = Append(Tail(inFlight), Head(writeQueue))
         /\ writing' = TRUE
    ELSE /\ inFlight' = Tail(inFlight)
         /\ writing' = FALSE
         /\ UNCHANGED writeQueue

WriteDone ==
    /\ inFlight # <<>>
    /\ link = "open"
    /\ delivered' = IF Head(inFlight) = Note THEN delivered
                    ELSE Append(delivered, Head(inFlight))
    /\ NextWrite
    /\ UNCHANGED <<link, input, reading, failCounter, recent, handled, sounding, closing, closed>>

\* OnWrite with an error writes on; with "operation aborted" (995) it leaves
\* writing_ set.
WriteFails ==
    /\ inFlight # <<>>
    /\ link # "open"
    /\ \/ NextWrite
       \/ /\ inFlight' = Tail(inFlight)
          /\ UNCHANGED <<writeQueue, writing>>
    /\ UNCHANGED <<link, input, reading, failCounter, recent, handled, delivered,
                   sounding, closing, closed>>
-------------------------------------------------------------------------------
(* Closing from our side. *)

\* Listener::Close, on the thread that stops the server.
ServerCloses ==
    /\ ~closed
    /\ closing' = IF closing = "no" THEN "going_away" ELSE closing
    /\ UNCHANGED <<link, input, reading, failCounter, recent, handled, output, delivered,
                   sounding, closed>>

\* The handler of async_close, whatever its error.
CloseDone ==
    /\ closing # "no"
    /\ ~closed
    /\ link' = IF link = "open" THEN "closed" ELSE link
    /\ OnClose
    /\ UNCHANGED <<input, reading, failCounter, recent, handled, delivered, closing>>
-------------------------------------------------------------------------------
Completions ==
    \/ \E notes \in 0..2, sound \in BOOLEAN : ReadRequest(notes, sound)
    \/ ReadGarbage \/ ReadClosed \/ ReadAborted \/ ReadError

Next ==
    \/ \E kind \in Kind : ManagerSends(kind)
    \/ \E how \in {"closed", "lost"} : LinkGoes(how)
    \/ Completions
    \/ SendStatus
    \/ WriteDone \/ WriteFails
    \/ ServerCloses \/ CloseDone

Spec == Init /\ [][Next]_vars

\* The io_context's thread runs every handler whose operation has completed;
\* nothing is assumed of the manager, of the network or of the song.
FairSpec ==
    /\ Spec
    /\ WF_vars(Completions)
    /\ WF_vars(WriteDone)
    /\ WF_vars(WriteFails)
    /\ WF_vars(CloseDone)
-------------------------------------------------------------------------------
TypeOK ==
    /\ link \in {"open", "closed", "lost"}
    /\ inbox \in Seq(Kind)
    /\ sent \in 0..MaxRequests
    /\ reading \in BOOLEAN
    /\ failCounter \in 0..3
    /\ recent \in Seq(Kind \cup {"error"}) /\ Len(recent) <= 3
    /\ handled \in 0..MaxRequests
    /\ writeQueue \in Seq(0..MaxRequests)
    /\ writing \in BOOLEAN
    /\ inFlight \in Seq(0..MaxRequests)
    /\ delivered \in Seq(1..MaxRequests)
    /\ sounding \in BOOLEAN
    /\ closing \in {"no", "bad_payload", "going_away"}
    /\ closed \in BOOLEAN

\* The messages but the notes are 1..count, each once and in this order.
InOrder(messages, count) ==
    /\ {messages[k] : k \in DOMAIN messages} \ {Note} = 1..count
    /\ \A j, k \in DOMAIN messages :
          j < k /\ messages[j] # Note /\ messages[k] # Note => messages[j] < messages[k]

\* While the connection stands, every request that was handled has one
\* response, and the responses that were received, are being written and are
\* queued follow each other in the order of the requests: none is lost,
\* doubled or overtaken, however notifications come between them.
ResponsesInOrder ==
    link = "open" => InOrder(delivered \o inFlight \o writeQueue, handled)

\* Nothing stays in the queue without a write whose completion will send it,
\* and no two writes use writeBuffer_ at a time.
NoStalledWrite ==
    /\ Len(inFlight) <= 1
    /\ writeQueue # <<>> => writing
    /\ writing /\ link = "open" => inFlight # <<>>

\* The session ends the connection for bad payload exactly when the last three
\* messages failed, whatever came before, and reads on otherwise.
LastThreeFailed == Len(recent) = 3 /\ \A k \in 1..3 : recent[k] \in Fails
ThirdFailureCloses ==
    /\ LastThreeFailed => ~reading /\ closing # "no"
    /\ closing = "bad_payload" => LastThreeFailed

\* A request that was handled is answered, unless the connection ends.
ResponsesArrive ==
    \A n \in 1..MaxRequests :
        handled >= n ~> (n \in {delivered[k] : k \in DOMAIN delivered}
                            \/ link # "open" \/ closing # "no")

\* When the connection is gone, the session finds out and closes, which frees
\* the player server for the next manager.
LossIsNoticed == link # "open" ~> closed

\* What the comment at MusicPlayerAPI.cc 122 says: OnClose starts no write.
NoWriteOnClose ==
    [][closed' => inFlight' \in {inFlight, <<>>}]_vars
===============================================================================
