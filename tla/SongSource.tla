------------------------------ MODULE SongSource ------------------------------
(***************************************************************************)
(* What the player relies on when it asks the song cache for the next      *)
(* song (SongCache::NextSong, SongCache::UpdateQueue, SongCache::Reset):   *)
(* the queue is replaced as a whole, songs leave it only at its head, a    *)
(* call delivers the song it took last or reports that this song failed,   *)
(* and "empty" is answered only when nothing is left.                      *)
(*                                                                         *)
(* Nothing here mentions downloads, the cache or waiting: those are the    *)
(* business of SongCache, which is shown to implement this module.         *)
(***************************************************************************)
EXTENDS Sequences

CONSTANTS Item,     \* itemIds of queue entries
          NoItem,   \* "no entry taken yet"
          Queues,   \* the queues a manager may send (UPDATEQUEUE)
          Thread    \* threads that may be inside NextSong

VARIABLES queue,    \* SongCache::queue_
          calling,  \* [Thread -> BOOLEAN]: is the thread inside NextSong?
          taken,    \* [Thread -> Item \cup {NoItem}]: last entry the call took
          outcome   \* [Thread -> Outcome]: how the thread's last call ended

vars == <<queue, calling, taken, outcome>>

Outcome == {"none", "song", "failed", "disconnected", "empty"}

Init ==
    /\ queue = <<>>
    /\ calling = [t \in Thread |-> FALSE]
    /\ taken = [t \in Thread |-> NoItem]
    /\ outcome = [t \in Thread |-> "none"]

\* The manager replaces the queue.
Replace(q) ==
    /\ queue' = q
    /\ UNCHANGED <<calling, taken, outcome>>

\* The player drops everything.
Clear ==
    /\ queue' = <<>>
    /\ UNCHANGED <<calling, taken, outcome>>

Call(t) ==
    /\ ~calling[t]
    /\ calling' = [calling EXCEPT ![t] = TRUE]
    /\ taken' = [taken EXCEPT ![t] = NoItem]
    /\ outcome' = [outcome EXCEPT ![t] = "none"]
    /\ UNCHANGED queue

\* The call ends with outcome o.
End(t, o) ==
    /\ calling' = [calling EXCEPT ![t] = FALSE]
    /\ outcome' = [outcome EXCEPT ![t] = o]

TakeHead(t) ==
    /\ calling[t]
    /\ queue # <<>>
    /\ queue' = Tail(queue)
    /\ taken' = [taken EXCEPT ![t] = Head(queue)]

\* The head is ready: it is the answer.
Deliver(t) ==
    /\ TakeHead(t)
    /\ End(t, "song")

\* The head is not ready: the call has taken it and goes on.
Skim(t) ==
    /\ TakeHead(t)
    /\ UNCHANGED <<calling, outcome>>

\* The entry the call took has failed: the answer is that it failed, or that
\* the file server is gone.
Report(t) ==
    /\ calling[t]
    /\ taken[t] # NoItem
    /\ \E o \in {"failed", "disconnected"} : End(t, o)
    /\ UNCHANGED <<queue, taken>>

Exhaust(t) ==
    /\ calling[t]
    /\ queue = <<>>
    /\ End(t, "empty")
    /\ UNCHANGED <<queue, taken>>

Next ==
    \/ \E q \in Queues : Replace(q)
    \/ Clear
    \/ \E t \in Thread : Call(t) \/ Deliver(t) \/ Skim(t) \/ Report(t) \/ Exhaust(t)

Spec == Init /\ [][Next]_vars
===============================================================================
