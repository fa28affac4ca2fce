--------------------------- MODULE SessionLoopProofs ---------------------------
(***************************************************************************)
(* The safety of SessionLoop, for any number of messages of the manager    *)
(* and whatever reads on a lost connection return.                         *)
(***************************************************************************)
EXTENDS SessionLoop, SequenceTheorems, TLAPS

\* No more is handled than has been sent, which bounds the numbers of responses.
Handled == handled + Len(inbox) <= sent

\* NoStalledWrite is not inductive alone: OnClose starts a write unless
\* writing_ is set, so that a pending write must have set it.
PendingIsWriting == inFlight # <<>> => writing

Writes == NoStalledWrite /\ PendingIsWriting

\* c is the number of failures at the end of the results r.
Tracks(r, c) ==
    /\ c <= Len(r)
    /\ \A k \in 1..Len(r) : k > Len(r) - c => r[k] \in Fails
    /\ c < Len(r) => r[Len(r) - c] \notin Fails

CountIsRecent == Tracks(recent, failCounter)

Result == Kind \cup {"error"}
Message == 0..MaxRequests

\* What the counter says of the read loop, in terms of the counter alone.
CountCloses ==
    /\ failCounter = 3 => ~reading /\ closing # "no"
    /\ closing = "bad_payload" => failCounter = 3

Counts == CountIsRecent /\ CountCloses

IInv == TypeOK /\ Handled /\ Writes /\ Counts /\ ResponsesInOrder
-------------------------------------------------------------------------------
(* Operators. *)

LEMMA LastThreeOf ==
    ASSUME NEW S, NEW s \in Seq(S)
    PROVE  /\ LastThree(s) \in Seq(S)
           /\ Len(LastThree(s)) = IF Len(s) > 3 THEN 3 ELSE Len(s)
           /\ \A k \in 1..Len(LastThree(s)) :
                 LastThree(s)[k] = s[k + Len(s) - Len(LastThree(s))]
  <1> DEFINE n == Len(s)
             m == IF n > 3 THEN n - 2 ELSE 1
  <1>1. n \in Nat /\ \A i \in 1..n : s[i] \in S
    BY LenProperties
  <1> HIDE DEF n
  <1>2. m \in 1..(n + 1) /\ n - m + 1 = IF n > 3 THEN 3 ELSE n
    BY <1>1
  <1>3. LastThree(s) = SubSeq(s, m, n)
    BY DEF LastThree, n
  <1> HIDE DEF m
  <1>4. \A i \in m..n : s[i] \in S
    BY <1>1, <1>2
  <1>5. /\ SubSeq(s, m, n) \in Seq(S)
        /\ Len(SubSeq(s, m, n)) = IF m <= n THEN n - m + 1 ELSE 0
        /\ \A i \in 1..(n - m + 1) : SubSeq(s, m, n)[i] = s[m + i - 1]
    BY <1>1, <1>2, <1>4, SubSeqProperties
  <1>6. Len(SubSeq(s, m, n)) = n - m + 1
    BY <1>1, <1>2, <1>5
  <1>7. \A k \in 1..(n - m + 1) : k + n - (n - m + 1) = m + k - 1
    BY <1>1, <1>2
  <1> QED BY <1>1, <1>2, <1>3, <1>5, <1>6, <1>7 DEF n

\* One more result: the counter follows the last three.
LEMMA Counting ==
    ASSUME NEW r \in Seq(Result), Len(r) <= 3, NEW c \in 0..2, Tracks(r, c),
           NEW kind \in Result
    PROVE  LET longer == LastThree(Append(r, kind))
           IN  /\ longer \in Seq(Result) /\ Len(longer) <= 3
               /\ Tracks(longer, IF kind \in Fails THEN c + 1 ELSE 0)
  <1> DEFINE a == Append(r, kind)
             t == LastThree(a)
             n == Len(r)
             m == Len(t)
             d == IF kind \in Fails THEN c + 1 ELSE 0
  <1>1. n \in 0..3
    <2>1. n \in Nat /\ n <= 3
      BY LenProperties
    <2> HIDE DEF n
    <2> QED BY <2>1
  <1>2. /\ a \in Seq(Result) /\ Len(a) = n + 1 /\ a[n + 1] = kind
        /\ \A k \in 1..n : a[k] = r[k]
    BY AppendProperties
  <1> HIDE DEF a, n
  <1>3. /\ t \in Seq(Result)
        /\ m = IF n + 1 > 3 THEN 3 ELSE n + 1
        /\ \A k \in 1..m : t[k] = a[k + (n + 1) - m]
    BY <1>2, LastThreeOf
  <1>4. /\ c <= n
        /\ \A k \in 1..n : k > n - c => r[k] \in Fails
        /\ c < n => r[n - c] \notin Fails
    BY DEF Tracks, n
  <1> HIDE DEF t, m
  <1>5. m \in 1..3 /\ m + (n + 1) - m = n + 1
    BY <1>1, <1>3
  <1>6. t[m] = kind
    BY <1>2, <1>3, <1>5
  <1>7. ASSUME NEW k \in 1..m, k < m
        PROVE  k + (n + 1) - m \in 1..n /\ t[k] = r[k + (n + 1) - m]
    <2>1. k + (n + 1) - m \in 1..n
      BY <1>1, <1>3, <1>5, <1>7
    <2> QED BY <2>1, <1>2, <1>3
  <1>8. CASE kind \notin Fails
    <2>1. d = 0 /\ m - d = m
      BY <1>5, <1>8
    <2> HIDE DEF d
    <2>2. /\ d <= m /\ t[m - d] \notin Fails
          /\ \A k \in 1..m : ~(k > m - d)
      BY <2>1, <1>5, <1>6, <1>8
    <2>3. Tracks(t, d)
      BY <2>2 DEF Tracks, m
    <2> QED BY <2>3, <1>3, <1>5 DEF t, a, m, d
  <1>9. CASE kind \in Fails
    <2>1. d = c + 1 /\ d <= m
      BY <1>1, <1>3, <1>4, <1>9
    <2> HIDE DEF d
    <2>2. ASSUME NEW k \in 1..m, k > m - d
          PROVE  t[k] \in Fails
      <3>1. CASE k = m
        BY <3>1, <1>6, <1>9
      <3>2. CASE k < m
        <4>1. k + (n + 1) - m > n - c
          BY <2>1, <2>2, <1>1, <1>5
        <4> QED BY <3>2, <4>1, <1>4, <1>7
      <3> QED BY <3>1, <3>2, <1>5
    <2>3. ASSUME d < m
          PROVE  t[m - d] \notin Fails
      <3> DEFINE k == m - d
      <3>1. k \in 1..m /\ k < m /\ k + (n + 1) - m = n - c /\ c < n
        BY <2>1, <2>3, <1>1, <1>3, <1>5
      <3> HIDE DEF k
      <3>2. t[k] = r[n - c]
        BY <3>1, <1>7
      <3> QED BY <3>1, <3>2, <1>4 DEF k
    <2>4. Tracks(t, d)
      BY <2>1, <2>2, <2>3 DEF Tracks, m
    <2> QED BY <2>4, <1>3, <1>5 DEF t, a, m, d
  <1> QED BY <1>8, <1>9

\* One message is a queue of one.
LEMMA OneMessage ==
    ASSUME NEW x \in Message
    PROVE  <<x>> \in Seq(Message) /\ Len(<<x>>) = 1 /\ <<x>> # <<>>
  OBVIOUS

LEMMA NoMessage == <<>> \in Seq(Message) /\ Len(<<>>) = 0
  OBVIOUS

\* At most one write is pending: it has gone when the first one has.
LEMMA LastWrite ==
    ASSUME NEW s \in Seq(Message), Len(s) <= 1, s # <<>>
    PROVE  Head(s) \in Message /\ Tail(s) = <<>>
  <1>1. Head(s) \in Message /\ Tail(s) \in Seq(Message) /\ Len(Tail(s)) = Len(s) - 1
    BY HeadTailProperties
  <1>2. Len(s) \in Nat /\ Len(Tail(s)) \in Nat
    BY <1>1, LenProperties
  <1>3. Len(Tail(s)) = 0
    BY <1>1, <1>2
  <1> QED BY <1>1, <1>3, EmptySeq

LEMMA FirstAndRest ==
    ASSUME NEW s \in Seq(Message), s # <<>>
    PROVE  s = <<Head(s)>> \o Tail(s)
  <1> DEFINE t == <<Head(s)>> \o Tail(s)
             n == Len(s)
  <1>1. /\ Head(s) \in Message /\ Tail(s) \in Seq(Message)
        /\ Len(Tail(s)) = n - 1 /\ n \in Nat
        /\ \A i \in 1..(n - 1) : Tail(s)[i] = s[i + 1]
        /\ Head(s) = s[1]
    BY HeadTailProperties, LenProperties
  <1>2. <<Head(s)>> \in Seq(Message) /\ Len(<<Head(s)>>) = 1 /\ <<Head(s)>>[1] = s[1]
    BY <1>1
  <1>3. /\ t \in Seq(Message) /\ Len(t) = 1 + (n - 1)
        /\ \A i \in 1..(1 + (n - 1)) :
              t[i] = IF i <= 1 THEN <<Head(s)>>[i] ELSE Tail(s)[i - 1]
    BY <1>1, <1>2, ConcatProperties
  <1> HIDE DEF t, n
  <1>4. ASSUME NEW i \in 1..n
        PROVE  s[i] = t[i]
    <2>1. CASE i = 1
      BY <2>1, <1>1, <1>2, <1>3
    <2>2. CASE i # 1
      <3>1. i - 1 \in 1..(n - 1) /\ (i - 1) + 1 = i /\ ~(i <= 1) /\ i \in 1..(1 + (n - 1))
        BY <2>2, <1>1
      <3>2. t[i] = Tail(s)[i - 1]
        BY <3>1, <1>3
      <3> QED BY <3>1, <3>2, <1>1
    <2> QED BY <2>1, <2>2
  <1>5. Len(t) = n
    BY <1>1, <1>3
  <1>6. s = t
    BY <1>3, <1>4, <1>5, SeqEqual DEF n
  <1> QED BY <1>6 DEF t

\* DoWrite keeps one write at a time, and none waits without one.
LEMMA DoWriteSound ==
    ASSUME TypeOK, Writes, NEW q \in Seq(Message), DoWrite(q, writing),
           UNCHANGED link
    PROVE  /\ Writes'
           /\ writeQueue' \in Seq(Message)
           /\ writing' \in BOOLEAN
           /\ inFlight' \in Seq(Message)
           /\ inFlight' \o writeQueue' = inFlight \o q
  <1>1. CASE q # <<>> /\ ~writing
    <2>1. inFlight = <<>>
      BY <1>1 DEF Writes, PendingIsWriting
    <2>2. Head(q) \in Message /\ Tail(q) \in Seq(Message)
      BY <1>1, HeadTailProperties
    <2>5. <<Head(q)>> \o Tail(q) = <<>> \o q
      BY <1>1, FirstAndRest, ConcatEmptySeq
    <2>3. inFlight' = <<Head(q)>> /\ writing' = TRUE /\ writeQueue' = Tail(q)
      BY <1>1, <2>1 DEF DoWrite
    <2>4. Len(inFlight') = 1 /\ inFlight' # <<>> /\ inFlight' \in Seq(Message)
      BY <2>2, <2>3, OneMessage
    <2> QED
      BY <2>1, <2>2, <2>3, <2>4, <2>5 DEF Writes, NoStalledWrite, PendingIsWriting
  <1>2. CASE ~(q # <<>> /\ ~writing)
    BY <1>2 DEF DoWrite, Writes, NoStalledWrite, PendingIsWriting, TypeOK, Message
  <1> QED BY <1>1, <1>2

\* So does OnClose, on a connection that is gone.
LEMMA OnCloseSound ==
    ASSUME TypeOK, Writes, OnClose, link' # "open"
    PROVE  /\ Writes'
           /\ writeQueue' \in Seq(Message)
           /\ writing' \in BOOLEAN
           /\ inFlight' \in Seq(Message)
  <1>0. Note \in Message
    BY MaxRequestsAssumption DEF Note, Message
  <1>1. CASE sounding /\ ~writing
    <2>1. inFlight = <<>>
      BY <1>1 DEF Writes, PendingIsWriting
    <2>2. Append(writeQueue, Note) \in Seq(Message) /\ Append(writeQueue, Note) # <<>>
      <3>1. writeQueue \in Seq(Message)
        BY DEF TypeOK, Message
      <3> QED BY <3>1, <1>0, AppendProperties
    <2>3. PICK m \in Message : m = Head(Append(writeQueue, Note))
      BY <2>2, HeadTailProperties
    <2>4. inFlight' = <<m>> /\ writing' = TRUE /\ writeQueue' = <<>>
      BY <1>1, <2>1, <2>3 DEF OnClose
    <2> QED
      BY <2>4, OneMessage, NoMessage DEF Writes, NoStalledWrite, PendingIsWriting
  <1>2. CASE ~(sounding /\ ~writing)
    BY <1>2, NoMessage DEF OnClose, Writes, NoStalledWrite, PendingIsWriting, TypeOK, Message
  <1> QED BY <1>1, <1>2

\* The completion of a write.
LEMMA NextWriteSound ==
    ASSUME TypeOK, Writes, inFlight # <<>>, NextWrite, UNCHANGED link
    PROVE  /\ Writes'
           /\ writeQueue' \in Seq(Message)
           /\ writing' \in BOOLEAN
           /\ inFlight' \in Seq(Message)
           /\ inFlight' \o writeQueue' = writeQueue
  <1>0. inFlight \in Seq(Message) /\ writeQueue \in Seq(Message) /\ Len(inFlight) <= 1
    BY DEF Writes, NoStalledWrite, TypeOK, Message
  <1>1. Tail(inFlight) = <<>>
    BY <1>0, LastWrite
  <1>2. CASE writeQueue # <<>>
    <2>1. inFlight' = <<Head(writeQueue)>> /\ writing' = TRUE /\ writeQueue' = Tail(writeQueue)
      BY <1>1, <1>2 DEF NextWrite
    <2>2. Head(writeQueue) \in Message /\ Tail(writeQueue) \in Seq(Message)
      BY <1>0, <1>2, HeadTailProperties
    <2>3. Len(inFlight') = 1 /\ inFlight' # <<>> /\ inFlight' \in Seq(Message)
      BY <2>1, <2>2, OneMessage
    <2>4. writing' = TRUE /\ writing' \in BOOLEAN /\ writeQueue' \in Seq(Message)
      BY <2>1, <2>2
    <2>5. Writes'
      BY <2>3, <2>4 DEF Writes, NoStalledWrite, PendingIsWriting
    <2>6. inFlight' \o writeQueue' = writeQueue
      BY <1>0, <1>2, <2>1, FirstAndRest
    <2> QED
      BY <2>3, <2>4, <2>5, <2>6
  <1>3. CASE writeQueue = <<>>
    <2>1. inFlight' = <<>> /\ writing' = FALSE /\ writeQueue' = <<>>
      BY <1>1, <1>3 DEF NextWrite
    <2>2. Len(inFlight') = 0 /\ inFlight' \in Seq(Message) /\ writeQueue' \in Seq(Message)
      BY <2>1, NoMessage
    <2>3. ~writing' /\ writing' \in BOOLEAN /\ ~(inFlight' # <<>>) /\ ~(writeQueue' # <<>>)
      BY <2>1
    <2>4. Writes'
      BY <2>2, <2>3 DEF Writes, NoStalledWrite, PendingIsWriting
    <2>5. inFlight' \o writeQueue' = writeQueue
      BY <1>0, <1>3, <2>1, ConcatEmptySeq
    <2> QED
      BY <2>2, <2>3, <2>4, <2>5
  <1> QED BY <1>2, <1>3

\* The end of OnRead: the counter follows the results, and closes at three.
LEMMA CountSound ==
    ASSUME TypeOK, Counts, reading, NEW kind \in Result, NEW q, CountAndGoOn(kind, q)
    PROVE  /\ Counts'
           /\ recent' \in Seq(Result) /\ Len(recent') <= 3
           /\ failCounter' \in 0..3
           /\ reading' \in BOOLEAN
           /\ closing' \in {"no", "bad_payload", "going_away"}
  <1>1. failCounter \in 0..2 /\ closing # "bad_payload"
    BY DEF Counts, CountCloses, TypeOK
  <1>2. recent \in Seq(Result) /\ Len(recent) <= 3 /\ Tracks(recent, failCounter)
    BY DEF TypeOK, Result, Counts, CountIsRecent
  <1>3. /\ recent' = LastThree(Append(recent, kind))
        /\ failCounter' = IF kind \in Fails THEN failCounter + 1 ELSE 0
    BY DEF CountAndGoOn
  <1>4. /\ recent' \in Seq(Result) /\ Len(recent') <= 3
        /\ Tracks(recent', failCounter')
    BY <1>1, <1>2, <1>3, Counting
  <1>5. failCounter' \in 0..3
    BY <1>1, <1>3
  <1>6. /\ reading' = (failCounter' < 3)
        /\ closing' = IF failCounter' >= 3 THEN "bad_payload" ELSE closing
    BY <1>3 DEF CountAndGoOn
  <1>7. CASE failCounter' = 3
    <2>1. ~(failCounter' < 3) /\ failCounter' >= 3
      BY <1>7
    <2>2. ~reading' /\ closing' = "bad_payload"
      BY <2>1, <1>6, Zenon
    <2>3. reading' \in BOOLEAN
      BY <1>6
    <2> QED BY <2>2, <2>3, <1>4, <1>5, <1>7 DEF Counts, CountIsRecent, CountCloses
  <1>8. CASE failCounter' # 3
    <2>1. failCounter' < 3 /\ ~(failCounter' >= 3)
      BY <1>5, <1>8
    <2>2. reading' = TRUE /\ closing' = closing
      BY <2>1, <1>6, Zenon
    <2> QED BY <2>2, <1>1, <1>4, <1>5, <1>8 DEF Counts, CountIsRecent, CountCloses, TypeOK
  <1> QED BY <1>7, <1>8
-------------------------------------------------------------------------------
(* Messages on their way, in order. *)

\* What InOrder says, index by index.
LEMMA InOrderByIndex ==
    ASSUME NEW s \in Seq(Message), NEW n \in Nat
    PROVE  InOrder(s, n) <=>
              /\ \A k \in 1..Len(s) : s[k] # Note => s[k] \in 1..n
              /\ \A m \in 1..n : \E k \in 1..Len(s) : s[k] = m
              /\ \A j, k \in 1..Len(s) :
                    j < k /\ s[j] # Note /\ s[k] # Note => s[j] < s[k]
  <1>1. DOMAIN s = 1..Len(s)
    BY LenProperties
  <1>2. Note \notin 1..n
    BY DEF Note
  <1> QED BY <1>1, <1>2 DEF InOrder

\* One more notification changes nothing, wherever it is queued.
LEMMA NoteAfter ==
    ASSUME NEW s \in Seq(Message), NEW n \in Nat, InOrder(s, n), Note \in Message
    PROVE  InOrder(Append(s, Note), n)
  <1> DEFINE t == Append(s, Note)
             l == Len(s)
  <1>1. /\ t \in Seq(Message) /\ Len(t) = l + 1 /\ t[l + 1] = Note /\ l \in Nat
        /\ \A k \in 1..l : t[k] = s[k]
    BY AppendProperties, LenProperties
  <1> HIDE DEF t
  <1>2. /\ \A k \in 1..l : s[k] # Note => s[k] \in 1..n
        /\ \A m \in 1..n : \E k \in 1..l : s[k] = m
        /\ \A j, k \in 1..l : j < k /\ s[j] # Note /\ s[k] # Note => s[j] < s[k]
    BY InOrderByIndex
  <1> HIDE DEF l
  <1>3. 1..(l + 1) = 1..l \cup {l + 1}
    BY <1>1
  <1>4. /\ \A k \in 1..(l + 1) : t[k] # Note => t[k] \in 1..n
        /\ \A m \in 1..n : \E k \in 1..(l + 1) : t[k] = m
    BY <1>1, <1>2, <1>3
  <1>5. \A j, k \in 1..(l + 1) : j < k /\ t[j] # Note /\ t[k] # Note => t[j] < t[k]
    BY <1>1, <1>2, <1>3
  <1>6. InOrder(t, n)
    BY <1>1, <1>4, <1>5, InOrderByIndex
  <1> QED BY <1>6 DEF t

\* The next response goes to the end.
LEMMA ResponseAfter ==
    ASSUME NEW s \in Seq(Message), NEW n \in Nat, InOrder(s, n), n + 1 \in Message
    PROVE  InOrder(Append(s, n + 1), n + 1)
  <1> DEFINE t == Append(s, n + 1)
             l == Len(s)
  <1>1. /\ t \in Seq(Message) /\ Len(t) = l + 1 /\ t[l + 1] = n + 1 /\ l \in Nat
        /\ \A k \in 1..l : t[k] = s[k]
    BY AppendProperties, LenProperties
  <1> HIDE DEF t
  <1>2. /\ \A k \in 1..l : s[k] # Note => s[k] \in 1..n
        /\ \A m \in 1..n : \E k \in 1..l : s[k] = m
        /\ \A j, k \in 1..l : j < k /\ s[j] # Note /\ s[k] # Note => s[j] < s[k]
    BY InOrderByIndex
  <1> HIDE DEF l
  <1>3. 1..(l + 1) = 1..l \cup {l + 1} /\ l + 1 \in 1..(l + 1)
    BY <1>1
  <1>4. 1..(n + 1) = 1..n \cup {n + 1} /\ \A m \in 1..n : m < n + 1
    OBVIOUS
  <1>5. \A k \in 1..(l + 1) : t[k] # Note => t[k] \in 1..(n + 1)
    BY <1>1, <1>2, <1>3, <1>4
  <1>6. \A m \in 1..(n + 1) : \E k \in 1..(l + 1) : t[k] = m
    BY <1>1, <1>2, <1>3, <1>4
  <1>7. ASSUME NEW j \in 1..(l + 1), NEW k \in 1..(l + 1), j < k, t[j] # Note, t[k] # Note
        PROVE  t[j] < t[k]
    <2>1. j \in 1..l /\ t[j] = s[j]
      BY <1>1, <1>7
    <2>2. CASE k = l + 1
      BY <2>1, <2>2, <1>1, <1>2, <1>4, <1>7
    <2>3. CASE k \in 1..l
      BY <2>1, <2>3, <1>1, <1>2, <1>7
    <2> QED BY <2>2, <2>3, <1>3
  <1>8. InOrder(t, n + 1)
    <2>1. PICK c \in Nat : c = n + 1
      OBVIOUS
    <2>2. InOrder(t, c) <=>
             /\ \A k \in 1..(l + 1) : t[k] # Note => t[k] \in 1..c
             /\ \A m \in 1..c : \E k \in 1..(l + 1) : t[k] = m
             /\ \A j, k \in 1..(l + 1) :
                   j < k /\ t[j] # Note /\ t[k] # Note => t[j] < t[k]
      BY <1>1, InOrderByIndex
    <2> QED BY <2>1, <2>2, <1>5, <1>6, <1>7
  <1> QED BY <1>8 DEF t

\* A notification that was received is forgotten.
LEMMA NoteGone ==
    ASSUME NEW s \in Seq(Message), NEW t \in Seq(Message), NEW n \in Nat,
           t # <<>>, Head(t) = Note, InOrder(s \o t, n)
    PROVE  InOrder(s \o Tail(t), n)
  <1> DEFINE u == s \o t
             v == s \o Tail(t)
             l == Len(s)
             m == Len(t)
             old(k) == IF k <= l THEN k ELSE k + 1
  <1>1. /\ Tail(t) \in Seq(Message) /\ Len(Tail(t)) = m - 1 /\ l \in Nat /\ m \in Nat \ {0}
        /\ \A i \in 1..(m - 1) : Tail(t)[i] = t[i + 1]
        /\ t[1] = Note
    BY HeadTailProperties, LenProperties, EmptySeq
  <1>2. /\ u \in Seq(Message) /\ Len(u) = l + m
        /\ \A i \in 1..(l + m) : u[i] = IF i <= l THEN s[i] ELSE t[i - l]
    BY ConcatProperties
  <1>3. /\ v \in Seq(Message) /\ Len(v) = l + (m - 1)
        /\ \A i \in 1..(l + (m - 1)) : v[i] = IF i <= l THEN s[i] ELSE Tail(t)[i - l]
    BY <1>1, ConcatProperties
  <1> HIDE DEF u, v, l, m
  <1>4. \A k \in 1..(l + (m - 1)) : old(k) \in 1..(l + m) /\ v[k] = u[old(k)]
    <2> TAKE k \in 1..(l + (m - 1))
    <2>1. CASE k <= l
      BY <2>1, <1>1, <1>2, <1>3
    <2>2. CASE k > l
      <3>1. k - l \in 1..(m - 1) /\ (k + 1) - l = (k - l) + 1 /\ k + 1 \in 1..(l + m)
            /\ ~(k <= l) /\ ~(k + 1 <= l)
        BY <2>2, <1>1
      <3>2. v[k] = t[(k - l) + 1]
        BY <3>1, <1>1, <1>3
      <3>3. u[k + 1] = t[(k + 1) - l]
        BY <3>1, <1>2
      <3> QED BY <2>2, <3>1, <3>2, <3>3
    <2> QED BY <2>1, <2>2, <1>1
  <1>5. u[l + 1] = Note
    <2>1. l + 1 \in 1..(l + m) /\ ~(l + 1 <= l) /\ (l + 1) - l = 1
      BY <1>1
    <2> QED BY <2>1, <1>1, <1>2
  <1>6. /\ \A k \in 1..(l + m) : u[k] # Note => u[k] \in 1..n
        /\ \A x \in 1..n : \E k \in 1..(l + m) : u[k] = x
        /\ \A j, k \in 1..(l + m) : j < k /\ u[j] # Note /\ u[k] # Note => u[j] < u[k]
    BY <1>2, InOrderByIndex DEF u
  <1>7. \A k \in 1..(l + (m - 1)) : v[k] # Note => v[k] \in 1..n
    BY <1>4, <1>6
  <1>8. ASSUME NEW x \in 1..n
        PROVE  \E k \in 1..(l + (m - 1)) : v[k] = x
    <2>1. PICK i \in 1..(l + m) : u[i] = x
      BY <1>6
    <2>2. i # l + 1
      BY <2>1, <1>5 DEF Note
    <2>3. CASE i <= l
      <3>1. i \in 1..(l + (m - 1)) /\ old(i) = i
        BY <2>3, <1>1
      <3> QED BY <3>1, <2>1, <1>4
    <2>4. CASE i > l + 1
      <3>1. i - 1 \in 1..(l + (m - 1)) /\ old(i - 1) = i
        BY <2>4, <1>1
      <3> QED BY <3>1, <2>1, <1>4
    <2> QED BY <2>2, <2>3, <2>4, <1>1
  <1>9. ASSUME NEW j \in 1..(l + (m - 1)), NEW k \in 1..(l + (m - 1)), j < k,
               v[j] # Note, v[k] # Note
        PROVE  v[j] < v[k]
    <2>1. old(j) < old(k)
      BY <1>1, <1>9
    <2> QED BY <2>1, <1>4, <1>6, <1>9
  <1>10. InOrder(v, n)
    BY <1>3, <1>7, <1>8, <1>9, InOrderByIndex
  <1> QED BY <1>10 DEF v
\* All that was sent, and what is still to arrive of it.
LEMMA Grouping ==
    ASSUME NEW d \in Seq(1..MaxRequests), NEW i \in Seq(Message), NEW w \in Seq(Message)
    PROVE  /\ d \in Seq(Message)
           /\ d \o i \o w = d \o (i \o w)
           /\ d \o i \in Seq(Message) /\ d \o i \o w \in Seq(Message)
  <1>1. d \in Seq(Message)
    <2>1. 1..MaxRequests \subseteq Message
      BY MaxRequestsAssumption DEF Message
    <2> QED BY <2>1, SeqMonotonic
  <1> QED BY <1>1, ConcatAssociative, ConcatProperties

LEMMA Grouped ==
    TypeOK => /\ delivered \in Seq(Message) /\ inFlight \in Seq(Message)
              /\ writeQueue \in Seq(Message)
              /\ delivered \o inFlight \o writeQueue = delivered \o (inFlight \o writeQueue)
              /\ delivered \o inFlight \o writeQueue \in Seq(Message)
  BY Grouping DEF TypeOK, Message

LEMMA GroupedNext ==
    TypeOK' => (delivered \o inFlight \o writeQueue)' = delivered' \o (inFlight' \o writeQueue')
  <1> SUFFICES ASSUME TypeOK'
               PROVE  (delivered \o inFlight \o writeQueue)' = delivered' \o (inFlight' \o writeQueue')
    OBVIOUS
  <1>1. /\ delivered' \in Seq(1..MaxRequests)
        /\ inFlight' \in Seq(Message) /\ writeQueue' \in Seq(Message)
    BY DEF TypeOK, Message
  <1> QED BY <1>1, Grouping

\* To write does not change the order.
LEMMA OrderKept ==
    ASSUME TypeOK, TypeOK', ResponsesInOrder, UNCHANGED <<delivered, handled>>,
           link' = "open" =>
              link = "open" /\ inFlight' \o writeQueue' = inFlight \o writeQueue
    PROVE  ResponsesInOrder'
  BY Grouped, GroupedNext DEF ResponsesInOrder

\* The messages q are queued instead of writeQueue.
LEMMA Regrouped ==
    ASSUME TypeOK, TypeOK', NEW q \in Seq(Message), UNCHANGED delivered,
           inFlight' \o writeQueue' = inFlight \o (writeQueue \o q)
    PROVE  (delivered \o inFlight \o writeQueue)' = (delivered \o inFlight \o writeQueue) \o q
  <1>1. /\ delivered \in Seq(Message) /\ inFlight \in Seq(Message)
        /\ writeQueue \in Seq(Message)
        /\ delivered \o inFlight \in Seq(Message) /\ writeQueue \o q \in Seq(Message)
    BY Grouped, ConcatProperties
  <1>2. (delivered \o inFlight \o writeQueue) \o q = (delivered \o inFlight) \o (writeQueue \o q)
    BY <1>1, ConcatAssociative
  <1>3. (delivered \o inFlight) \o (writeQueue \o q) = delivered \o (inFlight \o (writeQueue \o q))
    BY <1>1, ConcatAssociative
  <1>4. (delivered \o inFlight \o writeQueue)' = delivered \o (inFlight' \o writeQueue')
    BY GroupedNext
  <1> QED BY <1>2, <1>3, <1>4

LEMMA NoteIsMessage == Note \in Message
  BY MaxRequestsAssumption DEF Note, Message

\* The notifications of a request and its response.
LEMMA RequestInOrder ==
    ASSUME NEW s \in Seq(Message), NEW n \in Nat, InOrder(s, n), n + 1 \in Message,
           NEW notes \in 0..2
    PROVE  InOrder(s \o ([i \in 1..notes |-> Note] \o <<n + 1>>), n + 1)
  <1> DEFINE said == [i \in 1..notes |-> Note]
  <1>1. said \in Seq(Message) /\ <<n + 1>> \in Seq(Message)
    BY NoteIsMessage, OneMessage
  <1>2. s \o (said \o <<n + 1>>) = (s \o said) \o <<n + 1>> /\ s \o said \in Seq(Message)
    BY <1>1, ConcatAssociative, ConcatProperties
  <1>3. InOrder(s \o said, n)
    <2>1. CASE notes = 0
      <3>1. said = <<>>
        BY <2>1
      <3> QED BY <3>1, ConcatEmptySeq
    <2>2. CASE notes = 1
      <3>1. said = <<Note>>
        BY <2>2
      <3>2. s \o said = Append(s, Note)
        BY <3>1, NoteIsMessage, AppendIsConcat
      <3> QED BY <3>2, NoteIsMessage, NoteAfter
    <2>3. CASE notes = 2
      <3> DEFINE t == Append(s, Note)
      <3>1. t = s \o <<Note>> /\ t \in Seq(Message) /\ InOrder(t, n)
        BY NoteIsMessage, AppendIsConcat, AppendProperties, NoteAfter
      <3>2. <<Note>> \o <<Note>> = said
        BY <2>3
      <3>3. Append(t, Note) = (s \o <<Note>>) \o <<Note>>
        BY <3>1, NoteIsMessage, AppendIsConcat
      <3>4. (s \o <<Note>>) \o <<Note>> = s \o said
        BY <3>2, NoteIsMessage, OneMessage, ConcatAssociative
      <3> HIDE DEF t
      <3> QED BY <3>1, <3>3, <3>4, NoteIsMessage, NoteAfter
    <2> QED BY <2>1, <2>2, <2>3
  <1> HIDE DEF said
  <1>4. (s \o said) \o <<n + 1>> = Append(s \o said, n + 1)
    BY <1>2, AppendIsConcat
  <1> QED BY <1>2, <1>3, <1>4, ResponseAfter DEF said
-------------------------------------------------------------------------------
LEMMA InitIInv == Init => IInv
  <1> SUFFICES ASSUME Init
               PROVE  IInv
    OBVIOUS
  <1>1. TypeOK
    <2>1. /\ inbox \in Seq(Kind) /\ recent \in Seq(Kind \cup {"error"})
          /\ writeQueue \in Seq(Message) /\ inFlight \in Seq(Message)
          /\ delivered \in Seq(1..MaxRequests)
      BY DEF Init
    <2>2. Len(recent) <= 3
      BY DEF Init
    <2>3. sent \in 0..MaxRequests /\ handled \in 0..MaxRequests /\ failCounter \in 0..3
      BY MaxRequestsAssumption DEF Init
    <2>4. writing \in BOOLEAN /\ sounding \in BOOLEAN /\ closed \in BOOLEAN /\ reading \in BOOLEAN
      BY DEF Init
    <2>5. link = "open" /\ closing = "no"
      BY DEF Init
    <2> HIDE DEF Init
    <2> QED BY <2>1, <2>2, <2>3, <2>4, <2>5 DEF TypeOK, Message
  <1>2. Handled /\ Writes
    BY DEF Init, Handled, Writes, NoStalledWrite, PendingIsWriting
  <1>3. Counts
    <2>1. recent = <<>> /\ Len(recent) = 0 /\ failCounter = 0 /\ closing = "no"
      BY DEF Init
    <2>2. Tracks(recent, failCounter)
      BY <2>1 DEF Tracks
    <2> QED BY <2>1, <2>2 DEF Counts, CountIsRecent, CountCloses
  <1>4. ResponsesInOrder
    <2>1. <<>> \in Seq(Message) /\ <<>> \o <<>> = <<>> /\ Len(<<>>) = 0
      BY NoMessage, ConcatEmptySeq
    <2>2. delivered \o inFlight \o writeQueue = <<>> /\ handled = 0
      BY <2>1 DEF Init
    <2>3. InOrder(<<>>, 0)
      BY DEF InOrder
    <2> QED BY <2>2, <2>3 DEF ResponsesInOrder
  <1> QED BY <1>1, <1>2, <1>3, <1>4 DEF IInv

\* The manager and the network.
LEMMA ManagerIInv ==
    ASSUME IInv, NEW kind \in Kind, ManagerSends(kind)
    PROVE  IInv'
  <1>1. TypeOK' /\ Handled'
    BY MaxRequestsAssumption, AppendProperties, LenProperties
       DEF IInv, TypeOK, Handled, ManagerSends, output
  <1>2. Writes' /\ Counts'
    BY DEF IInv, Writes, NoStalledWrite, PendingIsWriting, Counts, CountIsRecent, CountCloses,
           ManagerSends, output
  <1>3. ResponsesInOrder'
    BY DEF IInv, ResponsesInOrder, ManagerSends, output
  <1> QED BY <1>1, <1>2, <1>3 DEF IInv

LEMMA LinkIInv ==
    ASSUME IInv, NEW how \in {"closed", "lost"}, LinkGoes(how)
    PROVE  IInv'
  <1>1. TypeOK' /\ Handled'
    BY DEF IInv, TypeOK, Handled, LinkGoes, output, input
  <1>2. Writes' /\ Counts'
    BY DEF IInv, Writes, NoStalledWrite, PendingIsWriting, Counts, CountIsRecent, CountCloses,
           LinkGoes, output
  <1>3. ResponsesInOrder'
    BY DEF ResponsesInOrder, LinkGoes
  <1> QED BY <1>1, <1>2, <1>3 DEF IInv

\* Reads.
LEMMA ReadRequestIInv ==
    ASSUME IInv, NEW notes \in 0..2, NEW sound \in BOOLEAN, ReadRequest(notes, sound)
    PROVE  IInv'
  <1> DEFINE q == writeQueue \o [i \in 1..notes |-> Note] \o <<handled + 1>>
  <1>1. /\ Head(inbox) \in Kind /\ inbox' \in Seq(Kind)
        /\ Len(inbox') = Len(inbox) - 1 /\ Len(inbox) \in Nat \ {0}
    BY HeadTailProperties, EmptySeq DEF ReadRequest, IInv, TypeOK
  <1>2. handled' = handled + 1 /\ handled' \in 0..MaxRequests /\ Handled'
    BY <1>1, MaxRequestsAssumption DEF ReadRequest, IInv, TypeOK, Handled
  <1>3. q \in Seq(Message)
    <2>1. [i \in 1..notes |-> Note] \in Seq(Message)
      BY MaxRequestsAssumption DEF Note, Message
    <2>2. <<handled + 1>> \in Seq(Message)
      BY <1>2, OneMessage DEF Message
    <2>3. writeQueue \in Seq(Message)
      BY DEF IInv, TypeOK, Message
    <2> QED BY <2>1, <2>2, <2>3, ConcatProperties
  <1>4. CountAndGoOn(Head(inbox), q) /\ reading /\ UNCHANGED link
    BY DEF ReadRequest
  <1> HIDE DEF q
  <1>5. DoWrite(q, writing)
    BY <1>4 DEF CountAndGoOn
  <1>6. TypeOK'
    BY <1>1, <1>2, <1>3, <1>4, <1>5, CountSound, DoWriteSound DEF IInv, ReadRequest, TypeOK, Message, Result
  <1>7. ResponsesInOrder'
    <2> DEFINE said == [i \in 1..notes |-> Note] \o <<handled + 1>>
               all == delivered \o inFlight \o writeQueue
    <2>1. handled \in Nat /\ handled + 1 \in Message
      BY <1>2 DEF Message, IInv, TypeOK
    <2>2. [i \in 1..notes |-> Note] \in Seq(Message) /\ <<handled + 1>> \in Seq(Message)
      BY <2>1, NoteIsMessage, OneMessage
    <2>3. said \in Seq(Message) /\ q = writeQueue \o said
      <3>1. writeQueue \in Seq(Message)
        BY Grouped DEF IInv
      <3> QED BY <2>2, <3>1, ConcatProperties, ConcatAssociative DEF q
    <2>4. inFlight' \o writeQueue' = inFlight \o q /\ UNCHANGED delivered
      BY <1>3, <1>4, <1>5, DoWriteSound DEF IInv, ReadRequest
    <2> HIDE DEF said
    <2>5. all' = all \o said
      BY <1>6, <2>3, <2>4, Regrouped DEF IInv
    <2>6. CASE link = "open"
      <3>1. InOrder(all, handled) /\ all \in Seq(Message)
        BY <2>6, Grouped DEF IInv, ResponsesInOrder
      <3> HIDE DEF all
      <3>2. InOrder(all \o said, handled + 1)
        BY <3>1, <2>1, RequestInOrder DEF said
      <3> QED BY <3>2, <2>5, <1>2 DEF ResponsesInOrder, all
    <2> QED BY <2>6, <1>4 DEF ResponsesInOrder
  <1> QED
    BY <1>1, <1>2, <1>3, <1>4, <1>5, <1>6, <1>7, CountSound, DoWriteSound DEF IInv, Result

LEMMA ReadOtherIInv ==
    ASSUME IInv, ReadGarbage \/ ReadError
    PROVE  IInv'
  <1>1. writeQueue \in Seq(Message)
    BY DEF IInv, TypeOK, Message
  <1>2. CASE ReadGarbage
    <2>1. inbox' \in Seq(Kind) /\ Len(inbox') = Len(inbox) - 1 /\ Len(inbox) \in Nat
      BY <1>2, HeadTailProperties, LenProperties DEF ReadGarbage, IInv, TypeOK
    <2>2. CountAndGoOn("garbage", writeQueue) /\ reading /\ UNCHANGED link
      BY <1>2 DEF ReadGarbage
    <2>3. DoWrite(writeQueue, writing) /\ "garbage" \in Kind
      BY <2>2 DEF CountAndGoOn, Kind
    <2>4. Handled'
      BY <1>2, <2>1 DEF ReadGarbage, IInv, Handled, TypeOK
    <2>5. TypeOK'
      BY <1>1, <1>2, <2>1, <2>2, <2>3, CountSound, DoWriteSound DEF IInv, ReadGarbage, TypeOK, Message, Result
    <2>6. ResponsesInOrder'
      BY <1>1, <1>2, <2>2, <2>3, <2>5, DoWriteSound, OrderKept DEF IInv, ReadGarbage
    <2> QED
      BY <1>1, <2>2, <2>3, <2>4, <2>5, <2>6, CountSound, DoWriteSound DEF IInv, Result
  <1>3. CASE ReadError
    <2>2. CountAndGoOn("error", writeQueue) /\ reading /\ UNCHANGED link
      BY <1>3 DEF ReadError
    <2>3. DoWrite(writeQueue, writing)
      BY <2>2 DEF CountAndGoOn
    <2>4. Handled'
      BY <1>3 DEF ReadError, IInv, Handled, input
    <2>5. TypeOK'
      BY <1>1, <1>3, <2>2, <2>3, CountSound, DoWriteSound DEF IInv, ReadError, input, TypeOK, Message, Result
    <2>6. ResponsesInOrder'
      BY <1>1, <1>3, <2>2, <2>3, <2>5, DoWriteSound, OrderKept DEF IInv, ReadError
    <2> QED
      BY <1>1, <2>2, <2>3, <2>4, <2>5, <2>6, CountSound, DoWriteSound DEF IInv, Result
  <1> QED BY <1>2, <1>3

LEMMA ReadEndsIInv ==
    ASSUME IInv, ReadClosed \/ ReadAborted
    PROVE  IInv'
  <1>1. Counts' /\ Handled'
    BY DEF IInv, Counts, CountIsRecent, CountCloses, Handled, ReadClosed, ReadAborted, input
  <1>2. CASE ReadClosed
    <2>1. OnClose /\ link' # "open"
      BY <1>2 DEF ReadClosed
    <2>2. TypeOK'
      BY <1>2, <2>1, OnCloseSound DEF IInv, TypeOK, Message, ReadClosed, OnClose, input
    <2>3. ResponsesInOrder'
      BY <2>1 DEF ResponsesInOrder
    <2> QED BY <1>1, <2>1, <2>2, <2>3, OnCloseSound DEF IInv
  <1>3. CASE ReadAborted
    <2>1. TypeOK' /\ Writes' /\ ResponsesInOrder'
      BY <1>3 DEF IInv, TypeOK, Writes, NoStalledWrite, PendingIsWriting, ReadAborted, input,
                  output, ResponsesInOrder
    <2> QED BY <1>1, <2>1 DEF IInv
  <1> QED BY <1>2, <1>3

\* Writes.
LEMMA WriteIInv ==
    ASSUME IInv, SendStatus \/ WriteDone \/ WriteFails
    PROVE  IInv'
  <1>1. Counts' /\ Handled'
    BY DEF IInv, Counts, CountIsRecent, CountCloses, Handled, SendStatus, WriteDone, WriteFails,
           input
  <1>2. CASE SendStatus
    <2> DEFINE q == Append(writeQueue, Note)
    <2>1. q \in Seq(Message)
      BY MaxRequestsAssumption, AppendProperties DEF IInv, TypeOK, Note, Message
    <2>2. DoWrite(q, writing) /\ UNCHANGED link
      BY <1>2 DEF SendStatus
    <2> HIDE DEF q
    <2>3. TypeOK'
      BY <1>2, <2>1, <2>2, DoWriteSound DEF IInv, TypeOK, Message, SendStatus, input
    <2>4. ResponsesInOrder'
      <3> DEFINE all == delivered \o inFlight \o writeQueue
      <3>1. q = writeQueue \o <<Note>> /\ <<Note>> \in Seq(Message)
        BY Grouped, NoteIsMessage, OneMessage, AppendIsConcat DEF IInv, q
      <3>2. all' = all \o <<Note>> /\ all \in Seq(Message)
        BY <1>2, <2>1, <2>2, <2>3, <3>1, DoWriteSound, Regrouped, Grouped DEF IInv, SendStatus
      <3> HIDE DEF all
      <3>3. CASE link = "open"
        <4>1. InOrder(all, handled) /\ handled \in Nat
          BY <3>3 DEF IInv, TypeOK, ResponsesInOrder, all
        <4>2. InOrder(Append(all, Note), handled)
          BY <3>2, <4>1, NoteIsMessage, NoteAfter
        <4> QED BY <1>2, <3>2, <4>2, NoteIsMessage, AppendIsConcat DEF SendStatus, ResponsesInOrder, all
      <3> QED BY <2>2, <3>3 DEF ResponsesInOrder
    <2> QED BY <1>1, <2>1, <2>2, <2>3, <2>4, DoWriteSound DEF IInv
  <1>3. CASE WriteDone
    <2>1. delivered' \in Seq(1..MaxRequests)
      <3>0. inFlight \in Seq(Message) /\ inFlight # <<>> /\ delivered \in Seq(1..MaxRequests)
        BY <1>3 DEF WriteDone, IInv, TypeOK, Message
      <3>1. Head(inFlight) \in Message
        BY <3>0, HeadTailProperties
      <3>2. CASE Head(inFlight) = Note
        BY <1>3, <3>0, <3>2 DEF WriteDone
      <3>3. CASE Head(inFlight) # Note
        <4>1. Head(inFlight) \in 1..MaxRequests
          BY <3>1, <3>3 DEF Note, Message
        <4> QED BY <1>3, <3>0, <3>3, <4>1, AppendProperties DEF WriteDone
      <3> QED BY <3>2, <3>3
    <2>2. NextWrite /\ inFlight # <<>> /\ UNCHANGED link
      BY <1>3 DEF WriteDone
    <2>3. TypeOK'
      BY <1>3, <2>1, <2>2, NextWriteSound DEF IInv, TypeOK, Message, WriteDone, input
    <2>4. ResponsesInOrder'
      <3> DEFINE m == Head(inFlight)
      <3>1. /\ delivered \in Seq(Message) /\ writeQueue \in Seq(Message)
            /\ delivered \o inFlight \o writeQueue = delivered \o (inFlight \o writeQueue)
            /\ (delivered \o inFlight \o writeQueue)' = delivered' \o writeQueue
            /\ m \in Message /\ inFlight = <<m>>
        <4>1. inFlight' \o writeQueue' = writeQueue
          BY <2>2, NextWriteSound DEF IInv
        <4>2. m \in Message /\ inFlight = <<m>>
          <5>1. inFlight \in Seq(Message) /\ inFlight # <<>> /\ Len(inFlight) <= 1
            BY <2>2 DEF IInv, TypeOK, Message, Writes, NoStalledWrite
          <5>2. Tail(inFlight) = <<>> /\ m \in Message
            BY <5>1, LastWrite
          <5>3. inFlight = <<m>> \o <<>>
            BY <5>1, <5>2, FirstAndRest
          <5> QED BY <5>2, <5>3
        <4> QED BY <4>1, <4>2, <2>3, Grouped, GroupedNext DEF IInv
      <3> HIDE DEF m
      <3>2. CASE m = Note
        <4> DEFINE t == <<m>> \o writeQueue
        <4>1. /\ t \in Seq(Message) /\ t # <<>> /\ Head(t) = m /\ Tail(t) = writeQueue
          <5>1. <<m>> \in Seq(Message) /\ Len(<<m>>) = 1
            BY <3>1, OneMessage
          <5>2. /\ t \in Seq(Message) /\ Len(t) = 1 + Len(writeQueue)
                /\ \A i \in 1..(1 + Len(writeQueue)) :
                      t[i] = IF i <= 1 THEN <<m>>[i] ELSE writeQueue[i - 1]
            BY <5>1, <3>1, ConcatProperties
          <5>3. Len(writeQueue) \in Nat
            BY <3>1, LenProperties
          <5> HIDE DEF t
          <5>4. t # <<>> /\ t[1] = m
            BY <5>2, <5>3, EmptySeq
          <5>5. /\ Tail(t) \in Seq(Message) /\ Len(Tail(t)) = Len(writeQueue)
                /\ \A i \in 1..Len(Tail(t)) : Tail(t)[i] = t[i + 1]
            BY <5>2, <5>3, <5>4, HeadTailProperties
          <5>6. \A i \in 1..Len(Tail(t)) : Tail(t)[i] = writeQueue[i]
            <6> TAKE i \in 1..Len(Tail(t))
            <6>1. i + 1 \in 1..(1 + Len(writeQueue)) /\ ~(i + 1 <= 1) /\ (i + 1) - 1 = i
              BY <5>3, <5>5
            <6> QED BY <6>1, <5>2, <5>5
          <5>7. Tail(t) = writeQueue
            BY <3>1, <5>5, <5>6, SeqEqual
          <5>8. Head(t) = t[1]
            BY <5>2, <5>4
          <5> QED BY <5>2, <5>4, <5>7, <5>8
        <4>2. InOrder(delivered \o t, handled) /\ handled \in Nat
          BY <1>3, <3>1 DEF IInv, TypeOK, ResponsesInOrder, WriteDone
        <4> HIDE DEF t
        <4>3. InOrder(delivered \o writeQueue, handled)
          BY <3>1, <3>2, <4>1, <4>2, NoteGone
        <4> QED BY <1>3, <3>1, <3>2, <4>3 DEF ResponsesInOrder, WriteDone, m
      <3>3. CASE m # Note
        <4>1. delivered' = delivered \o inFlight
          BY <1>3, <3>1, <3>3, AppendIsConcat DEF WriteDone, m
        <4> QED BY <1>3, <3>1, <4>1 DEF IInv, ResponsesInOrder, WriteDone
      <3> QED BY <3>2, <3>3
    <2> QED BY <1>1, <2>2, <2>3, <2>4, NextWriteSound DEF IInv
  <1>4. CASE WriteFails /\ NextWrite
    <2>1. NextWrite /\ inFlight # <<>> /\ UNCHANGED link
      BY <1>4 DEF WriteFails
    <2>2. TypeOK'
      BY <1>4, <2>1, NextWriteSound DEF IInv, TypeOK, Message, WriteFails, input
    <2>3. ResponsesInOrder'
      BY <1>4 DEF WriteFails, ResponsesInOrder
    <2> QED BY <1>1, <2>1, <2>2, <2>3, NextWriteSound DEF IInv
  <1>5. CASE WriteFails /\ ~NextWrite
    <2>1. inFlight' = Tail(inFlight) /\ UNCHANGED <<writeQueue, writing>> /\ link # "open"
      BY <1>5 DEF WriteFails
    <2>2. inFlight' = <<>> /\ link' # "open"
      BY <1>5, <2>1, LastWrite DEF WriteFails, IInv, Writes, NoStalledWrite, TypeOK, Message
    <2>3. TypeOK'
      BY <1>5, <2>1, <2>2, NoMessage DEF IInv, TypeOK, Message, WriteFails, input
    <2>4. Writes'
      BY <2>1, <2>2, NoMessage DEF IInv, Writes, NoStalledWrite, PendingIsWriting
    <2>5. ResponsesInOrder'
      BY <2>2 DEF ResponsesInOrder
    <2> QED BY <1>1, <2>3, <2>4, <2>5 DEF IInv
  <1> QED BY <1>2, <1>3, <1>4, <1>5

\* Closing.
LEMMA ClosingIInv ==
    ASSUME IInv, ServerCloses \/ CloseDone
    PROVE  IInv'
  <1>1. Counts' /\ Handled'
    BY DEF IInv, TypeOK, Counts, CountIsRecent, CountCloses, Handled, ServerCloses, CloseDone,
           input
  <1>2. CASE ServerCloses
    <2>1. TypeOK' /\ Writes' /\ ResponsesInOrder'
      BY <1>2 DEF IInv, TypeOK, Writes, NoStalledWrite, PendingIsWriting, ServerCloses, input,
                  output, ResponsesInOrder
    <2> QED BY <1>1, <2>1 DEF IInv
  <1>3. CASE CloseDone
    <2>1. OnClose /\ link' # "open" /\ link' \in {"closed", "lost"}
      BY <1>3 DEF CloseDone, IInv, TypeOK
    <2>2. TypeOK'
      BY <1>3, <2>1, OnCloseSound DEF IInv, TypeOK, Message, CloseDone, OnClose, input
    <2>3. ResponsesInOrder'
      BY <2>1 DEF ResponsesInOrder
    <2> QED BY <1>1, <2>1, <2>2, <2>3, OnCloseSound DEF IInv
  <1> QED BY <1>2, <1>3

LEMMA NextIInv == IInv /\ [Next]_vars => IInv'
  <1> SUFFICES ASSUME IInv, [Next]_vars
               PROVE  IInv'
    OBVIOUS
  <1>1. CASE UNCHANGED vars
    BY <1>1 DEF vars, input, output, IInv, TypeOK, Handled, Writes, NoStalledWrite,
                PendingIsWriting, Counts, CountIsRecent, CountCloses, ResponsesInOrder
  <1>2. CASE Next
    BY <1>2, ManagerIInv, LinkIInv, ReadRequestIInv, ReadOtherIInv, ReadEndsIInv, WriteIInv,
       ClosingIInv DEF Next, Completions
  <1> QED BY <1>1, <1>2

LEMMA Invariant == Spec => []IInv
  BY InitIInv, NextIInv, PTL DEF Spec
-------------------------------------------------------------------------------
\* Type correctness of the session's loop.
THEOREM TypeCorrect == Spec => []TypeOK
  <1>1. IInv => TypeOK
    BY DEF IInv
  <1> QED BY <1>1, Invariant, PTL

\* The write queue never waits without a pending write, and writeBuffer_ is
\* used by one write at a time (MusicPlayerAPI.cc 86-117).
THEOREM WritesNeverStall == Spec => []NoStalledWrite
  <1>1. IInv => NoStalledWrite
    BY DEF IInv, Writes
  <1> QED BY <1>1, Invariant, PTL

\* While the connection stands, no response is lost, doubled or overtaken by
\* another, however notifications come between them (MusicPlayerAPI.cc 71-117).
THEOREM ResponsesAlwaysInOrder == Spec => []ResponsesInOrder
  <1>1. IInv => ResponsesInOrder
    BY DEF IInv
  <1> QED BY <1>1, Invariant, PTL

\* The connection is closed for bad payload exactly when the last three
\* messages failed (MusicPlayerAPI.cc 71-84, 193-217).
THEOREM ThirdFailureAlwaysCloses == Spec => []ThirdFailureCloses
  <1>1. IInv => ThirdFailureCloses
    <2> SUFFICES ASSUME IInv
                 PROVE  ThirdFailureCloses
      OBVIOUS
    <2> DEFINE n == Len(recent)
    <2>1. recent \in Seq(Result) /\ n <= 3 /\ failCounter \in 0..3
      BY DEF IInv, TypeOK, Result
    <2>2. n \in 0..3
      <3>1. n \in Nat
        BY <2>1, LenProperties
      <3> HIDE DEF n
      <3> QED BY <3>1, <2>1
    <2>3. /\ failCounter <= n
          /\ \A k \in 1..n : k > n - failCounter => recent[k] \in Fails
          /\ failCounter < n => recent[n - failCounter] \notin Fails
      BY DEF IInv, Counts, CountIsRecent, Tracks
    <2> HIDE DEF n
    <2>4. ASSUME failCounter = 3
          PROVE  LastThreeFailed
      <3>1. n = 3 /\ \A k \in 1..3 : k > n - failCounter
        BY <2>1, <2>2, <2>3, <2>4
      <3> QED BY <3>1, <2>3 DEF LastThreeFailed, n
    <2>5. ASSUME LastThreeFailed, failCounter # 3
          PROVE  FALSE
      <3>1. n = 3
        BY <2>5 DEF LastThreeFailed, n
      <3>2. failCounter < n /\ n - failCounter \in 1..3
        BY <2>1, <2>5, <3>1
      <3> QED BY <3>2, <2>3, <2>5 DEF LastThreeFailed
    <2> QED BY <2>4, <2>5 DEF IInv, Counts, CountCloses, ThirdFailureCloses
  <1> QED BY <1>1, Invariant, PTL
===============================================================================
