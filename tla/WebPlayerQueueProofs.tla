-------------------------- MODULE WebPlayerQueueProofs --------------------------
(***************************************************************************)
(* The queues of WebPlayer and what the player has of them, for any number *)
(* of sockets, items and events, on top of what WebPlayerProofs says of    *)
(* the sockets.                                                            *)
(***************************************************************************)
EXTENDS WebPlayerProofs, FiniteSetTheorems, FunctionTheorems

\* No item is twice in s.
Once(s) == \A i, j \in DOMAIN s : s[i] = s[j] => i = j

\* The sequence t is the end of s.
Suffix(t, s) ==
    /\ Len(t) <= Len(s)
    /\ \A i \in 1..Len(t) : t[i] = s[i + (Len(s) - Len(t))]

\* Queues of items that were made, m of them.
QueuesOf(m) == [priority : Seq(1..m), order : Seq(1..m), list : Seq(1..m)]

\* The queues q hold items that were made, each of them in one place.
Distinct(q, m) ==
    /\ q \in QueuesOf(m)
    /\ Once(q.priority) /\ Once(q.order) /\ Once(q.list)
    /\ Items(q.priority) \cap Items(q.order) = {}
    /\ Items(q.priority) \cap Items(q.list) = {}
    /\ Items(q.order) \cap Items(q.list) = {}

\* From q, when m items were made, to r when n were: only new items are added.
Follows(q, m, r, n) ==
    /\ n \in Nat /\ m <= n
    /\ Distinct(r, n)
    /\ Items(r.priority) \subseteq Items(q.priority) \cup m + 1..n
    /\ Items(r.order) \subseteq Items(q.order) \cup m + 1..n
    /\ Items(r.list) \subseteq Items(q.list) \cup m + 1..n

\* The queues after maintainPlaylistQueue.
Settled(q) ==
    IF Maintained(q) = <<>> THEN q ELSE Maintained(q)[Len(Maintained(q))]

\* What goes up and down, and the session, when m items were made.
Request(m) ==
    [type : {"INITIALIZE", "RESET", "PLAY", "NEXT"}]
        \cup [type : {"UPDATEQUEUE"}, queue : Seq(1..m)]

Report(m) ==
    [type : {"INITIALIZE", "RESET"}, item : BOOLEAN]
        \cup [type : {"SONGSTARTED", "SONGFAILED"}, item : 1..m]
        \cup [type : {"REQUESTPLAYLIST", "FILESERVERDISCONNECTED"}, item : {None}]

Session(m) ==
    [cache : BOOLEAN, queue : Seq(1..m), waiting : BOOLEAN, playing : BOOLEAN,
     song : {"none", "open", "ended"}]

\* The updates that steps cause, the last one for the last step.
UpdatesOf(steps) == [k \in DOMAIN steps |-> UpdateQueue(steps[k])]

\* A note that takes the strip away when it is handled.
TakesAway(note) ==
    note.type \in {"RESET", "FILESERVERDISCONNECTED"} \/ note = Note("INITIALIZE", FALSE)

\* When notes have been handled the strip is not visible, flag being whether it
\* is now.
Off(notes, flag) ==
    /\ flag => \E k \in DOMAIN notes : TakesAway(notes[k])
    /\ \A k \in DOMAIN notes :
          notes[k] = Note("INITIALIZE", TRUE) =>
              \E j \in DOMAIN notes : k < j /\ TakesAway(notes[j])

\* When requests have been handled the player's queue is the end of all, theirs
\* being what it is now.
Informed(requests, theirs, all) ==
    /\ Suffix(theirs, all) \/ \E k \in DOMAIN requests : requests[k].type = "UPDATEQUEUE"
    /\ \A k \in DOMAIN requests :
          requests[k].type = "UPDATEQUEUE" =>
              \/ requests[k].queue = all
              \/ \E j \in DOMAIN requests : k < j /\ requests[j].type = "UPDATEQUEUE"
-------------------------------------------------------------------------------
(* Sequences. *)

\* An element taken out of a sequence without doubles is gone, and only that.
LEMMA WithoutOf ==
    ASSUME NEW S, NEW s \in Seq(S), Once(s), NEW item
    PROVE  /\ Without(s, item) \in Seq(S)
           /\ Once(Without(s, item))
           /\ Items(Without(s, item)) = Items(s) \ {item}
  <1>1. CASE item \notin Items(s)
    BY <1>1 DEF Without
  <1>2. CASE item \in Items(s)
    <2> DEFINE n == Len(s)
               k == First(s, item)
               t == Without(s, item)
               old(i) == IF i < k THEN i ELSE i + 1
    <2>1. n \in Nat /\ DOMAIN s = 1..n /\ \A i \in 1..n : s[i] \in S
      BY LenProperties
    <2>2. k \in 1..n /\ s[k] = item
      <3>1. PICK p \in 1..n : s[p] = item
        BY <1>2, <2>1 DEF Items
      <3> HIDE DEF n
      <3>2. \A j \in 1..p - 1 : j \in 1..n /\ j # p
        BY <2>1
      <3>3. \A j \in 1..p - 1 : s[j] # item
        BY <2>1, <3>1, <3>2 DEF Once
      <3> QED BY <2>1, <3>1, <3>3 DEF First
    <2>3. t = [i \in 1..n - 1 |-> s[old(i)]]
      BY <1>2 DEF Without
    <2> HIDE DEF n, k, t
    <2>4. \A i \in 1..n - 1 : old(i) \in 1..n /\ old(i) # k /\ t[i] = s[old(i)]
      BY <2>1, <2>2, <2>3
    <2>5. n - 1 \in Nat /\ \A i \in 1..n - 1 : t[i] \in S
      BY <2>1, <2>2, <2>4
    <2>6. t \in Seq(S) /\ DOMAIN t = 1..n - 1
      <3>1. t \in [1..n - 1 -> S]
        BY <2>3, <2>4, <2>5
      <3> QED BY <3>1, <2>5
    <2>7. Once(t)
      <3> SUFFICES ASSUME NEW i \in 1..n - 1, NEW j \in 1..n - 1, t[i] = t[j]
                   PROVE  i = j
        BY <2>6 DEF Once
      <3>1. old(i) = old(j)
        BY <2>1, <2>4 DEF Once
      <3> QED BY <3>1, <2>1, <2>2
    <2>8. Items(t) \subseteq Items(s) \ {item}
      <3>1. ASSUME NEW i \in 1..n - 1
            PROVE  t[i] \in Items(s) \ {item}
        <4>1. old(i) \in 1..n /\ old(i) # k /\ t[i] = s[old(i)]
          BY <2>4
        <4>2. s[old(i)] # s[k]
          BY <4>1, <2>1, <2>2 DEF Once
        <4> QED BY <4>1, <4>2, <2>1, <2>2 DEF Items
      <3> QED BY <3>1, <2>6 DEF Items
    <2>9. ASSUME NEW p \in 1..n, s[p] # item
          PROVE  s[p] \in Items(t)
      <3>1. CASE p < k
        <4>1. p \in 1..n - 1 /\ old(p) = p
          BY <3>1, <2>1, <2>2
        <4> QED BY <4>1, <2>4, <2>6 DEF Items
      <3>2. CASE p > k
        <4>1. p - 1 \in 1..n - 1 /\ old(p - 1) = p
          BY <3>2, <2>1, <2>2
        <4> QED BY <4>1, <2>4, <2>6 DEF Items
      <3> QED BY <3>1, <3>2, <2>1, <2>2, <2>9
    <2>10. Items(s) \ {item} \subseteq Items(t)
      BY <2>1, <2>9 DEF Items
    <2> QED BY <2>6, <2>7, <2>8, <2>10 DEF t
  <1> QED BY <1>1, <1>2

LEMMA ConcatItems ==
    ASSUME NEW S, NEW s \in Seq(S), NEW t \in Seq(S)
    PROVE  Items(s \o t) = Items(s) \cup Items(t)
  <1> DEFINE n == Len(s)
             m == Len(t)
             u == s \o t
  <1>1. /\ n \in Nat /\ m \in Nat
        /\ DOMAIN s = 1..n /\ DOMAIN t = 1..m
    BY LenProperties
  <1>2. /\ u \in Seq(S) /\ Len(u) = n + m
        /\ \A i \in 1..(n + m) : u[i] = IF i <= n THEN s[i] ELSE t[i - n]
    BY ConcatProperties
  <1>3. DOMAIN u = 1..(n + m)
    BY <1>2, LenProperties
  <1> HIDE DEF n, m, u
  <1>4. Items(u) \subseteq Items(s) \cup Items(t)
    <2>1. ASSUME NEW i \in 1..(n + m)
          PROVE  u[i] \in Items(s) \cup Items(t)
      <3>1. CASE i <= n
        <4>1. i \in 1..n /\ u[i] = s[i]
          BY <3>1, <1>1, <1>2
        <4> QED BY <4>1, <1>1 DEF Items
      <3>2. CASE ~(i <= n)
        <4>1. i - n \in 1..m /\ u[i] = t[i - n]
          BY <3>2, <1>1, <1>2
        <4> QED BY <4>1, <1>1 DEF Items
      <3> QED BY <3>1, <3>2
    <2> QED BY <2>1, <1>3 DEF Items
  <1>5. \A i \in 1..n : s[i] \in Items(u)
    <2> TAKE i \in 1..n
    <2>1. i \in 1..(n + m) /\ i <= n
      BY <1>1
    <2> QED BY <2>1, <1>2, <1>3 DEF Items
  <1>6. \A i \in 1..m : t[i] \in Items(u)
    <2> TAKE i \in 1..m
    <2>1. i + n \in 1..(n + m) /\ ~(i + n <= n) /\ (i + n) - n = i
      BY <1>1
    <2>2. u[i + n] = t[i]
      BY <2>1, <1>2
    <2> QED BY <2>1, <2>2, <1>3 DEF Items
  <1>7. Items(s) \cup Items(t) \subseteq Items(u)
    BY <1>1, <1>5, <1>6 DEF Items
  <1> QED BY <1>4, <1>7 DEF u

LEMMA ConcatOnce ==
    ASSUME NEW S, NEW s \in Seq(S), NEW t \in Seq(S), Once(s), Once(t),
           Items(s) \cap Items(t) = {}
    PROVE  Once(s \o t)
  <1> DEFINE n == Len(s)
             m == Len(t)
             u == s \o t
  <1>1. /\ n \in Nat /\ m \in Nat
        /\ DOMAIN s = 1..n /\ DOMAIN t = 1..m
    BY LenProperties
  <1>2. /\ u \in Seq(S) /\ Len(u) = n + m
        /\ \A i \in 1..(n + m) : u[i] = IF i <= n THEN s[i] ELSE t[i - n]
    BY ConcatProperties
  <1>3. DOMAIN u = 1..(n + m)
    BY <1>2, LenProperties
  <1> HIDE DEF n, m, u
  <1>4. ASSUME NEW i \in 1..(n + m), NEW j \in 1..(n + m), u[i] = u[j]
        PROVE  i = j
    <2>1. \A k \in 1..(n + m) :
             \/ k <= n /\ k \in 1..n /\ u[k] = s[k]
             \/ ~(k <= n) /\ k - n \in 1..m /\ u[k] = t[k - n]
      BY <1>1, <1>2
    <2>2. CASE i <= n /\ j <= n
      BY <2>1, <2>2, <1>1, <1>4 DEF Once
    <2>3. CASE ~(i <= n) /\ ~(j <= n)
      <3>1. i - n = j - n
        BY <2>1, <2>3, <1>1, <1>4 DEF Once
      <3> QED BY <3>1, <1>1
    <2>4. ASSUME NEW k \in 1..(n + m), NEW l \in 1..(n + m), k <= n, ~(l <= n)
          PROVE  u[k] # u[l]
      <3>1. u[k] \in Items(s) /\ u[l] \in Items(t)
        BY <2>1, <2>4, <1>1 DEF Items
      <3> QED BY <3>1
    <2> QED BY <2>2, <2>3, <2>4, <1>4
  <1> QED BY <1>3, <1>4 DEF Once, u

LEMMA SuffixTrans ==
    ASSUME NEW S, NEW r \in Seq(S), NEW s \in Seq(S), NEW t \in Seq(S),
           Suffix(r, s), Suffix(s, t)
    PROVE  Suffix(r, t)
  <1>1. Len(r) \in Nat /\ Len(s) \in Nat /\ Len(t) \in Nat
    BY LenProperties
  <1>2. Len(r) <= Len(t)
    BY <1>1 DEF Suffix
  <1>3. ASSUME NEW i \in 1..Len(r)
        PROVE  r[i] = t[i + (Len(t) - Len(r))]
    <2>1. i + (Len(s) - Len(r)) \in 1..Len(s)
      BY <1>1 DEF Suffix
    <2>2. (i + (Len(s) - Len(r))) + (Len(t) - Len(s)) = i + (Len(t) - Len(r))
      BY <1>1
    <2> QED BY <2>1, <2>2 DEF Suffix
  <1> QED BY <1>2, <1>3 DEF Suffix

LEMMA SuffixBasics ==
    ASSUME NEW S, NEW s \in Seq(S)
    PROVE  Suffix(s, s) /\ Suffix(<<>>, s)
  <1>1. Len(s) \in Nat
    BY LenProperties
  <1>2. Len(<<>>) = 0
    OBVIOUS
  <1> QED BY <1>1, <1>2 DEF Suffix

\* What is left of a queue whose first k songs are gone.
LEMMA RestOf ==
    ASSUME NEW S, NEW s \in Seq(S), NEW k \in DOMAIN s
    PROVE  LET rest == SubSeq(s, k + 1, Len(s))
           IN  rest \in Seq(S) /\ Suffix(rest, s)
  <1> DEFINE n == Len(s)
             rest == SubSeq(s, k + 1, n)
  <1>1. n \in Nat /\ DOMAIN s = 1..n /\ \A i \in 1..n : s[i] \in S
    BY LenProperties
  <1> HIDE DEF n
  <1>2. k + 1 \in Int /\ k \in 1..n /\ \A i \in k + 1..n : i \in 1..n
    BY <1>1
  <1>3. /\ rest \in Seq(S)
        /\ Len(rest) = IF k + 1 <= n THEN n - (k + 1) + 1 ELSE 0
        /\ \A i \in 1..(n - (k + 1) + 1) : rest[i] = s[(k + 1) + i - 1]
    BY <1>1, <1>2, SubSeqProperties
  <1>4. Len(rest) = n - k /\ Len(rest) <= n
    BY <1>1, <1>2, <1>3
  <1>5. ASSUME NEW i \in 1..(n - k)
        PROVE  rest[i] = s[i + (n - (n - k))]
    <2>1. i \in 1..(n - (k + 1) + 1) /\ (k + 1) + i - 1 = i + (n - (n - k))
      BY <1>1, <1>2
    <2> QED BY <2>1, <1>3
  <1>6. Suffix(rest, s)
    BY <1>4, <1>5 DEF Suffix, n
  <1> QED BY <1>3, <1>6 DEF n

\* A suffix is the sub-sequence of that length at the end.
LEMMA SuffixIsSubSeq ==
    ASSUME NEW S, NEW s \in Seq(S), NEW t \in Seq(S), Suffix(t, s)
    PROVE  t = SubSeq(s, Len(s) - Len(t) + 1, Len(s))
  <1> DEFINE n == Len(s)
             m == Len(t)
             u == SubSeq(s, n - m + 1, n)
  <1>1. n \in Nat /\ m \in Nat /\ m <= n /\ \A i \in 1..n : s[i] \in S
    BY LenProperties DEF Suffix
  <1>2. \A i \in 1..m : t[i] = s[i + (n - m)]
    BY DEF Suffix
  <1> HIDE DEF n, m
  <1>3. n - m + 1 \in Int /\ n \in Int /\ \A i \in (n - m + 1)..n : i \in 1..n
    BY <1>1
  <1>4. \A i \in (n - m + 1)..n : s[i] \in S
    BY <1>1, <1>3
  <1>5. /\ u \in Seq(S)
        /\ Len(u) = IF n - m + 1 <= n THEN n - (n - m + 1) + 1 ELSE 0
        /\ \A i \in 1..(n - (n - m + 1) + 1) : u[i] = s[(n - m + 1) + i - 1]
    BY <1>3, <1>4, SubSeqProperties
  <1>6. Len(u) = m /\ n - (n - m + 1) + 1 = m
    BY <1>1, <1>5
  <1>7. \A i \in 1..m : (n - m + 1) + i - 1 = i + (n - m)
    BY <1>1
  <1>8. \A i \in 1..m : t[i] = u[i]
    BY <1>2, <1>5, <1>6, <1>7
  <1>9. t = u
    BY <1>5, <1>6, <1>8, SeqEqual DEF m
  <1> QED BY <1>9 DEF u, n, m
-------------------------------------------------------------------------------
(* Queues. *)

LEMMA ItemsIn ==
    ASSUME NEW S, NEW s \in Seq(S)
    PROVE  Items(s) \subseteq S
  BY LenProperties DEF Items

LEMMA AllOf ==
    ASSUME NEW m \in Nat, NEW q \in QueuesOf(m)
    PROVE  /\ All(q) \in Seq(1..m)
           /\ Items(All(q)) = Items(q.priority) \cup Items(q.order) \cup Items(q.list)
           /\ Items(All(q)) \subseteq 1..m
  <1>1. q.priority \in Seq(1..m) /\ q.order \in Seq(1..m) /\ q.list \in Seq(1..m)
    BY DEF QueuesOf
  <1>2. q.priority \o q.order \in Seq(1..m)
    BY <1>1, ConcatProperties
  <1>3. All(q) \in Seq(1..m)
    BY <1>1, <1>2, ConcatProperties DEF All
  <1>4. Items(All(q)) = Items(q.priority \o q.order) \cup Items(q.list)
    BY <1>1, <1>2, ConcatItems DEF All
  <1>5. Items(q.priority \o q.order) = Items(q.priority) \cup Items(q.order)
    BY <1>1, ConcatItems
  <1> QED BY <1>3, <1>4, <1>5, ItemsIn

LEMMA Numbers ==
    ASSUME NEW m \in Nat, NEW n \in Nat, m <= n
    PROVE  1..m \subseteq 1..n
  OBVIOUS

LEMMA LaterQueues ==
    ASSUME NEW m \in Nat, NEW n \in Nat, m <= n, NEW q, Distinct(q, m)
    PROVE  Distinct(q, n) /\ Follows(q, m, q, n)
  <1>1. q \in QueuesOf(m)
    BY DEF Distinct
  <1>2. QueuesOf(m) \subseteq QueuesOf(n)
    BY Numbers, SeqMonotonic DEF QueuesOf
  <1> QED BY <1>1, <1>2 DEF Distinct, Follows

LEMMA Replaced ==
    ASSUME NEW m \in Nat, NEW q \in QueuesOf(m), NEW t
    PROVE  /\ [q EXCEPT !.priority = t] = [priority |-> t, order |-> q.order, list |-> q.list]
           /\ [q EXCEPT !.order = t] = [priority |-> q.priority, order |-> t, list |-> q.list]
           /\ [q EXCEPT !.list = t] = [priority |-> q.priority, order |-> q.order, list |-> t]
  BY DEF QueuesOf

\* New items at the end of a queue.
LEMMA NewItems ==
    ASSUME NEW m \in Nat, NEW n \in Nat, NEW s \in Seq(1..m), Once(s)
    PROVE  LET t == s \o [j \in 1..n |-> m + j]
           IN  t \in Seq(1..(m + n)) /\ Once(t) /\ Items(t) = Items(s) \cup m + 1..m + n
  <1> DEFINE new == [j \in 1..n |-> m + j]
             S == 1..(m + n)
  <1>1. s \in Seq(S) /\ Items(s) \subseteq 1..m
    BY Numbers, SeqMonotonic, ItemsIn
  <1>2. new \in Seq(S) /\ DOMAIN new = 1..n
    OBVIOUS
  <1>3. Once(new)
    BY DEF Once
  <1>4. Items(new) = m + 1..m + n
    <2>1. ASSUME NEW i \in m + 1..m + n
          PROVE  i \in Items(new)
      <3>1. i - m \in 1..n /\ m + (i - m) = i
        OBVIOUS
      <3>2. new[i - m] = i
        BY <3>1
      <3> QED BY <3>1, <3>2, <1>2 DEF Items
    <2>2. ASSUME NEW j \in 1..n
          PROVE  new[j] \in m + 1..m + n
      OBVIOUS
    <2>3. Items(new) \subseteq m + 1..m + n
      BY <2>2, <1>2 DEF Items
    <2> HIDE DEF new
    <2> QED BY <2>1, <2>3
  <1> HIDE DEF new
  <1>5. Items(s) \cap Items(new) = {}
    BY <1>1, <1>4
  <1> HIDE DEF S
  <1>6. s \o new \in Seq(S) /\ Once(s \o new) /\ Items(s \o new) = Items(s) \cup Items(new)
    BY <1>1, <1>2, <1>3, <1>5, ConcatProperties, ConcatOnce, ConcatItems
  <1> QED BY <1>4, <1>6 DEF new, S

LEMMA NewItem ==
    ASSUME NEW m \in Nat, NEW s \in Seq(1..m), Once(s)
    PROVE  LET t == Append(s, m + 1)
           IN  t \in Seq(1..(m + 1)) /\ Once(t) /\ Items(t) = Items(s) \cup m + 1..m + 1
  <1>1. s \in Seq(1..(m + 1)) /\ m + 1 \in 1..(m + 1)
    BY Numbers, SeqMonotonic
  <1>2. Append(s, m + 1) = s \o <<m + 1>>
    BY <1>1, AppendIsConcat
  <1>3. <<m + 1>> = [j \in 1..1 |-> m + j]
    OBVIOUS
  <1> QED BY <1>2, <1>3, NewItems

LEMMA AddedToList ==
    ASSUME NEW m \in Nat, NEW n \in Nat, NEW q, Distinct(q, m)
    PROVE  LET r == [q EXCEPT !.list = @ \o [j \in 1..n |-> m + j]]
           IN  Follows(q, m, r, m + n) /\ r.order = q.order /\ r.priority = q.priority
  <1> DEFINE r == [q EXCEPT !.list = @ \o [j \in 1..n |-> m + j]]
  <1>1. q \in QueuesOf(m) /\ m + n \in Nat /\ m <= m + n
    BY DEF Distinct
  <1>2. /\ r = [priority |-> q.priority, order |-> q.order,
                list |-> q.list \o [j \in 1..n |-> m + j]]
        /\ q.priority \in Seq(1..m) /\ q.order \in Seq(1..m) /\ q.list \in Seq(1..m)
    <2>1. q.priority \in Seq(1..m) /\ q.order \in Seq(1..m) /\ q.list \in Seq(1..m)
      BY <1>1 DEF QueuesOf
    <2> QED BY <1>1, <2>1, Replaced
  <1>3. r.order = q.order /\ r.priority = q.priority /\ r.list = q.list \o [j \in 1..n |-> m + j]
    BY <1>2
  <1>4. r.list \in Seq(1..(m + n)) /\ Once(r.list) /\ Items(r.list) = Items(q.list) \cup m + 1..m + n
    BY <1>2, <1>3, NewItems DEF Distinct
  <1>5. q.priority \in Seq(1..(m + n)) /\ q.order \in Seq(1..(m + n))
    BY <1>1, <1>2, Numbers, SeqMonotonic
  <1>6. r \in QueuesOf(m + n)
    BY <1>2, <1>3, <1>4, <1>5 DEF QueuesOf
  <1>7. Items(q.priority) \subseteq 1..m /\ Items(q.order) \subseteq 1..m
    BY <1>2, ItemsIn
  <1> HIDE DEF r
  <1>8. Distinct(r, m + n)
    BY <1>3, <1>4, <1>6, <1>7 DEF Distinct
  <1>9. Follows(q, m, r, m + n)
    BY <1>1, <1>3, <1>4, <1>8 DEF Follows
  <1> QED BY <1>3, <1>9 DEF r

LEMMA AddedToOrder ==
    ASSUME NEW m \in Nat, NEW q, Distinct(q, m)
    PROVE  LET r == [q EXCEPT !.order = Append(@, m + 1)]
           IN  Follows(q, m, r, m + 1) /\ r.priority = q.priority /\ r.list = q.list
                   /\ Items(r.order) = Items(q.order) \cup {m + 1}
  <1> DEFINE r == [q EXCEPT !.order = Append(@, m + 1)]
  <1>1. /\ q \in QueuesOf(m) /\ m + 1 \in Nat /\ m <= m + 1
        /\ q.priority \in Seq(1..m) /\ q.order \in Seq(1..m) /\ q.list \in Seq(1..m)
    BY DEF Distinct, QueuesOf
  <1>2. /\ r.priority = q.priority /\ r.list = q.list /\ r.order = Append(q.order, m + 1)
        /\ r = [priority |-> r.priority, order |-> r.order, list |-> r.list]
    <2>1. r = [priority |-> q.priority, order |-> Append(q.order, m + 1), list |-> q.list]
      BY <1>1, Replaced
    <2> QED BY <2>1
  <1>3. /\ r.order \in Seq(1..(m + 1)) /\ Once(r.order)
        /\ Items(r.order) = Items(q.order) \cup m + 1..m + 1
    BY <1>1, <1>2, NewItem DEF Distinct
  <1>4. q.priority \in Seq(1..(m + 1)) /\ q.list \in Seq(1..(m + 1))
    BY <1>1, Numbers, SeqMonotonic
  <1>5. Items(q.priority) \subseteq 1..m /\ Items(q.list) \subseteq 1..m
    BY <1>1, ItemsIn
  <1> HIDE DEF r
  <1>6. r \in QueuesOf(m + 1)
    BY <1>2, <1>3, <1>4 DEF QueuesOf
  <1>7. m + 1..m + 1 = {m + 1}
    OBVIOUS
  <1>8. Distinct(r, m + 1)
    BY <1>2, <1>3, <1>5, <1>6, <1>7 DEF Distinct
  <1>9. Follows(q, m, r, m + 1)
    BY <1>1, <1>2, <1>3, <1>8 DEF Follows
  <1> QED BY <1>2, <1>3, <1>7, <1>9 DEF r

LEMMA AddedToPriority ==
    ASSUME NEW m \in Nat, NEW q, Distinct(q, m)
    PROVE  LET r == [q EXCEPT !.priority = Append(@, m + 1)]
           IN  Follows(q, m, r, m + 1) /\ r.order = q.order
  <1> DEFINE r == [q EXCEPT !.priority = Append(@, m + 1)]
  <1>1. /\ q \in QueuesOf(m) /\ m + 1 \in Nat /\ m <= m + 1
        /\ q.priority \in Seq(1..m) /\ q.order \in Seq(1..m) /\ q.list \in Seq(1..m)
    BY DEF Distinct, QueuesOf
  <1>2. /\ r.order = q.order /\ r.list = q.list /\ r.priority = Append(q.priority, m + 1)
        /\ r = [priority |-> r.priority, order |-> r.order, list |-> r.list]
    <2>1. r = [priority |-> Append(q.priority, m + 1), order |-> q.order, list |-> q.list]
      BY <1>1, Replaced
    <2> QED BY <2>1
  <1>3. /\ r.priority \in Seq(1..(m + 1)) /\ Once(r.priority)
        /\ Items(r.priority) = Items(q.priority) \cup m + 1..m + 1
    BY <1>1, <1>2, NewItem DEF Distinct
  <1>4. q.order \in Seq(1..(m + 1)) /\ q.list \in Seq(1..(m + 1))
    BY <1>1, Numbers, SeqMonotonic
  <1>5. Items(q.order) \subseteq 1..m /\ Items(q.list) \subseteq 1..m
    BY <1>1, ItemsIn
  <1> HIDE DEF r
  <1>6. r \in QueuesOf(m + 1)
    BY <1>2, <1>3, <1>4 DEF QueuesOf
  <1>7. m + 1..m + 1 = {m + 1}
    OBVIOUS
  <1>8. Distinct(r, m + 1)
    BY <1>2, <1>3, <1>5, <1>6, <1>7 DEF Distinct
  <1>9. Follows(q, m, r, m + 1)
    BY <1>1, <1>2, <1>3, <1>8 DEF Follows
  <1> QED BY <1>2, <1>9 DEF r

\* An item is taken out of the order queue.
LEMMA RemovedFromOrder ==
    ASSUME NEW m \in Nat, NEW q, Distinct(q, m), NEW item
    PROVE  LET r == [q EXCEPT !.order = Without(@, item)]
           IN  Follows(q, m, r, m) /\ r.priority = q.priority /\ r.list = q.list
                   /\ Items(r.order) = Items(q.order) \ {item}
  <1> DEFINE r == [q EXCEPT !.order = Without(@, item)]
  <1>1. /\ q \in QueuesOf(m)
        /\ q.priority \in Seq(1..m) /\ q.order \in Seq(1..m) /\ q.list \in Seq(1..m)
    BY DEF Distinct, QueuesOf
  <1>2. /\ r.priority = q.priority /\ r.list = q.list /\ r.order = Without(q.order, item)
        /\ r = [priority |-> r.priority, order |-> r.order, list |-> r.list]
    <2>1. r = [priority |-> q.priority, order |-> Without(q.order, item), list |-> q.list]
      BY <1>1, Replaced
    <2> QED BY <2>1
  <1>3. /\ r.order \in Seq(1..m) /\ Once(r.order)
        /\ Items(r.order) = Items(q.order) \ {item}
    BY <1>1, <1>2, WithoutOf DEF Distinct
  <1> HIDE DEF r
  <1>4. Distinct(r, m)
    BY <1>1, <1>2, <1>3 DEF Distinct, QueuesOf
  <1>5. Follows(q, m, r, m)
    BY <1>2, <1>3, <1>4 DEF Follows
  <1> QED BY <1>2, <1>3, <1>5 DEF r

\* An item is taken out of the other queues: it is in none of them afterwards.
LEMMA RemovedOf ==
    ASSUME NEW m \in Nat, NEW q, Distinct(q, m), NEW item, item \notin Items(q.order)
    PROVE  LET r == Removed(q, item)
           IN  Follows(q, m, r, m) /\ r.order = q.order
                   /\ item \notin Items(r.priority) \cup Items(r.list)
  <1> DEFINE r == Removed(q, item)
  <1>1. /\ q \in QueuesOf(m)
        /\ q.priority \in Seq(1..m) /\ q.order \in Seq(1..m) /\ q.list \in Seq(1..m)
    BY DEF Distinct, QueuesOf
  <1>2. CASE item \in Items(q.priority)
      <2>1. /\ r.order = q.order /\ r.list = q.list /\ r.priority = Without(q.priority, item)
          /\ r = [priority |-> r.priority, order |-> r.order, list |-> r.list]
      <3>1. r = [priority |-> Without(q.priority, item), order |-> q.order, list |-> q.list]
        BY <1>1, <1>2, Replaced DEF Removed
      <3> QED BY <3>1
    <2>2. /\ r.priority \in Seq(1..m) /\ Once(r.priority)
          /\ Items(r.priority) = Items(q.priority) \ {item}
      BY <1>1, <2>1, WithoutOf DEF Distinct
    <2> HIDE DEF r
    <2>3. Distinct(r, m)
      BY <1>1, <2>1, <2>2 DEF Distinct, QueuesOf
    <2>4. Follows(q, m, r, m)
      BY <2>1, <2>2, <2>3 DEF Follows
    <2>5. item \notin Items(r.priority) \cup Items(r.list)
      BY <1>2, <2>1, <2>2 DEF Distinct
    <2> QED BY <2>1, <2>4, <2>5 DEF r
  <1>3. CASE item \notin Items(q.priority)
      <2>1. /\ r.order = q.order /\ r.priority = q.priority /\ r.list = Without(q.list, item)
          /\ r = [priority |-> r.priority, order |-> r.order, list |-> r.list]
      <3>1. r = [priority |-> q.priority, order |-> q.order, list |-> Without(q.list, item)]
        BY <1>1, <1>3, Replaced DEF Removed
      <3> QED BY <3>1
    <2>2. /\ r.list \in Seq(1..m) /\ Once(r.list)
          /\ Items(r.list) = Items(q.list) \ {item}
      BY <1>1, <2>1, WithoutOf DEF Distinct
    <2> HIDE DEF r
    <2>3. Distinct(r, m)
      BY <1>1, <2>1, <2>2 DEF Distinct, QueuesOf
    <2>4. Follows(q, m, r, m)
      BY <2>1, <2>2, <2>3 DEF Follows
    <2>5. item \notin Items(r.priority) \cup Items(r.list)
      BY <1>3, <2>1, <2>2
    <2> QED BY <2>1, <2>4, <2>5 DEF r
  <1> QED BY <1>2, <1>3

LEMMA FollowsTrans ==
    ASSUME NEW q, NEW r, NEW t, NEW l \in Nat, NEW m, NEW n,
           Follows(q, l, r, m), Follows(r, m, t, n)
    PROVE  Follows(q, l, t, n)
  <1>1. m \in Nat /\ n \in Nat /\ l <= m /\ m <= n
    BY DEF Follows
  <1>2. l + 1..m \subseteq l + 1..n /\ m + 1..n \subseteq l + 1..n
    BY <1>1
  <1> QED BY <1>1, <1>2 DEF Follows

LEMMA WiderTypes ==
    ASSUME NEW m \in Nat, NEW n \in Nat, m <= n
    PROVE  Request(m) \subseteq Request(n) /\ Report(m) \subseteq Report(n)
              /\ Session(m) \subseteq Session(n)
  BY Numbers, SeqMonotonic DEF Request, Report, Session

LEMMA UpdateIsRequest ==
    ASSUME NEW m \in Nat, NEW q \in QueuesOf(m)
    PROVE  UpdateQueue(q) \in Request(m)
  BY AllOf DEF UpdateQueue, Request

LEMMA UpdatesAreRequests ==
    ASSUME NEW m \in Nat, NEW steps \in Seq(QueuesOf(m))
    PROVE  /\ UpdatesOf(steps) \in Seq(Request(m))
           /\ Len(UpdatesOf(steps)) = Len(steps)
           /\ \A k \in 1..Len(steps) : UpdatesOf(steps)[k] = UpdateQueue(steps[k])
  <1> DEFINE n == Len(steps)
  <1>1. n \in Nat /\ DOMAIN steps = 1..n /\ \A k \in 1..n : steps[k] \in QueuesOf(m)
    BY LenProperties
  <1> HIDE DEF n
  <1>2. UpdatesOf(steps) = [k \in 1..n |-> UpdateQueue(steps[k])]
    BY <1>1 DEF UpdatesOf
  <1>3. \A k \in 1..n : UpdateQueue(steps[k]) \in Request(m)
    BY <1>1, UpdateIsRequest
  <1>4. UpdatesOf(steps) \in [1..n -> Request(m)]
    BY <1>2, <1>3
  <1>5. UpdatesOf(steps) \in Seq(Request(m)) /\ Len(UpdatesOf(steps)) = n
    BY <1>1, <1>4
  <1> QED BY <1>2, <1>5 DEF n

\* The songs that maintainPlaylistQueue adds, one after the other.
LEMMA MaintainedOf ==
    ASSUME made \in Nat, NEW q, Distinct(q, made)
    PROVE  LET steps == Maintained(q)
               n     == made + Len(steps)
           IN  /\ Len(steps) \in Nat
               /\ steps \in Seq(QueuesOf(n))
               /\ Follows(q, made, Settled(q), n)
               /\ Settled(q).order = q.order
  <1> DEFINE steps == Maintained(q)
             n == made + Len(steps)
  <1>1. CASE playlist # "songs"
    <2>1. steps = <<>> /\ Len(steps) = 0 /\ Settled(q) = q
      BY <1>1 DEF Maintained, Settled
    <2> HIDE DEF steps
    <2>2. n = made
      BY <2>1
    <2>3. Follows(q, made, q, made)
      BY LaterQueues
    <2> QED BY <2>1, <2>2, <2>3, EmptySeq DEF steps
  <1>2. CASE playlist = "songs"
    <2> DEFINE l == Missing(q)
               r(k) == [q EXCEPT !.list = @ \o [j \in 1..k |-> made + j]]
    <2>1. l \in Nat
      <3>1. Len(All(q)) \in Nat
        BY AllOf, LenProperties DEF Distinct
      <3> HIDE DEF l
      <3>2. l = IF Len(All(q)) < MinQueue THEN MinQueue - Len(All(q)) ELSE 0
        BY DEF Missing, l
      <3> QED BY <3>1, <3>2, WebAssumption
    <2>2. steps = [k \in 1..l |-> r(k)]
      BY <1>2 DEF Maintained
    <2> HIDE DEF l
    <2>3. \A k \in 1..l : Follows(q, made, r(k), made + k) /\ r(k).order = q.order
      <3> TAKE k \in 1..l
      <3>1. k \in Nat
        BY <2>1
      <3> QED BY <3>1, AddedToList
    <2> HIDE DEF r
    <2>4. \A k \in 1..l : r(k) \in QueuesOf(made + l)
      <3> TAKE k \in 1..l
      <3>1. /\ k \in Nat /\ made + k \in Nat /\ made + l \in Nat /\ made + k <= made + l
        BY <2>1
      <3>2. Distinct(r(k), made + k)
        BY <2>3 DEF Follows
      <3>3. Distinct(r(k), made + l)
        BY <3>1, <3>2, LaterQueues
      <3> QED BY <3>3 DEF Distinct
    <2>5. steps \in Seq(QueuesOf(made + l)) /\ Len(steps) = l /\ \A k \in 1..l : steps[k] = r(k)
      <3>1. steps \in [1..l -> QueuesOf(made + l)]
        BY <2>2, <2>4
      <3> QED BY <2>1, <2>2, <3>1
    <2> HIDE DEF steps
    <2>6. CASE l = 0
      <3>1. steps = <<>>
        BY <2>5, <2>6, EmptySeq
      <3>2. Settled(q) = q /\ made + l = made
        BY <2>6, <3>1 DEF Settled, steps
      <3>3. Follows(q, made, q, made)
        BY LaterQueues
      <3> QED BY <2>1, <2>5, <3>2, <3>3 DEF steps
    <2>7. CASE l # 0
      <3>1. steps # <<>> /\ l \in 1..l
        BY <2>1, <2>5, <2>7, EmptySeq
      <3>2. Settled(q) = r(l)
        BY <2>5, <3>1 DEF Settled, steps
      <3> QED BY <2>1, <2>3, <2>5, <3>1, <3>2 DEF steps
    <2> QED BY <2>6, <2>7
  <1> QED BY <1>1, <1>2

\* The same behind the removal of an item.
LEMMA ThenMaintained ==
    ASSUME made \in Nat, NEW q, Distinct(q, made)
    PROVE  LET steps == <<q>> \o Maintained(q)
               n     == made + Len(Maintained(q))
           IN  /\ steps \in Seq(QueuesOf(n)) /\ steps # <<>>
               /\ Len(steps) = 1 + Len(Maintained(q))
               /\ steps[Len(steps)] = Settled(q)
  <1> DEFINE more == Maintained(q)
             l == Len(more)
             n == made + l
             steps == <<q>> \o more
  <1>1. l \in Nat /\ more \in Seq(QueuesOf(n))
    BY MaintainedOf
  <1>2. n \in Nat /\ made <= n
    <2> HIDE DEF l
    <2> QED BY <1>1
  <1>3. q \in QueuesOf(n)
    BY <1>2, LaterQueues DEF Distinct
  <1>4. Settled(q) = IF more = <<>> THEN q ELSE more[l]
    BY DEF Settled
  <1> HIDE DEF more, n
  <1>5. <<q>> \in Seq(QueuesOf(n)) /\ Len(<<q>>) = 1 /\ <<q>>[1] = q
    BY <1>3
  <1>6. /\ steps \in Seq(QueuesOf(n)) /\ Len(steps) = 1 + l
        /\ \A i \in 1..(1 + l) : steps[i] = IF i <= 1 THEN <<q>>[i] ELSE more[i - 1]
    BY <1>1, <1>5, ConcatProperties
  <1> HIDE DEF steps
  <1>7. steps # <<>>
    BY <1>1, <1>6, EmptySeq
  <1>8. CASE more = <<>>
    <2>1. l = 0
      BY <1>8, EmptySeq
    <2> QED BY <2>1, <1>4, <1>5, <1>6, <1>7, <1>8 DEF steps, more, n
  <1>9. CASE more # <<>>
    <2>1. l \in Nat \ {0}
      BY <1>1, <1>9, EmptySeq
    <2> HIDE DEF l
    <2>2. 1 + l \in 1..(1 + l) /\ ~(1 + l <= 1) /\ (1 + l) - 1 = l
      BY <2>1
    <2>3. steps[1 + l] = more[l]
      BY <2>2, <1>6
    <2> QED BY <2>3, <1>4, <1>6, <1>7, <1>9 DEF steps, more, l, n
  <1> QED BY <1>8, <1>9
-------------------------------------------------------------------------------
(* What is on its way. *)

LEMMA OffTail ==
    ASSUME NEW S, NEW notes \in Seq(S), notes # <<>>, NEW flag \in BOOLEAN,
           NEW next \in BOOLEAN, Off(notes, flag),
           next => (flag /\ ~TakesAway(Head(notes))) \/ Head(notes) = Note("INITIALIZE", TRUE)
    PROVE  Off(Tail(notes), next)
  <1> DEFINE n == Len(notes)
             rest == Tail(notes)
  <1>1. /\ n \in Nat \ {0} /\ DOMAIN notes = 1..n /\ Head(notes) = notes[1]
        /\ rest \in Seq(S) /\ Len(rest) = n - 1
        /\ \A i \in 1..n - 1 : rest[i] = notes[i + 1]
    BY EmptySeq, LenProperties, HeadTailProperties
  <1>2. DOMAIN rest = 1..n - 1
    BY <1>1, LenProperties
  <1> HIDE DEF n, rest
  <1>3. ASSUME NEW j \in 1..n, j # 1
        PROVE  j - 1 \in DOMAIN rest /\ rest[j - 1] = notes[j]
    <2>1. j - 1 \in 1..n - 1 /\ (j - 1) + 1 = j
      BY <1>1, <1>3
    <2> QED BY <2>1, <1>1, <1>2
  <1>4. ASSUME next
        PROVE  \E k \in DOMAIN rest : TakesAway(rest[k])
    <2>1. CASE flag /\ ~TakesAway(notes[1])
      <3>1. PICK k \in 1..n : TakesAway(notes[k])
        BY <1>1, <2>1 DEF Off
      <3>2. k # 1
        BY <2>1, <3>1
      <3> QED BY <3>1, <3>2, <1>3
    <2>2. CASE notes[1] = Note("INITIALIZE", TRUE)
      <3>1. 1 \in 1..n
        BY <1>1
      <3>2. PICK k \in 1..n : 1 < k /\ TakesAway(notes[k])
        BY <1>1, <2>2, <3>1 DEF Off
      <3>3. k # 1
        BY <3>2
      <3> QED BY <3>2, <3>3, <1>3
    <2> QED BY <2>1, <2>2, <1>1, <1>4
  <1>5. ASSUME NEW k \in DOMAIN rest, rest[k] = Note("INITIALIZE", TRUE)
        PROVE  \E j \in DOMAIN rest : k < j /\ TakesAway(rest[j])
    <2>1. k \in Nat /\ k + 1 \in 1..n /\ rest[k] = notes[k + 1]
      BY <1>1, <1>2
    <2>2. PICK j \in 1..n : k + 1 < j /\ TakesAway(notes[j])
      BY <2>1, <1>1, <1>5 DEF Off
    <2>3. j # 1 /\ k < j - 1
      BY <2>1, <2>2, <1>1
    <2> QED BY <2>2, <2>3, <1>3
  <1> QED BY <1>4, <1>5 DEF Off, rest

\* The notes of a session that has no cache any more end with one of those.
LEMMA OffAppend ==
    ASSUME NEW S, NEW notes \in Seq(S), NEW more \in Seq(S), more # <<>>,
           TakesAway(more[Len(more)]), NEW flag
    PROVE  Off(notes \o more, flag)
  <1> DEFINE n == Len(notes)
             m == Len(more)
             u == notes \o more
  <1>1. n \in Nat /\ m \in Nat \ {0}
    BY EmptySeq, LenProperties
  <1>2. /\ u \in Seq(S) /\ Len(u) = n + m
        /\ \A i \in 1..(n + m) : u[i] = IF i <= n THEN notes[i] ELSE more[i - n]
    BY ConcatProperties
  <1>3. DOMAIN u = 1..(n + m)
    BY <1>2, LenProperties
  <1>4. TakesAway(more[m])
    OBVIOUS
  <1> HIDE DEF n, m, u
  <1>5. n + m \in 1..(n + m) /\ ~(n + m <= n) /\ (n + m) - n = m
    BY <1>1
  <1>6. u[n + m] = more[m]
    BY <1>2, <1>5
  <1>7. TakesAway(u[n + m]) /\ u[n + m] # Note("INITIALIZE", TRUE)
    BY <1>4, <1>6 DEF TakesAway, Note
  <1>8. \A k \in 1..(n + m) : k < n + m \/ k = n + m
    BY <1>1
  <1> QED BY <1>3, <1>5, <1>7, <1>8 DEF Off, u

LEMMA InformedTail ==
    ASSUME NEW S, NEW requests \in Seq(S), requests # <<>>, NEW theirs, NEW next, NEW all,
           Informed(requests, theirs, all),
           IF Head(requests).type = "UPDATEQUEUE"
           THEN Head(requests).queue = all => Suffix(next, all)
           ELSE Suffix(theirs, all) => Suffix(next, all)
    PROVE  Informed(Tail(requests), next, all)
  <1> DEFINE n == Len(requests)
             rest == Tail(requests)
  <1>1. /\ n \in Nat \ {0} /\ DOMAIN requests = 1..n /\ Head(requests) = requests[1]
        /\ rest \in Seq(S) /\ Len(rest) = n - 1
        /\ \A i \in 1..n - 1 : rest[i] = requests[i + 1]
    BY EmptySeq, LenProperties, HeadTailProperties
  <1>2. DOMAIN rest = 1..n - 1
    BY <1>1, LenProperties
  <1> HIDE DEF n, rest
  <1>3. ASSUME NEW j \in 1..n, j # 1
        PROVE  j - 1 \in DOMAIN rest /\ rest[j - 1] = requests[j]
    <2>1. j - 1 \in 1..n - 1 /\ (j - 1) + 1 = j
      BY <1>1, <1>3
    <2> QED BY <2>1, <1>1, <1>2
  <1>4. 1 \in 1..n /\ \A j \in 1..n : 1 < j => j # 1
    BY <1>1
  <1>5. Suffix(next, all) \/ \E k \in DOMAIN rest : rest[k].type = "UPDATEQUEUE"
    <2>1. Suffix(next, all) \/ \E j \in 1..n : j # 1 /\ requests[j].type = "UPDATEQUEUE"
      BY <1>1, <1>4 DEF Informed
    <2> QED BY <2>1, <1>3
  <1>6. ASSUME NEW k \in DOMAIN rest, rest[k].type = "UPDATEQUEUE"
        PROVE  \/ rest[k].queue = all
               \/ \E j \in DOMAIN rest : k < j /\ rest[j].type = "UPDATEQUEUE"
    <2>1. k + 1 \in 1..n /\ requests[k + 1] = rest[k] /\ k \in Nat
      BY <1>1, <1>2
    <2>2. CASE \E j \in 1..n : k + 1 < j /\ requests[j].type = "UPDATEQUEUE"
      <3>1. PICK j \in 1..n : k + 1 < j /\ requests[j].type = "UPDATEQUEUE"
        BY <2>2
      <3>2. j # 1 /\ k < j - 1
        BY <2>1, <3>1, <1>1
      <3> QED BY <3>1, <3>2, <1>3
    <2> QED BY <2>1, <2>2, <1>1, <1>6 DEF Informed
  <1> QED BY <1>5, <1>6 DEF Informed, rest

\* Messages that do not speak of the queue, or whose last one does.
LEMMA InformedAppend ==
    ASSUME NEW S, NEW requests \in Seq(S), NEW messages \in Seq(S), NEW theirs, NEW all, NEW now,
           \/ /\ now = all /\ Informed(requests, theirs, all)
              /\ \A k \in DOMAIN messages : messages[k].type # "UPDATEQUEUE"
           \/ /\ messages # <<>>
              /\ messages[Len(messages)].type = "UPDATEQUEUE"
              /\ messages[Len(messages)].queue = now
    PROVE  Informed(requests \o messages, theirs, now)
  <1> DEFINE n == Len(requests)
             m == Len(messages)
             u == requests \o messages
  <1>1. n \in Nat /\ m \in Nat /\ DOMAIN requests = 1..n /\ DOMAIN messages = 1..m
    BY LenProperties
  <1>2. /\ u \in Seq(S) /\ Len(u) = n + m
        /\ \A i \in 1..(n + m) : u[i] = IF i <= n THEN requests[i] ELSE messages[i - n]
    BY ConcatProperties
  <1>3. DOMAIN u = 1..(n + m)
    BY <1>2, LenProperties
  <1>4. CASE messages # <<>> /\ messages[m].type = "UPDATEQUEUE" /\ messages[m].queue = now
    <2>1. m # 0
      BY <1>4, EmptySeq
    <2> HIDE DEF n, m, u
    <2>2. n + m \in 1..(n + m) /\ ~(n + m <= n) /\ (n + m) - n = m
      BY <1>1, <2>1
    <2>3. u[n + m] = messages[m]
      BY <1>2, <2>2
    <2>4. \A k \in 1..(n + m) : k < n + m \/ k = n + m
      BY <1>1
    <2> QED BY <1>3, <1>4, <2>2, <2>3, <2>4 DEF Informed, u
  <1>5. CASE /\ now = all /\ Informed(requests, theirs, all)
             /\ \A k \in DOMAIN messages : messages[k].type # "UPDATEQUEUE"
    <2> HIDE DEF n, m, u
    <2>1. ASSUME NEW k \in 1..(n + m), u[k].type = "UPDATEQUEUE"
          PROVE  k \in 1..n /\ u[k] = requests[k]
      <3>1. CASE ~(k <= n)
        <4>1. k - n \in 1..m /\ u[k] = messages[k - n]
          BY <3>1, <1>1, <1>2
        <4> QED BY <4>1, <1>1, <1>5, <2>1
      <3>2. CASE k <= n
        BY <3>2, <1>1, <1>2
      <3> QED BY <3>1, <3>2
    <2>2. ASSUME NEW k \in 1..n
          PROVE  k \in 1..(n + m) /\ u[k] = requests[k]
      <3>1. k \in 1..(n + m) /\ k <= n
        BY <1>1
      <3> QED BY <3>1, <1>2
    <2> QED BY <1>1, <1>3, <1>5, <2>1, <2>2 DEF Informed, u
  <1> QED BY <1>4, <1>5
-------------------------------------------------------------------------------
(* What a session says. *)

\* Each number up to the size of a set of places is the rank of one of them.
LEMMA Ranks ==
    ASSUME NEW m \in Nat, NEW places \in SUBSET (1..m)
    PROVE  /\ Cardinality(places) \in Nat
           /\ \A n \in 1..Cardinality(places) :
                 \E k \in places : Cardinality({j \in places : j <= k}) = n
  <1> DEFINE upTo(k) == {j \in places : j <= k}
             l == Cardinality(places)
             rank == [k \in places |-> Cardinality(upTo(k))]
  <1>1. IsFiniteSet(places) /\ l \in Nat
    <2>1. 1 \in Int /\ m \in Int
      OBVIOUS
    <2>2. IsFiniteSet(1..m)
      BY <2>1, FS_Interval
    <2> QED BY <2>2, FS_Subset, FS_CardinalityType
  <1>2. \A k \in places : k \in Nat /\ upTo(k) \subseteq places /\ k \in upTo(k)
    OBVIOUS
  <1>3. ASSUME NEW k \in places
        PROVE  /\ IsFiniteSet(upTo(k)) /\ Cardinality(upTo(k)) \in 1..l
    <2>1. IsFiniteSet(upTo(k)) /\ Cardinality(upTo(k)) <= l /\ upTo(k) # {}
      BY <1>1, <1>2, FS_Subset
    <2> HIDE DEF upTo
    <2>2. Cardinality(upTo(k)) \in Nat /\ Cardinality(upTo(k)) # 0
      BY <2>1, FS_CardinalityType, FS_EmptySet
    <2> QED BY <1>1, <2>1, <2>2
  <1>4. ASSUME NEW k \in places, NEW i \in places, k < i
        PROVE  rank[k] # rank[i]
    <2>1. upTo(k) \subseteq upTo(i) /\ i \notin upTo(k)
      <3>1. k \in Nat /\ i \in Nat
        BY <1>2
      <3>2. ASSUME NEW j \in places, j <= k
            PROVE  j <= i
        <4>1. j \in Nat
          BY <1>2
        <4> QED BY <1>4, <3>1, <3>2, <4>1
      <3>3. ~(i <= k)
        BY <1>4, <3>1
      <3>4. upTo(k) \subseteq upTo(i)
        BY <3>2
      <3>5. i \notin upTo(k)
        BY <3>3
      <3> QED BY <3>4, <3>5
    <2>2. upTo(k) # upTo(i)
      BY <1>2, <2>1
    <2>3. Cardinality(upTo(k)) < Cardinality(upTo(i))
      BY <1>3, <2>1, <2>2, FS_Subset
    <2>4. Cardinality(upTo(k)) \in Nat
      BY <1>3
    <2> HIDE DEF upTo
    <2>5. rank[k] = Cardinality(upTo(k)) /\ rank[i] = Cardinality(upTo(i))
      OBVIOUS
    <2> QED BY <2>3, <2>4, <2>5
  <1> HIDE DEF upTo
  <1>5. rank \in [places -> 1..l]
    BY <1>3
  <1>6. \A k, i \in places : rank[k] = rank[i] => k = i
    <2> HIDE DEF rank
    <2>1. \A k, i \in places : k < i \/ i < k \/ k = i
      BY <1>2
    <2> QED BY <1>4, <2>1
  <1>7. rank \in Injection(places, 1..l)
    BY <1>5, <1>6, Fun_IsInj
  <1>8. IsFiniteSet(1..l) /\ Cardinality(1..l) = l
    BY <1>1, FS_Interval
  <1>9. rank \in Surjection(places, 1..l)
    BY <1>7, <1>8, FS_Injection
  <1>10. \A n \in 1..l : \E k \in places : rank[k] = n
    <2> HIDE DEF rank, l
    <2> QED BY <1>9, Fun_SurjectionProperties
  <1> QED BY <1>1, <1>10 DEF upTo

LEMMA FailuresOf ==
    ASSUME NEW m \in Nat, NEW queue \in Seq(1..m), NEW failed \in SUBSET DOMAIN queue
    PROVE  Failures(queue, failed) \in Seq(Report(m))
  <1> DEFINE l == Cardinality(failed)
  <1>1. DOMAIN queue = 1..Len(queue) /\ Len(queue) \in Nat
    BY LenProperties
  <1>2. l \in Nat /\ \A n \in 1..l : \E k \in failed : Cardinality({j \in failed : j <= k}) = n
    BY <1>1, Ranks
  <1> HIDE DEF l
  <1>3. \A n \in 1..l : Place(failed, n) \in failed
    BY <1>2 DEF Place
  <1>4. \A n \in 1..l : queue[Place(failed, n)] \in 1..m
    BY <1>1, <1>3, LenProperties
  <1>5. \A n \in 1..l : Note("SONGFAILED", queue[Place(failed, n)]) \in Report(m)
    BY <1>4 DEF Note, Report
  <1>6. Failures(queue, failed) = [n \in 1..l |-> Note("SONGFAILED", queue[Place(failed, n)])]
    BY DEF Failures, l
  <1>7. Failures(queue, failed) \in [1..l -> Report(m)]
    BY <1>5, <1>6
  <1> QED BY <1>2, <1>7

\* What a session answers on socket s when it has used up a part of theirs.
Says(s, theirs) ==
    /\ acts' \in 0..MaxActs
    /\ \E notes \in Seq(Report(made)), new \in Session(made) :
          /\ Answer(s, notes, new)
          /\ Suffix(new.queue, theirs)
          /\ new.cache \/ (new.queue = <<>> /\ notes # <<>> /\ TakesAway(notes[Len(notes)]))

LEMMA Counts ==
    ASSUME acts \in 0..MaxActs, NEW n \in Nat, Count(n)
    PROVE  acts' \in 0..MaxActs
  BY WebAssumption DEF Count

LEMMA NoSession ==
    ASSUME NEW m
    PROVE  NewSession \in Session(m) /\ ~NewSession.cache /\ NewSession.queue = <<>>
  <1>1. <<>> \in Seq(1..m)
    OBVIOUS
  <1> QED BY <1>1 DEF Session, NewSession

\* A session of which a part is changed.
LEMMA SessionQueue ==
    ASSUME NEW m, NEW c \in Session(m), NEW t \in Seq(1..m)
    PROVE  LET new == [c EXCEPT !.queue = t]
           IN  new \in Session(m) /\ new.queue = t /\ new.cache = c.cache
  BY DEF Session

LEMMA SessionOpens ==
    ASSUME NEW m, NEW c \in Session(m), c.cache, NEW t \in Seq(1..m)
    PROVE  LET new == [c EXCEPT !.queue = t, !.song = "open"]
           IN  new \in Session(m) /\ new.queue = t /\ new.cache
  BY DEF Session

LEMMA SessionWaits ==
    ASSUME NEW m, NEW c \in Session(m), c.cache
    PROVE  LET new == [c EXCEPT !.queue = <<>>, !.waiting = TRUE]
           IN  new \in Session(m) /\ new.queue = <<>> /\ new.cache
  <1>1. <<>> \in Seq(1..m)
    OBVIOUS
  <1> QED BY <1>1 DEF Session

LEMMA SessionWaiting ==
    ASSUME NEW m, NEW c \in Session(m), NEW flag \in BOOLEAN
    PROVE  LET new == [c EXCEPT !.waiting = flag]
           IN  new \in Session(m) /\ new.queue = c.queue /\ new.cache = c.cache
  BY DEF Session

LEMMA SessionPlays ==
    ASSUME NEW m, NEW c \in Session(m)
    PROVE  LET new == [c EXCEPT !.playing = TRUE]
           IN  new \in Session(m) /\ new.queue = c.queue /\ new.cache = c.cache
  BY DEF Session

LEMMA SessionEnds ==
    ASSUME NEW m, NEW c \in Session(m)
    PROVE  LET new == [c EXCEPT !.song = "ended"]
           IN  new \in Session(m) /\ new.queue = c.queue /\ new.cache = c.cache
  BY DEF Session

LEMMA NewCache ==
    ASSUME NEW m, NEW c \in Session(m)
    PROVE  LET new == [c EXCEPT !.cache = TRUE, !.queue = <<>>]
           IN  new \in Session(m) /\ new.queue = <<>> /\ new.cache
  <1>1. <<>> \in Seq(1..m)
    OBVIOUS
  <1> QED BY <1>1 DEF Session

LEMMA OpenSays ==
    ASSUME made \in Nat, acts \in 0..MaxActs, NEW s, NEW c \in Session(made), c.cache,
           NEW n \in Nat, OpenNextSong(s, c, n)
    PROVE  Says(s, c.queue)
  <1> DEFINE queue == c.queue
  <1>1. queue \in Seq(1..made) /\ DOMAIN queue = 1..Len(queue) /\ Len(queue) \in Nat
    BY LenProperties DEF Session
  <1>2. n + 1 \in Nat
    OBVIOUS
  <1>3. \A k \in DOMAIN queue : 1..k - 1 \subseteq DOMAIN queue /\ queue[k] \in 1..made
    BY <1>1, LenProperties
  <1>4. /\ Note("REQUESTPLAYLIST", None) \in Report(made)
        /\ Note("FILESERVERDISCONNECTED", None) \in Report(made)
        /\ \A i \in 1..made : Note("SONGSTARTED", i) \in Report(made)
    BY DEF Note, Report
  <1>5. ASSUME NEW failed \in SUBSET DOMAIN queue, NEW last \in Report(made)
        PROVE  LET notes == Append(Failures(queue, failed), last)
               IN  notes \in Seq(Report(made)) /\ notes # <<>> /\ notes[Len(notes)] = last
    BY <1>1, FailuresOf, AppendProperties
  <1>6. ASSUME NEW k \in DOMAIN queue, NEW failed \in SUBSET (1..k - 1),
               Count(IF k = 1 THEN n ELSE n + 1),
               Answer(s, Append(Failures(queue, failed), Note("SONGSTARTED", queue[k])),
                      [c EXCEPT !.queue = SubSeq(@, k + 1, Len(@)), !.song = "open"])
        PROVE  Says(s, queue)
    <2> DEFINE notes == Append(Failures(queue, failed), Note("SONGSTARTED", queue[k]))
               rest == SubSeq(queue, k + 1, Len(queue))
               new == [c EXCEPT !.queue = SubSeq(@, k + 1, Len(@)), !.song = "open"]
    <2>1. rest \in Seq(1..made) /\ Suffix(rest, queue)
      BY <1>1, RestOf
    <2>3. new \in Session(made) /\ new.queue = rest /\ new.cache
      BY <2>1, SessionOpens
    <2>4. notes \in Seq(Report(made))
      BY <1>3, <1>4, <1>5
    <2>5. acts' \in 0..MaxActs
      BY <1>2, <1>6, Counts
    <2> QED BY <1>6, <2>1, <2>3, <2>4, <2>5 DEF Says
  <1>7. ASSUME NEW failed \in SUBSET DOMAIN queue,
               Count(IF queue = <<>> THEN n ELSE n + 1),
               Answer(s, Append(Failures(queue, failed), Note("REQUESTPLAYLIST", None)),
                      [c EXCEPT !.queue = <<>>, !.waiting = TRUE])
        PROVE  Says(s, queue)
    <2> DEFINE notes == Append(Failures(queue, failed), Note("REQUESTPLAYLIST", None))
               new == [c EXCEPT !.queue = <<>>, !.waiting = TRUE]
    <2>2. new \in Session(made) /\ new.queue = <<>> /\ new.cache
      BY SessionWaits
    <2>3. notes \in Seq(Report(made)) /\ Suffix(<<>>, queue)
      BY <1>1, <1>4, <1>5, SuffixBasics
    <2>4. acts' \in 0..MaxActs
      BY <1>2, <1>7, Counts
    <2> QED BY <1>7, <2>2, <2>3, <2>4 DEF Says
  <1>8. ASSUME NEW k \in DOMAIN queue, NEW failed \in SUBSET (1..k - 1), Count(n + 1),
               Answer(s, Append(Failures(queue, failed), Note("FILESERVERDISCONNECTED", None)),
                      [NewSession EXCEPT !.waiting = c.waiting])
        PROVE  Says(s, queue)
    <2> DEFINE notes == Append(Failures(queue, failed), Note("FILESERVERDISCONNECTED", None))
               new == [NewSession EXCEPT !.waiting = c.waiting]
    <2>1. c.waiting \in BOOLEAN
      BY DEF Session
    <2>2. new \in Session(made) /\ new.queue = <<>>
      BY <2>1, NoSession, SessionWaiting
    <2>3. /\ notes \in Seq(Report(made)) /\ notes # <<>> /\ Suffix(<<>>, queue)
          /\ notes[Len(notes)] = Note("FILESERVERDISCONNECTED", None)
      BY <1>1, <1>3, <1>4, <1>5, SuffixBasics
    <2>4. TakesAway(notes[Len(notes)])
      BY <2>3 DEF TakesAway, Note
    <2>5. acts' \in 0..MaxActs
      BY <1>2, <1>8, Counts
    <2> QED BY <1>8, <2>2, <2>3, <2>4, <2>5 DEF Says
  <1> QED BY <1>6, <1>7, <1>8 DEF OpenNextSong
-------------------------------------------------------------------------------
(* The invariant. *)

Data ==
    /\ playlist \in {"none", "empty", "songs"}
    /\ uploading \in BOOLEAN /\ initialized \in BOOLEAN
    /\ made \in Nat /\ acts \in 0..MaxActs
    /\ shown \in 0..made
    /\ Distinct(queues, made)

\* What the store does not have: removals after a log out has begun, and
\* anything after it.
Outside ==
    /\ removing \subseteq Items(queues.order)
    /\ account # "in" => removing = {}
    /\ account = "out" => webSocket = None /\ queues = NoQueues

Wires ==
    \A s \in Sockets :
       up[s] \in Seq(Request(made)) /\ down[s] \in Seq(Report(made)) /\ session[s] \in Session(made)

Current(s) == webSocket = s /\ state[s] = "open"

Served ==
    \A s \in Sockets : Current(s) /\ ~session[s].cache => Off(down[s], initialized)

Synchronous ==
    \A s \in Sockets :
       /\ ~session[s].cache => session[s].queue = <<>>
       /\ Current(s) /\ initialized => Informed(up[s], session[s].queue, All(queues))

QInv == IInv /\ Data /\ Outside /\ Wires /\ Served /\ Synchronous /\ CurrentIsNotQueued

LEMMA InitQInv == Init => QInv
  <1> SUFFICES ASSUME Init
               PROVE  QInv
    OBVIOUS
  <1>1. <<>> \in Seq(1..0) /\ Items(<<>>) = {} /\ Once(<<>>)
    BY EmptySeq DEF Items, Once
  <1>2. Data
    <2>1. Distinct(NoQueues, 0)
      BY <1>1 DEF Distinct, QueuesOf, NoQueues
    <2>2. 0 \in 0..MaxActs
      BY WebAssumption
    <2>3. /\ playlist = "none" /\ uploading = FALSE /\ initialized = FALSE
          /\ made = 0 /\ acts = 0 /\ shown = 0 /\ queues = NoQueues
      BY DEF Init, None
    <2>4. Distinct(queues, made)
      BY <2>1, <2>3
    <2>5. shown \in 0..made /\ made \in Nat /\ acts \in 0..MaxActs
      BY <2>2, <2>3
    <2>6. uploading \in BOOLEAN /\ initialized \in BOOLEAN /\ playlist \in {"none", "empty", "songs"}
      BY <2>3
    <2> QED BY <2>4, <2>5, <2>6 DEF Data
  <1>3. Outside
    BY DEF Init, Outside
  <1>4. Wires
    BY NoSession, EmptySeq DEF Init, Wires
  <1>5. Served /\ Synchronous
    BY NoSocket, NoSession DEF Init, Served, Synchronous, Current
  <1>6. CurrentIsNotQueued
    BY <1>1 DEF Init, CurrentIsNotQueued, NoQueues, None
  <1> QED BY <1>2, <1>3, <1>4, <1>5, <1>6, InitIInv DEF QInv
-------------------------------------------------------------------------------
(* Steps of a session. *)

LEMMA Single ==
    ASSUME NEW S, NEW x \in S
    PROVE  <<x>> \in Seq(S) /\ <<x>> # <<>> /\ Len(<<x>>) = 1 /\ <<x>>[Len(<<x>>)] = x
  OBVIOUS

LEMMA AskReports ==
    ASSUME NEW c
    PROVE  Ask(c) \in Seq(Report(made))
  <1>1. Note("REQUESTPLAYLIST", None) \in Report(made)
    BY DEF Note, Report
  <1>2. <<Note("REQUESTPLAYLIST", None)>> \in Seq(Report(made)) /\ <<>> \in Seq(Report(made))
    BY <1>1
  <1> QED BY <1>2 DEF Ask

LEMMA InitializeSays ==
    ASSUME acts \in 0..MaxActs, NEW s, NEW c \in Session(made), Initialize(s, c), NEW t \in Seq(1..made)
    PROVE  Says(s, t)
  <1> DEFINE new == [c EXCEPT !.cache = TRUE, !.queue = <<>>]
  <1>1. new \in Session(made) /\ new.queue = <<>> /\ new.cache /\ Suffix(<<>>, t)
    BY NewCache, SuffixBasics
  <1>2. Note("INITIALIZE", TRUE) \in Report(made) /\ Note("INITIALIZE", FALSE) \in Report(made)
    BY DEF Note, Report
  <1>3. Append(Ask(new), Note("INITIALIZE", TRUE)) \in Seq(Report(made))
    BY <1>2, AskReports, AppendProperties
  <1>4. <<Note("INITIALIZE", FALSE)>> \in Seq(Report(made))
    BY <1>2, Single
  <1>5. \E notes \in Seq(Report(made)) : Answer(s, notes, new)
    BY <1>3, <1>4 DEF Initialize
  <1>6. acts' \in 0..MaxActs
    BY Counts DEF Initialize, Act
  <1> QED BY <1>1, <1>5, <1>6 DEF Says

LEMMA ResetSays ==
    ASSUME acts \in 0..MaxActs, NEW s, NEW c \in Session(made), ~c.cache => c.queue = <<>>,
           Reset(s, c), NEW t \in Seq(1..made)
    PROVE  Says(s, t)
  <1> DEFINE new == IF c.cache THEN [NewSession EXCEPT !.waiting = c.waiting] ELSE c
             notes == <<Note("RESET", TRUE)>>
  <1>1. new \in Session(made) /\ new.queue = <<>>
    <2>1. c.waiting \in BOOLEAN
      BY DEF Session
    <2>2. [NewSession EXCEPT !.waiting = c.waiting] \in Session(made)
      BY <2>1, NoSession, SessionWaiting
    <2>3. [NewSession EXCEPT !.waiting = c.waiting].queue = <<>>
      BY <2>1, NoSession, SessionWaiting
    <2> QED BY <2>2, <2>3
  <1>2. Note("RESET", TRUE) \in Report(made) /\ TakesAway(Note("RESET", TRUE))
    BY DEF Note, Report, TakesAway
  <1>3. notes \in Seq(Report(made)) /\ notes # <<>> /\ TakesAway(notes[Len(notes)])
    BY <1>2, Single
  <1>4. Suffix(<<>>, t)
    BY SuffixBasics
  <1>5. Answer(s, notes, new) /\ acts' \in 0..MaxActs
    BY DEF Reset
  <1> QED BY <1>1, <1>3, <1>4, <1>5 DEF Says

LEMMA ReplaceSays ==
    ASSUME made \in Nat, acts \in 0..MaxActs, NEW s, NEW c \in Session(made), c.cache,
           NEW t \in Seq(1..made), ReplaceQueue(s, c, t)
    PROVE  Says(s, t)
  <1> DEFINE new == [c EXCEPT !.queue = t]
             now == [new EXCEPT !.waiting = FALSE]
  <1>1. new \in Session(made) /\ new.queue = t /\ new.cache
    BY SessionQueue
  <1>2. CASE c.waiting
    <2>1. OpenNextSong(s, now, 0)
      BY <1>2 DEF ReplaceQueue
    <2> HIDE DEF new
    <2>2. now \in Session(made) /\ now.queue = t /\ now.cache
      BY <1>1, SessionWaiting
    <2> QED BY <2>1, <2>2, OpenSays
  <1>3. CASE ~c.waiting
    <2>1. Answer(s, Ask(new), new) /\ acts' = acts
      BY <1>3 DEF ReplaceQueue
    <2> QED BY <1>1, <2>1, AskReports, SuffixBasics DEF Says
  <1> QED BY <1>2, <1>3

LEMMA PlaySays ==
    ASSUME made \in Nat, acts \in 0..MaxActs, NEW s, NEW c \in Session(made), c.cache,
           PlayAction(s, c)
    PROVE  Says(s, c.queue)
  <1> DEFINE new == [c EXCEPT !.playing = TRUE]
  <1>1. new \in Session(made) /\ new.queue = c.queue /\ new.cache
    BY SessionPlays
  <1>2. CASE c.song = "none"
    <2>1. OpenNextSong(s, new, 0)
      BY <1>2 DEF PlayAction
    <2> QED BY <1>1, <2>1, OpenSays
  <1>3. CASE c.song # "none"
    <2>1. Answer(s, <<>>, new) /\ acts' = acts
      BY <1>3 DEF PlayAction
    <2>2. c.queue \in Seq(1..made)
      BY DEF Session
    <2> QED BY <1>1, <2>1, <2>2, EmptySeq, SuffixBasics DEF Says
  <1> QED BY <1>2, <1>3

LEMMA EndSays ==
    ASSUME made \in Nat, acts \in 0..MaxActs, NEW s, NEW c \in Session(made), c.cache,
           OpenNextSong(s, [c EXCEPT !.song = "ended"], 1)
    PROVE  Says(s, c.queue)
  <1> DEFINE new == [c EXCEPT !.song = "ended"]
  <1>1. new \in Session(made) /\ new.queue = c.queue /\ new.cache
    BY SessionEnds
  <1> QED BY <1>1, OpenSays

LEMMA AnswerQInv ==
    ASSUME QInv, IInv', NEW s \in Sockets, UNCHANGED <<store, player, state, orphans>>,
           acts' \in 0..MaxActs,
           \A r \in Sockets : r # s => up'[r] = up[r],
           up'[s] \in Seq(Request(made)),
           NEW notes \in Seq(Report(made)), NEW new \in Session(made), Answer(s, notes, new),
           new.cache \/ (new.queue = <<>> /\ notes # <<>> /\ TakesAway(notes[Len(notes)])),
           Current(s) /\ initialized => Informed(up'[s], new.queue, All(queues))
    PROVE  QInv'
  <1>1. /\ UNCHANGED <<account, playlist, uploading, queues, removing, made, webSocket, connected,
                       initialized, shown, state>>
        /\ DOMAIN session = Sockets /\ DOMAIN down = Sockets
    BY DEF QInv, IInv, Shape, store, player
  <1>2. /\ session'[s] = new /\ down'[s] = down[s] \o notes
        /\ \A r \in Sockets : r # s => session'[r] = session[r] /\ down'[r] = down[r]
    BY <1>1 DEF Answer
  <1>3. Data' /\ Outside' /\ CurrentIsNotQueued'
    BY <1>1 DEF QInv, Data, Outside, CurrentIsNotQueued
  <1>4. Wires'
    <2>1. down[s] \o notes \in Seq(Report(made))
      BY ConcatProperties DEF QInv, Wires
    <2> QED BY <1>1, <1>2, <2>1 DEF QInv, Wires
  <1>5. Served'
    <2>1. ~new.cache => Off(down[s] \o notes, initialized)
      BY OffAppend DEF QInv, Wires
    <2> QED BY <1>1, <1>2, <2>1 DEF QInv, Served, Current
  <1>6. Synchronous'
    BY <1>1, <1>2 DEF QInv, Synchronous, Current
  <1> QED BY <1>3, <1>4, <1>5, <1>6 DEF QInv

LEMMA SongEndsQInv ==
    ASSUME QInv, NEW s \in Sockets, SongEnds(s)
    PROVE  QInv'
  <1> DEFINE c == session[s]
  <1>1. made \in Nat /\ acts \in 0..MaxActs /\ c \in Session(made) /\ queues \in QueuesOf(made)
    BY DEF QInv, Data, Wires, Distinct
  <1>2. IInv' /\ UNCHANGED <<store, player, state, orphans>> /\ up' = up
    BY SessionIInv DEF SongEnds, QInv
  <1>3. Says(s, c.queue)
    BY <1>1, EndSays DEF SongEnds
  <1>4. PICK notes \in Seq(Report(made)), new \in Session(made) :
           /\ Answer(s, notes, new)
           /\ Suffix(new.queue, c.queue)
           /\ new.cache \/ (new.queue = <<>> /\ notes # <<>> /\ TakesAway(notes[Len(notes)]))
    BY <1>3 DEF Says
  <1>5. ASSUME Current(s), initialized
        PROVE  Informed(up[s], new.queue, All(queues))
    <2>1. Informed(up[s], c.queue, All(queues))
      BY <1>5 DEF QInv, Synchronous
    <2>2. Suffix(c.queue, All(queues)) => Suffix(new.queue, All(queues))
      BY <1>1, <1>4, AllOf, SuffixTrans DEF Session
    <2> QED BY <2>1, <2>2 DEF Informed
  <1>6. up[s] \in Seq(Request(made)) /\ acts' \in 0..MaxActs
    BY <1>3 DEF QInv, Wires, Says
  <1> QED BY <1>2, <1>4, <1>5, <1>6, AnswerQInv

LEMMA HandleRequestQInv ==
    ASSUME QInv, NEW s \in Sockets, HandleRequest(s)
    PROVE  QInv'
  <1> DEFINE c == session[s]
             request == Head(up[s])
             theirs == IF request.type = "UPDATEQUEUE" THEN request.queue ELSE c.queue
             all == All(queues)
  <1>1. /\ made \in Nat /\ acts \in 0..MaxActs /\ c \in Session(made)
        /\ queues \in QueuesOf(made) /\ all \in Seq(1..made)
        /\ up[s] \in Seq(Request(made)) /\ up[s] # <<>>
        /\ ~c.cache => c.queue = <<>>
    BY AllOf DEF QInv, Data, Wires, Distinct, HandleRequest, Synchronous
  <1>2. IInv' /\ UNCHANGED <<store, player, state, orphans>> /\ up' = [up EXCEPT ![s] = Tail(@)]
    BY SessionIInv DEF HandleRequest, QInv
  <1>3. /\ \A r \in Sockets : r # s => up'[r] = up[r]
        /\ up'[s] = Tail(up[s]) /\ Tail(up[s]) \in Seq(Request(made))
    BY <1>1, <1>2, HeadTailProperties DEF QInv, IInv, Shape
  <1>4. c.queue \in Seq(1..made) /\ theirs \in Seq(1..made)
    <2>1. request \in Request(made)
      BY <1>1, HeadTailProperties
    <2>2. request.type = "UPDATEQUEUE" => request.queue \in Seq(1..made)
      BY <2>1 DEF Request
    <2> QED BY <1>1, <2>2 DEF Session
  <1>5. ASSUME Current(s), initialized, NEW t \in Seq(1..made), Suffix(t, theirs)
        PROVE  Informed(Tail(up[s]), t, all)
    <2>1. Informed(up[s], c.queue, all)
      BY <1>5 DEF QInv, Synchronous
    <2>2. Suffix(theirs, all) => Suffix(t, all)
      BY <1>1, <1>4, <1>5, SuffixTrans
    <2>3. Suffix(all, all)
      BY <1>1, SuffixBasics
    <2>4. CASE request.type = "UPDATEQUEUE"
      <3>1. request.queue = all => Suffix(t, all)
        BY <2>2, <2>3, <2>4
      <3> QED BY <1>1, <2>1, <2>4, <3>1, InformedTail
    <2>5. CASE request.type # "UPDATEQUEUE"
      <3>1. Suffix(c.queue, all) => Suffix(t, all)
        BY <2>2, <2>5
      <3> QED BY <1>1, <2>1, <2>5, <3>1, InformedTail
    <2> QED BY <2>4, <2>5
  <1>6. CASE Says(s, theirs)
    <2>1. PICK notes \in Seq(Report(made)), new \in Session(made) :
             /\ Answer(s, notes, new)
             /\ Suffix(new.queue, theirs)
             /\ new.cache \/ (new.queue = <<>> /\ notes # <<>> /\ TakesAway(notes[Len(notes)]))
      BY <1>6 DEF Says
    <2>2. new.queue \in Seq(1..made)
      BY DEF Session
    <2>3. Current(s) /\ initialized => Informed(up'[s], new.queue, all)
      BY <1>3, <1>5, <2>1, <2>2
    <2>4. acts' \in 0..MaxActs
      BY <1>6 DEF Says
    <2> QED BY <1>2, <1>3, <2>1, <2>3, <2>4, AnswerQInv
  <1>7. CASE ~c.cache /\ UNCHANGED <<down, session, acts>>
    <2>1. UNCHANGED <<account, playlist, uploading, queues, removing, made, webSocket, connected,
                      initialized, shown, state>>
      BY <1>2 DEF store, player
    <2>2. Data' /\ Outside' /\ CurrentIsNotQueued' /\ Served'
      BY <1>7, <2>1 DEF QInv, Data, Outside, CurrentIsNotQueued, Served, Current
    <2>3. Wires'
      BY <1>3, <1>7, <2>1 DEF QInv, Wires
    <2>4. Suffix(c.queue, theirs)
      BY <1>1, <1>4, <1>7, SuffixBasics
    <2>5. Current(s) /\ initialized => Informed(up'[s], c.queue, all)
      BY <1>3, <1>4, <1>5, <2>4
    <2>6. Synchronous'
      BY <1>3, <1>7, <2>1, <2>5 DEF QInv, Synchronous, Current
    <2> QED BY <1>2, <2>2, <2>3, <2>6 DEF QInv
  <1>8. Says(s, theirs) \/ (~c.cache /\ UNCHANGED <<down, session, acts>>)
    <2>1. CASE request.type = "INITIALIZE" /\ Initialize(s, c)
      BY <1>1, <1>4, <2>1, InitializeSays
    <2>2. CASE request.type = "RESET" /\ Reset(s, c)
      BY <1>1, <1>4, <2>2, ResetSays
    <2>3. CASE request.type = "UPDATEQUEUE" /\ c.cache /\ ReplaceQueue(s, c, request.queue)
      BY <1>1, <1>4, <2>3, ReplaceSays
    <2>4. CASE request.type = "PLAY" /\ c.cache /\ PlayAction(s, c)
      BY <1>1, <2>4, PlaySays
    <2>5. CASE request.type = "NEXT" /\ c.cache /\ OpenNextSong(s, c, 0)
      BY <1>1, <2>5, OpenSays
    <2> QED BY <2>1, <2>2, <2>3, <2>4, <2>5 DEF HandleRequest
  <1> QED BY <1>6, <1>7, <1>8
-------------------------------------------------------------------------------
(* Sockets come and go. *)

\* Nothing is said of the wires of a socket that is not current.
LEMMA DetachedQInv ==
    ASSUME QInv, IInv', Data', Outside', CurrentIsNotQueued', Wires',
           \A s \in Sockets : session'[s] = session[s] \/ session'[s] = NewSession,
           \A s \in Sockets : ~Current(s)'
    PROVE  QInv'
  <1>1. Synchronous'
    BY NoSession DEF QInv, Synchronous
  <1>2. Served'
    BY DEF Served
  <1> QED BY <1>1, <1>2 DEF QInv

LEMMA ConnectQInv == QInv /\ Connect => QInv'
  <1> SUFFICES ASSUME QInv, Connect
               PROVE  QInv'
    OBVIOUS
  <1>1. PICK s \in Sockets : /\ state[s] = "unused"
                             /\ SetWebsocket(s, [state EXCEPT ![s] = "connecting"])
    BY DEF Connect
  <1>2. webSocket' = s /\ initialized' = FALSE /\ state'[s] # "open"
    BY <1>1 DEF QInv, IInv, Shape, Registered, SetWebsocket
  <1>3. /\ UNCHANGED <<account, playlist, uploading, queues, removing, made, shown, up, down,
                       session, acts>>
        /\ account = "in"
    BY DEF Connect, store
  <1>4. Data' /\ Outside' /\ CurrentIsNotQueued' /\ Wires'
    BY <1>2, <1>3 DEF QInv, Data, Outside, CurrentIsNotQueued, Wires
  <1>5. \A r \in Sockets : ~Current(r)'
    BY <1>2 DEF Current
  <1>6. IInv'
    BY ConnectIInv DEF QInv
  <1> QED BY <1>3, <1>4, <1>5, <1>6, DetachedQInv

LEMMA OnCloseQInv ==
    ASSUME QInv, NEW s \in Sockets, OnClose(s)
    PROVE  QInv'
  <1>1. webSocket' = None /\ initialized' = FALSE /\ shown' = None
    BY DEF OnClose, SetWebsocket
  <1>2. UNCHANGED <<account, playlist, uploading, queues, removing, made, acts>>
    BY DEF OnClose, store
  <1>3. \A r \in Sockets :
           /\ up'[r] = IF r = s THEN <<>> ELSE up[r]
           /\ down'[r] = IF r = s THEN <<>> ELSE down[r]
           /\ session'[r] = IF r = s THEN NewSession ELSE session[r]
    BY DEF OnClose, QInv, IInv, Shape
  <1>4. Wires'
    BY <1>2, <1>3, NoSession, EmptySeq DEF QInv, Wires
  <1>5. Data' /\ Outside'
    <2>1. shown' \in 0..made
      BY <1>1 DEF QInv, Data, None
    <2> QED BY <1>1, <1>2, <2>1 DEF QInv, Data, Outside
  <1>6. CurrentIsNotQueued'
    <2>1. Items(queues.priority) \cup Items(queues.order) \cup Items(queues.list) \subseteq 1..made
      BY AllOf DEF QInv, Data, Distinct
    <2> QED BY <1>1, <1>2, <2>1 DEF CurrentIsNotQueued, None
  <1>7. \A r \in Sockets : ~Current(r)'
    BY <1>1, NoSocket DEF Current
  <1>8. IInv'
    BY OnCloseIInv DEF QInv
  <1> QED BY <1>3, <1>4, <1>5, <1>6, <1>7, <1>8, DetachedQInv

LEMMA LoggedOutQInv == QInv /\ LoggedOut => QInv'
  <1> SUFFICES ASSUME QInv, LoggedOut
               PROVE  QInv'
    OBVIOUS
  <1>1. /\ account = "leaving" /\ account' = "out" /\ playlist' = "none" /\ queues' = NoQueues
        /\ webSocket' = None /\ initialized' = FALSE /\ shown' = None
        /\ UNCHANGED <<uploading, removing, made, up, down, session, acts>>
    BY DEF LoggedOut
  <1>2. removing = {}
    BY <1>1 DEF QInv, Outside
  <1>3. Items(<<>>) = {} /\ Once(<<>>) /\ <<>> \in Seq(1..made)
    BY EmptySeq DEF Items, Once
  <1>4. Distinct(NoQueues, made)
    BY <1>3 DEF Distinct, QueuesOf, NoQueues
  <1>5. Data' /\ Wires'
    <2>1. shown' \in 0..made
      BY <1>1 DEF QInv, Data, None
    <2> QED BY <1>1, <1>4, <2>1 DEF QInv, Data, Wires
  <1>6. Outside'
    BY <1>1, <1>2 DEF Outside
  <1>7. CurrentIsNotQueued'
    BY <1>1, <1>3 DEF CurrentIsNotQueued, NoQueues
  <1>8. \A r \in Sockets : ~Current(r)'
    BY <1>1, NoSocket DEF Current
  <1>9. IInv'
    BY LoggedOutIInv DEF QInv
  <1> QED BY <1>1, <1>5, <1>6, <1>7, <1>8, <1>9, DetachedQInv

LEMMA LogInQInv == QInv /\ LogIn => QInv'
  <1> SUFFICES ASSUME QInv, LogIn
               PROVE  QInv'
    OBVIOUS
  <1>1. /\ account = "out" /\ account' = "in"
        /\ UNCHANGED <<playlist, uploading, queues, removing, made, webSocket, initialized, shown,
                       state, up, down, session, acts>>
    BY DEF LogIn, player, wire
  <1>2. webSocket = None /\ queues = NoQueues
    BY <1>1 DEF QInv, Outside
  <1>3. Items(queues.order) = {}
    BY <1>2, EmptySeq DEF NoQueues, Items
  <1>4. Data' /\ Outside' /\ Wires'
    BY <1>1 DEF QInv, Data, Outside, Wires
  <1>5. CurrentIsNotQueued'
    BY <1>1, <1>3 DEF QInv, CurrentIsNotQueued
  <1>6. \A r \in Sockets : ~Current(r)'
    BY <1>1, <1>2, NoSocket DEF Current
  <1>7. IInv'
    BY NextIInv DEF QInv, Next, User
  <1> QED BY <1>1, <1>4, <1>5, <1>6, <1>7, DetachedQInv

LEMMA NoPlaylistOf ==
    ASSUME made \in Nat, Distinct(queues, made)
    PROVE  /\ Follows(queues, made, NoPlaylist, made)
           /\ NoPlaylist.priority = queues.priority /\ NoPlaylist.order = queues.order
           /\ NoPlaylist.list = <<>>
           /\ queues.list = <<>> => NoPlaylist = queues
  <1>1. queues \in QueuesOf(made)
    BY DEF Distinct
  <1>2. NoPlaylist = [priority |-> queues.priority, order |-> queues.order, list |-> <<>>]
    BY <1>1, Replaced DEF NoPlaylist
  <1>3. Items(<<>>) = {} /\ Once(<<>>) /\ <<>> \in Seq(1..made)
    BY EmptySeq DEF Items, Once
  <1>4. Distinct(NoPlaylist, made)
    BY <1>2, <1>3 DEF Distinct, QueuesOf
  <1>5. Follows(queues, made, NoPlaylist, made)
    BY <1>2, <1>3, <1>4 DEF Follows
  <1>6. queues = [priority |-> queues.priority, order |-> queues.order, list |-> queues.list]
    BY <1>1 DEF QueuesOf
  <1>7. queues.list = <<>> => NoPlaylist = queues
    BY <1>2, <1>6
  <1> QED BY <1>2, <1>5, <1>7

\* Logging out closes the socket of the store if it is open.
LEMMA LogOutQInv == QInv /\ LogOut => QInv'
  <1> SUFFICES ASSUME QInv, LogOut
               PROVE  QInv'
    OBVIOUS
  <1>1. /\ account' = "leaving" /\ queues' = NoPlaylist /\ removing' = {} /\ playlist' = "none"
        /\ state' = Closed(state)
        /\ UNCHANGED <<uploading, made, webSocket, down, session>>
        /\ ResetPlayer(<<>>)
        /\ acts' \in 0..MaxActs
    BY Counts DEF LogOut, Act, ResetPlayer, QInv, Data
  <1>2. /\ initialized' \in BOOLEAN /\ shown' \in 0..made
        /\ shown' = shown \/ shown' = None
    <2>1. None \in 0..made
      BY DEF QInv, Data, None
    <2> QED BY <1>1, <2>1 DEF ResetPlayer, QInv, Data
  <1>3. /\ Distinct(NoPlaylist, made) /\ NoPlaylist.order = queues.order
        /\ NoPlaylist.priority = queues.priority /\ NoPlaylist.list = <<>>
    BY NoPlaylistOf DEF QInv, Data, Follows
  <1>4. Data'
    BY <1>1, <1>2, <1>3 DEF QInv, Data
  <1>5. Outside'
    BY <1>1 DEF Outside
  <1>6. CurrentIsNotQueued'
    <2>1. Items(queues.priority) \subseteq 1..made
      BY AllOf DEF QInv, Data, Distinct
    <2>2. Items(<<>>) = {}
      BY EmptySeq DEF Items
    <2> QED BY <1>1, <1>2, <1>3, <2>1, <2>2 DEF QInv, CurrentIsNotQueued, None
  <1>7. Wires'
    <2>1. CASE UNCHANGED up
      BY <1>1, <2>1 DEF QInv, Wires
    <2>2. CASE Send(<<[type |-> "RESET"]>> \o <<>>)
      <3>1. [type |-> "RESET"] \in Request(made)
        BY DEF Request
      <3>2. <<[type |-> "RESET"]>> \o <<>> \in Seq(Request(made))
        BY <3>1, Single, EmptySeq, ConcatProperties
      <3>3. \A s \in Sockets :
               up[s] \o (<<[type |-> "RESET"]>> \o <<>>) \in Seq(Request(made))
        BY <3>2, ConcatProperties DEF QInv, Wires
      <3> QED BY <1>1, <2>2, <3>3 DEF Send, QInv, IInv, Shape, Wires
    <2> QED BY <1>1, <2>1, <2>2 DEF ResetPlayer
  <1>8. \A r \in Sockets : ~Current(r)'
    BY <1>1, ClosedStates, NoSocket DEF QInv, Current
  <1>9. IInv'
    BY LogOutIInv DEF QInv
  <1> QED BY <1>1, <1>4, <1>5, <1>6, <1>7, <1>8, <1>9, DetachedQInv

LEMMA DisconnectQInv == QInv /\ Disconnect => QInv'
  <1> SUFFICES ASSUME QInv, Disconnect
               PROVE  QInv'
    OBVIOUS
  <1>1. /\ state' = Closed(state)
        /\ UNCHANGED <<account, playlist, uploading, queues, removing, made, webSocket,
                       initialized, shown, up, down, session, acts>>
    BY DEF Disconnect, store, player
  <1>2. Data' /\ Outside' /\ CurrentIsNotQueued' /\ Wires'
    BY <1>1 DEF QInv, Data, Outside, CurrentIsNotQueued, Wires
  <1>3. \A r \in Sockets : ~Current(r)'
    BY <1>1, ClosedStates, NoSocket DEF QInv, Current
  <1>4. IInv'
    BY DisconnectIInv DEF QInv
  <1> QED BY <1>1, <1>2, <1>3, <1>4, DetachedQInv

\* A socket that has just been opened is mute, and the strip not visible.
LEMMA OnOpenQInv ==
    ASSUME QInv, NEW s \in Sockets, OnOpen(s)
    PROVE  QInv'
  <1>1. /\ UNCHANGED <<account, playlist, uploading, queues, removing, made, webSocket,
                       initialized, shown, up, down, session, acts>>
        /\ state[s] = "connecting" /\ state' = [state EXCEPT ![s] = "open"]
    BY DEF OnOpen, store
  <1>2. Data' /\ Outside' /\ CurrentIsNotQueued' /\ Wires'
    BY <1>1 DEF QInv, Data, Outside, CurrentIsNotQueued, Wires
  <1>3. Mute(s) /\ (webSocket = s => ~initialized)
    BY <1>1, NoSocket DEF QInv, IInv, MuteSockets, StripHasItsSocket
  <1>4. \A r \in Sockets : r # s => (Current(r)' => Current(r))
    BY <1>1 DEF QInv, IInv, Shape, Current
  <1>5. Synchronous'
    BY <1>1, <1>3, <1>4 DEF QInv, Synchronous, Current
  <1>6. Served'
    <2>1. webSocket = s => Off(down[s], initialized)
      BY <1>3, EmptySeq DEF Mute, Off, QInv, Data
    <2> QED BY <1>1, <1>4, <2>1 DEF QInv, Served, Current
  <1>7. IInv'
    BY OnOpenIInv DEF QInv
  <1> QED BY <1>2, <1>5, <1>6, <1>7 DEF QInv
-------------------------------------------------------------------------------
(* Events that change the queues. *)

Sends(messages) ==
    \A s \in Sockets : up'[s] = IF Current(s) THEN up[s] \o messages ELSE up[s]

\* An event that may change the queues and send messages: if the strip is then
\* visible the last of them has the queues, or they are as they were.
Event(messages) ==
    /\ UNCHANGED <<account, webSocket, state, session>>
    /\ account # "in" => UNCHANGED <<queues, removing>>
    /\ Follows(queues, made, queues', made')
    /\ removing' \subseteq Items(queues'.order)
    /\ playlist' \in {"none", "empty", "songs"}
    /\ uploading' \in BOOLEAN
    /\ initialized' \in BOOLEAN
    /\ acts' \in 0..MaxActs
    /\ shown' \in 0..made'
    /\ CurrentIsNotQueued'
    /\ messages \in Seq(Request(made')) /\ Sends(messages)
    /\ initialized' =>
          \/ /\ initialized /\ All(queues') = All(queues)
             /\ \A k \in DOMAIN messages : messages[k].type # "UPDATEQUEUE"
          \/ messages # <<>> /\ messages[Len(messages)] = UpdateQueue(queues')

LEMMA EventQInv ==
    ASSUME QInv, IInv', NEW messages, Event(messages), Served',
           \A s \in Sockets : down'[s] \in Seq(Report(made))
    PROVE  QInv'
  <1>1. /\ made \in Nat /\ made' \in Nat /\ made <= made'
        /\ Distinct(queues', made') /\ messages \in Seq(Request(made'))
    BY DEF QInv, Data, Event, Follows
  <1>2. Data'
    BY <1>1 DEF Event, Data
  <1>3. Outside'
    BY DEF QInv, Outside, Event
  <1>4. Request(made) \subseteq Request(made') /\ Report(made) \subseteq Report(made')
           /\ Session(made) \subseteq Session(made')
    BY <1>1, WiderTypes
  <1>5. Wires'
    <2> SUFFICES ASSUME NEW s \in Sockets
                 PROVE  /\ up'[s] \in Seq(Request(made')) /\ down'[s] \in Seq(Report(made'))
                        /\ session'[s] \in Session(made')
      BY DEF Wires
    <2>1. up[s] \in Seq(Request(made')) /\ down'[s] \in Seq(Report(made'))
      BY <1>4, SeqMonotonic DEF QInv, Wires
    <2>2. up[s] \o messages \in Seq(Request(made'))
      BY <1>1, <2>1, ConcatProperties
    <2>3. session'[s] \in Session(made')
      BY <1>4 DEF QInv, Wires, Event
    <2> QED BY <2>1, <2>2, <2>3 DEF Event, Sends
  <1>6. Synchronous'
    <2>1. ASSUME NEW s \in Sockets, Current(s), initialized'
          PROVE  Informed(up[s] \o messages, session[s].queue, All(queues'))
      <3>1. up[s] \in Seq(Request(made'))
        BY <1>4, SeqMonotonic DEF QInv, Wires
      <3>2. CASE /\ initialized /\ All(queues') = All(queues)
                 /\ \A k \in DOMAIN messages : messages[k].type # "UPDATEQUEUE"
        <4>1. Informed(up[s], session[s].queue, All(queues))
          BY <2>1, <3>2 DEF QInv, Synchronous
        <4> QED BY <1>1, <3>1, <3>2, <4>1, InformedAppend
      <3>3. CASE messages # <<>> /\ messages[Len(messages)] = UpdateQueue(queues')
        <4>1. messages[Len(messages)].type = "UPDATEQUEUE"
                 /\ messages[Len(messages)].queue = All(queues')
          BY <3>3 DEF UpdateQueue
        <4> QED BY <1>1, <3>1, <3>3, <4>1, InformedAppend
      <3> QED BY <2>1, <3>2, <3>3 DEF Event
    <2>2. \A s \in Sockets : session'[s] = session[s] /\ (Current(s)' <=> Current(s))
      BY DEF Event, Current
    <2>3. \A s \in Sockets : Current(s) => up'[s] = up[s] \o messages
      BY DEF Event, Sends
    <2> QED BY <2>1, <2>2, <2>3 DEF QInv, Synchronous
  <1> QED BY <1>2, <1>3, <1>5, <1>6 DEF QInv, Event

\* If no note is handled the strip must not appear.
LEMMA QuietEventQInv ==
    ASSUME QInv, IInv', NEW messages, Event(messages), UNCHANGED down, initialized' => initialized
    PROVE  QInv'
  <1>1. \A s \in Sockets : Current(s)' <=> Current(s)
    BY DEF Event, Current
  <1>2. \A s \in Sockets : Off(down[s], initialized) => Off(down[s], initialized')
    BY DEF Off
  <1>3. Served'
    BY <1>1, <1>2 DEF QInv, Served, Event
  <1> QED BY <1>3, EventQInv DEF QInv, Wires

LEMMA SendSends ==
    ASSUME QInv, NEW messages, Send(messages)
    PROVE  Sends(messages)
  BY NoSocket DEF QInv, IInv, Shape, Send, Sends, Current

LEMMA NothingSends ==
    ASSUME QInv, UNCHANGED up
    PROVE  Sends(<<>>)
  BY ConcatEmptySeq DEF QInv, Wires, Sends

\* The item that is shown stays out of the queues.
LEMMA StaysOut ==
    ASSUME QInv, NEW q, NEW n, Follows(queues, made, q, n), NEW r,
           removing \cap Items(q.order) \subseteq r, NEW x, x = shown \/ x = None
    PROVE  /\ x \in 0..n
           /\ x \notin Items(q.priority) \cup Items(q.list)
           /\ account = "in" /\ x \in Items(q.order) => x \in r
  <1>1. made \in Nat /\ n \in Nat /\ made <= n /\ q \in QueuesOf(n) /\ shown \in 0..made
    BY DEF QInv, Data, Follows, Distinct
  <1>2. x \in 0..n /\ x \notin made + 1..n /\ 0 \notin 1..n
    BY <1>1 DEF None
  <1>3. CASE x = None
    <2>1. Items(q.priority) \cup Items(q.order) \cup Items(q.list) \subseteq 1..n
      BY <1>1, AllOf
    <2> QED BY <1>2, <1>3, <2>1 DEF None
  <1>4. CASE x = shown
    BY <1>2, <1>4 DEF Follows, QInv, CurrentIsNotQueued
  <1> QED BY <1>3, <1>4

\* The strip sends each of the steps if it is visible.
LEMMA ChangesSend ==
    ASSUME QInv, NEW n \in Nat, NEW steps \in Seq(QueuesOf(n)), Changes(steps)
    PROVE  \E messages \in Seq(Request(n)) :
              /\ Sends(messages)
              /\ initialized =>
                    \/ steps = <<>> /\ messages = <<>>
                    \/ messages # <<>> /\ messages[Len(messages)] = UpdateQueue(queues')
  <1>1. CASE ~initialized
    <2>1. Sends(<<>>)
      BY <1>1, SendSends DEF Changes
    <2> QED BY <1>1, <2>1, EmptySeq
  <1>2. CASE initialized
    <2> DEFINE messages == UpdatesOf(steps)
    <2>1. /\ messages \in Seq(Request(n)) /\ Len(messages) = Len(steps)
          /\ \A k \in 1..Len(steps) : messages[k] = UpdateQueue(steps[k])
      BY UpdatesAreRequests
    <2>2. Sends(messages)
      BY <1>2, SendSends DEF Changes, UpdatesOf
    <2>3. queues' = Last(steps)
      BY DEF Changes
    <2> HIDE DEF messages
    <2>4. CASE steps = <<>>
      BY <2>1, <2>2, <2>4, EmptySeq
    <2>5. CASE steps # <<>>
      <3>1. Len(steps) \in 1..Len(steps)
        BY <2>5, EmptySeq, LenProperties
      <3>2. queues' = steps[Len(steps)] /\ messages # <<>>
        BY <2>1, <2>3, <2>5, <3>1, EmptySeq DEF Last
      <3> QED BY <2>1, <2>2, <3>1, <3>2
    <2> QED BY <2>4, <2>5
  <1> QED BY <1>1, <1>2

\* The queues stay as they are and nothing is said of them.
LEMMA PlainEvent ==
    ASSUME QInv, UNCHANGED <<account, webSocket, state, session, queues, removing, made>>,
           NEW messages \in Seq(Request(made)), Sends(messages),
           \A k \in DOMAIN messages : messages[k].type # "UPDATEQUEUE",
           playlist' \in {"none", "empty", "songs"}, uploading' \in BOOLEAN,
           initialized' \in BOOLEAN, initialized' => initialized,
           acts' \in 0..MaxActs, shown' = shown \/ shown' = None
    PROVE  Event(messages)
  <1>1. Follows(queues, made, queues', made') /\ removing' \subseteq Items(queues'.order)
    BY LaterQueues DEF QInv, Data, Outside
  <1>2. /\ shown' \in 0..made'
        /\ shown' \notin Items(queues'.priority) \cup Items(queues'.list)
        /\ account' = "in" /\ shown' \in Items(queues'.order) => shown' \in removing'
    BY <1>1, StaysOut
  <1>3. CurrentIsNotQueued'
    BY <1>2 DEF CurrentIsNotQueued
  <1> QED BY <1>1, <1>2, <1>3 DEF Event

LEMMA PressQInv == QInv /\ (StartPlayback \/ Press) => QInv'
  <1> SUFFICES ASSUME QInv, StartPlayback \/ Press
               PROVE  QInv'
    OBVIOUS
  <1>1. PICK type \in {"INITIALIZE", "PLAY", "NEXT"} : Send(<<[type |-> type]>>)
    BY DEF StartPlayback, Press
  <1>2. /\ UNCHANGED <<account, playlist, uploading, queues, removing, made, webSocket,
                       initialized, shown, state, down, session>>
        /\ acts' \in 0..MaxActs
    BY Counts DEF StartPlayback, Press, Act, store, player, QInv, Data
  <1>3. [type |-> type] \in Request(made) /\ type # "UPDATEQUEUE"
    BY DEF Request
  <1>4. /\ <<[type |-> type]>> \in Seq(Request(made))
        /\ \A k \in DOMAIN <<[type |-> type]>> : <<[type |-> type]>>[k].type # "UPDATEQUEUE"
    BY <1>3, Single
  <1>5. Event(<<[type |-> type]>>)
    BY <1>1, <1>2, <1>4, SendSends, PlainEvent DEF QInv, Data
  <1>6. IInv'
    BY UserIInv DEF QInv
  <1> QED BY <1>2, <1>5, <1>6, QuietEventQInv

LEMMA StopQInv == QInv /\ StopPlayback => QInv'
  <1> SUFFICES ASSUME QInv, StopPlayback
               PROVE  QInv'
    OBVIOUS
  <1> DEFINE reset == <<[type |-> "RESET"]>>
  <1>1. /\ UNCHANGED <<account, playlist, uploading, queues, removing, made, webSocket,
                       state, down, session>>
        /\ acts' \in 0..MaxActs /\ ResetPlayer(<<>>)
    BY Counts DEF StopPlayback, ResetPlayer, Act, store, QInv, Data
  <1>2. /\ initialized' \in BOOLEAN /\ (initialized' => initialized)
        /\ shown' = shown \/ shown' = None
    BY <1>1 DEF ResetPlayer, QInv, Data
  <1>3. [type |-> "RESET"] \in Request(made)
    BY DEF Request
  <1>4. reset \in Seq(Request(made)) /\ \A k \in DOMAIN reset : reset[k].type # "UPDATEQUEUE"
    BY <1>3, Single
  <1>5. reset \o <<>> = reset /\ <<>> \in Seq(Request(made))
    BY <1>4, ConcatEmptySeq
  <1>6. \E messages \in Seq(Request(made)) :
           Sends(messages) /\ \A k \in DOMAIN messages : messages[k].type # "UPDATEQUEUE"
    <2>1. CASE Send(reset)
      BY <1>4, <2>1, SendSends
    <2>2. CASE UNCHANGED up
      <3>1. Sends(<<>>)
        BY <2>2, NothingSends
      <3>2. \A k \in DOMAIN <<>> : <<>>[k].type # "UPDATEQUEUE"
        BY EmptySeq
      <3> QED BY <1>5, <3>1, <3>2
    <2> QED BY <1>1, <1>5, <2>1, <2>2 DEF ResetPlayer
  <1>7. \E messages : Event(messages)
    BY <1>1, <1>2, <1>6, PlainEvent DEF QInv, Data
  <1>8. IInv'
    BY UserIInv DEF QInv
  <1> QED BY <1>1, <1>2, <1>7, <1>8, QuietEventQInv

LEMMA PlaylistChangedQInv == QInv /\ PlaylistChanged => QInv'
  <1> SUFFICES ASSUME QInv, PlaylistChanged
               PROVE  QInv'
    OBVIOUS
  <1>1. /\ UNCHANGED <<account, queues, removing, made, webSocket, initialized, shown, state, up,
                       down, session, acts>>
        /\ uploading' = FALSE /\ playlist' \in {"empty", "songs"}
    BY DEF PlaylistChanged, player, wire
  <1>2. Sends(<<>>)
    BY <1>1, NothingSends
  <1>3. <<>> \in Seq(Request(made)) /\ \A k \in DOMAIN <<>> : <<>>[k].type # "UPDATEQUEUE"
    BY EmptySeq
  <1>4. Event(<<>>)
    BY <1>1, <1>2, <1>3, PlainEvent DEF QInv, Data
  <1>5. IInv'
    BY NextIInv DEF QInv, Next
  <1> QED BY <1>1, <1>4, <1>5, QuietEventQInv

\* An event that changes the queues in steps, each of them sent if the strip is
\* visible.
LEMMA ChangesEvent ==
    ASSUME QInv, UNCHANGED <<account, playlist, uploading, webSocket, initialized, state, session>>,
           account = "in" \/ UNCHANGED <<queues, removing>>,
           acts' \in 0..MaxActs, made' \in Nat,
           NEW steps \in Seq(QueuesOf(made')), Changes(steps),
           Follows(queues, made, queues', made'), steps = <<>> => queues' = queues,
           removing' \subseteq Items(queues'.order), shown' \in 0..made', CurrentIsNotQueued'
    PROVE  \E messages : Event(messages)
  <1>1. PICK messages \in Seq(Request(made')) :
           /\ Sends(messages)
           /\ initialized =>
                 \/ steps = <<>> /\ messages = <<>>
                 \/ messages # <<>> /\ messages[Len(messages)] = UpdateQueue(queues')
    BY ChangesSend
  <1>2. initialized' =>
          \/ /\ initialized /\ All(queues') = All(queues)
             /\ \A k \in DOMAIN messages : messages[k].type # "UPDATEQUEUE"
          \/ messages # <<>> /\ messages[Len(messages)] = UpdateQueue(queues')
    BY <1>1, EmptySeq
  <1>3. Event(messages)
    BY <1>1, <1>2 DEF Event, QInv, Data
  <1> QED BY <1>3

\* One step that leaves what is shown alone.
LEMMA OneChangeQInv ==
    ASSUME QInv, IInv',
           UNCHANGED <<account, playlist, uploading, webSocket, initialized, shown, state, down, session>>,
           account = "in", acts' \in 0..MaxActs,
           NEW q, Changes(<<q>>), Follows(queues, made, q, made'),
           removing' \subseteq Items(q.order), removing \cap Items(q.order) \subseteq removing'
    PROVE  QInv'
  <1>1. q \in QueuesOf(made') /\ made' \in Nat
    BY DEF Follows, Distinct
  <1>2. <<q>> \in Seq(QueuesOf(made')) /\ <<q>> # <<>> /\ queues' = q
    BY <1>1, Single DEF Changes, Last
  <1>3. /\ shown' \in 0..made'
        /\ shown' \notin Items(queues'.priority) \cup Items(queues'.list)
        /\ account' = "in" /\ shown' \in Items(queues'.order) => shown' \in removing'
    BY <1>2, StaysOut
  <1>4. CurrentIsNotQueued'
    BY <1>3 DEF CurrentIsNotQueued
  <1>5. \E messages : Event(messages)
    BY <1>1, <1>2, <1>3, <1>4, ChangesEvent
  <1> QED BY <1>5, QuietEventQInv

LEMMA AddItemQInv == QInv /\ AddItem => QInv'
  <1> SUFFICES ASSUME QInv, AddItem
               PROVE  QInv'
    OBVIOUS
  <1>1. /\ UNCHANGED <<account, playlist, uploading, removing, webSocket, initialized, shown,
                       state, down, session>>
        /\ account = "in" /\ acts' \in 0..MaxActs /\ made' = made + 1
    BY Counts DEF AddItem, Act, player, QInv, Data
  <1>2. made \in Nat /\ Distinct(queues, made)
    BY DEF QInv, Data
  <1>3. \E q : Changes(<<q>>) /\ Follows(queues, made, q, made') /\ q.order = queues.order
    <2>1. PICK place \in {"priority", "list"} :
             Changes(<<[queues EXCEPT ![place] = Append(@, made + 1)]>>)
      BY DEF AddItem
    <2>2. CASE place = "priority"
      BY <1>1, <1>2, <2>1, <2>2, AddedToPriority
    <2>3. CASE place = "list"
      <3> DEFINE r == [queues EXCEPT !.list = Append(@, made + 1)]
      <3>1. queues.list \in Seq(1..(made + 1)) /\ made + 1 \in 1..(made + 1)
        BY <1>2, Numbers, SeqMonotonic DEF Distinct, QueuesOf
      <3>2. Append(queues.list, made + 1) = queues.list \o <<made + 1>>
        BY <3>1, AppendIsConcat
      <3>3. <<made + 1>> = [j \in 1..1 |-> made + j]
        OBVIOUS
      <3>4. r = [queues EXCEPT !.list = @ \o [j \in 1..1 |-> made + j]]
        BY <3>2, <3>3
      <3>5. LET t == [queues EXCEPT !.list = @ \o [j \in 1..1 |-> made + j]]
            IN  Follows(queues, made, t, made + 1) /\ t.order = queues.order
        <4>1. 1 \in Nat
          OBVIOUS
        <4> QED BY <1>2, <4>1, AddedToList
      <3>6. Follows(queues, made, r, made + 1) /\ r.order = queues.order
        <4> HIDE DEF r
        <4> QED BY <3>4, <3>5
      <3> QED BY <1>1, <2>1, <2>3, <3>6
    <2> QED BY <2>1, <2>2, <2>3
  <1>4. IInv'
    BY QueuesIInv DEF QInv
  <1> QED BY <1>1, <1>3, <1>4, OneChangeQInv DEF QInv, Outside

LEMMA ChildAddedQInv == QInv /\ ChildAdded => QInv'
  <1> SUFFICES ASSUME QInv, ChildAdded
               PROVE  QInv'
    OBVIOUS
  <1> DEFINE q == [queues EXCEPT !.order = Append(@, made + 1)]
  <1>1. /\ UNCHANGED <<account, playlist, uploading, removing, webSocket, initialized, shown,
                       state, down, session>>
        /\ account = "in" /\ acts' \in 0..MaxActs /\ made' = made + 1 /\ Changes(<<q>>)
    BY Counts DEF ChildAdded, Act, player, QInv, Data
  <1>2. Follows(queues, made, q, made + 1) /\ Items(q.order) = Items(queues.order) \cup {made + 1}
    BY AddedToOrder DEF QInv, Data
  <1> HIDE DEF q
  <1>3. IInv'
    BY QueuesIInv DEF QInv
  <1> QED BY <1>1, <1>2, <1>3, OneChangeQInv DEF QInv, Outside

LEMMA ChildRemovedQInv == QInv /\ ChildRemoved => QInv'
  <1> SUFFICES ASSUME QInv, ChildRemoved
               PROVE  QInv'
    OBVIOUS
  <1>1. PICK item \in removing :
           /\ removing' = removing \ {item}
           /\ Changes(<<[queues EXCEPT !.order = Without(@, item)]>>)
           /\ UNCHANGED <<account, playlist, uploading, made, player, state, down, session, acts>>
    BY DEF ChildRemoved
  <1> DEFINE q == [queues EXCEPT !.order = Without(@, item)]
  <1>2. Follows(queues, made, q, made) /\ Items(q.order) = Items(queues.order) \ {item}
    BY RemovedFromOrder DEF QInv, Data
  <1>3. Changes(<<q>>)
    BY <1>1
  <1> HIDE DEF q
  <1>4. account = "in" /\ UNCHANGED <<webSocket, initialized, shown>> /\ acts' \in 0..MaxActs
    BY <1>1 DEF QInv, Outside, Data, player
  <1>5. IInv'
    BY QueuesIInv DEF QInv
  <1> QED BY <1>1, <1>2, <1>3, <1>4, <1>5, OneChangeQInv DEF QInv, Outside

LEMMA RemoveItemQInv == QInv /\ RemoveItem => QInv'
  <1> SUFFICES ASSUME QInv, RemoveItem
               PROVE  QInv'
    OBVIOUS
  <1>1. /\ UNCHANGED <<account, playlist, uploading, webSocket, initialized, shown,
                       state, down, session>>
        /\ account = "in" /\ acts' \in 0..MaxActs
        /\ made \in Nat /\ Distinct(queues, made) /\ removing \subseteq Items(queues.order)
    BY Counts DEF RemoveItem, Act, player, QInv, Data, Outside
  <1>2. IInv'
    BY QueuesIInv DEF QInv
  <1>3. ASSUME NEW item \in Items(queues.order), removing' = removing \cup {item},
               UNCHANGED <<queues, made, up>>
        PROVE  QInv'
    <2>1. Sends(<<>>)
      BY <1>3, NothingSends
    <2>2. Follows(queues, made, queues, made)
      BY <1>1, LaterQueues
    <2>3. /\ shown' \in 0..made'
          /\ shown' \notin Items(queues'.priority) \cup Items(queues'.list)
          /\ account' = "in" /\ shown' \in Items(queues'.order) => shown' \in removing'
      BY <1>1, <1>3, <2>2, StaysOut
    <2>4. CurrentIsNotQueued'
      BY <2>3 DEF CurrentIsNotQueued
    <2>5. <<>> \in Seq(Request(made')) /\ \A k \in DOMAIN <<>> : <<>>[k].type # "UPDATEQUEUE"
      BY EmptySeq
    <2>6. Event(<<>>)
      BY <1>1, <1>3, <2>1, <2>2, <2>3, <2>4, <2>5 DEF Event, QInv, Data
    <2> QED BY <1>1, <1>2, <2>6, QuietEventQInv
  <1>4. ASSUME NEW item, item \notin Items(queues.order),
               LET q == Removed(queues, item)
                   steps == <<q>> \o Maintained(q)
               IN  Changes(<<steps[Len(steps)]>>) /\ made' = made + Len(steps) - 1,
               UNCHANGED removing
        PROVE  QInv'
    <2> DEFINE q == Removed(queues, item)
               more == Maintained(q)
               steps == <<q>> \o more
               r == Settled(q)
    <2>1. Follows(queues, made, q, made) /\ q.order = queues.order
      BY <1>1, <1>4, RemovedOf
    <2>2. Distinct(q, made)
      BY <2>1 DEF Follows
    <2>3. Len(more) \in Nat /\ Follows(q, made, r, made + Len(more)) /\ r.order = q.order
      BY <1>1, <2>2, MaintainedOf
    <2>4. Len(steps) = 1 + Len(more) /\ steps[Len(steps)] = r
      BY <1>1, <2>2, ThenMaintained
    <2>5. Changes(<<r>>) /\ made' = made + Len(steps) - 1
      BY <1>4, <2>4
    <2> HIDE DEF q, more, steps, r
    <2>6. made' = made + Len(more)
      BY <1>1, <2>3, <2>4, <2>5
    <2>7. Follows(queues, made, r, made')
      BY <1>1, <2>1, <2>3, <2>6, FollowsTrans
    <2> QED BY <1>1, <1>2, <1>4, <2>1, <2>3, <2>5, <2>7, OneChangeQInv
  <1> QED BY <1>3, <1>4 DEF RemoveItem

LEMMA RemovePlaylistQInv == QInv /\ RemovePlaylist => QInv'
  <1> SUFFICES ASSUME QInv, RemovePlaylist
               PROVE  QInv'
    OBVIOUS
  <1> DEFINE reset == <<[type |-> "RESET"]>>
             more == IF queues.list = <<>> THEN <<>> ELSE <<UpdateQueue(NoPlaylist)>>
  <1>1. /\ UNCHANGED <<account, made, webSocket, state, down, session>>
        /\ account = "in" /\ acts' \in 0..MaxActs
        /\ queues' = NoPlaylist /\ removing' = Items(queues.order) /\ playlist' = "none"
        /\ ResetPlayer(more)
    BY Counts DEF RemovePlaylist, ResetPlayer, Act, QInv, Data
  <1>2. uploading' \in BOOLEAN
    BY DEF RemovePlaylist, QInv, Data
  <1>3. /\ initialized' \in BOOLEAN /\ (initialized' => initialized)
        /\ shown' = shown \/ shown' = None
    BY <1>1 DEF ResetPlayer, QInv, Data
  <1>4. /\ made \in Nat /\ Distinct(queues, made)
        /\ Follows(queues, made, NoPlaylist, made) /\ NoPlaylist.order = queues.order
        /\ queues.list = <<>> => NoPlaylist = queues
    BY NoPlaylistOf DEF QInv, Data
  <1>5. /\ shown' \in 0..made'
        /\ shown' \notin Items(queues'.priority) \cup Items(queues'.list)
        /\ account' = "in" /\ shown' \in Items(queues'.order) => shown' \in removing'
    BY <1>1, <1>3, <1>4, StaysOut
  <1>6. CurrentIsNotQueued'
    BY <1>5 DEF CurrentIsNotQueued
  <1>7. UpdateQueue(NoPlaylist) \in Request(made) /\ [type |-> "RESET"] \in Request(made)
    BY <1>4, UpdateIsRequest DEF Follows, Distinct, Request
  <1>8. reset \in Seq(Request(made)) /\ Len(reset) = 1 /\ reset[1].type = "RESET"
    BY <1>7, Single
  <1>9. \E messages \in Seq(Request(made)) :
           /\ Sends(messages)
           /\ initialized' =>
                 \/ /\ initialized /\ All(queues') = All(queues)
                    /\ \A k \in DOMAIN messages : messages[k].type # "UPDATEQUEUE"
                 \/ messages # <<>> /\ messages[Len(messages)] = UpdateQueue(queues')
    <2>1. CASE ~(webSocket # None /\ initialized)
      <3>1. Sends(<<>>) /\ initialized' = FALSE
        BY <1>1, <2>1, NothingSends DEF ResetPlayer
      <3> QED BY <3>1, EmptySeq
    <2>2. CASE webSocket # None /\ initialized /\ queues.list = <<>>
      <3>1. reset \o <<>> = reset
        BY <1>8, ConcatEmptySeq
      <3>2. Sends(reset)
        BY <1>1, <2>2, <3>1, SendSends DEF ResetPlayer
      <3>3. \A k \in DOMAIN reset : reset[k].type # "UPDATEQUEUE"
        BY <1>8
      <3>4. All(queues') = All(queues)
        BY <1>1, <1>4, <2>2
      <3> HIDE DEF reset
      <3> QED BY <1>8, <2>2, <3>2, <3>3, <3>4
    <2>3. CASE webSocket # None /\ initialized /\ queues.list # <<>>
      <3> DEFINE update == <<UpdateQueue(NoPlaylist)>>
                 messages == reset \o update
      <3>1. Sends(messages)
        BY <1>1, <2>3, SendSends DEF ResetPlayer
      <3>2. update \in Seq(Request(made)) /\ Len(update) = 1 /\ update[1] = UpdateQueue(NoPlaylist)
        BY <1>7, Single
      <3> HIDE DEF reset, update
      <3>3. /\ messages \in Seq(Request(made)) /\ Len(messages) = 1 + 1
            /\ messages[2] = update[2 - 1]
        BY <1>8, <3>2, ConcatProperties
      <3> HIDE DEF messages
      <3>4. messages # <<>> /\ messages[Len(messages)] = UpdateQueue(queues')
        BY <1>1, <3>2, <3>3, EmptySeq
      <3> QED BY <3>1, <3>3, <3>4
    <2> QED BY <2>1, <2>2, <2>3
  <1>10. \E messages : Event(messages)
    BY <1>1, <1>2, <1>3, <1>4, <1>5, <1>6, <1>9 DEF Event
  <1>11. IInv'
    BY UserIInv DEF QInv
  <1> QED BY <1>1, <1>3, <1>10, <1>11, QuietEventQInv
-------------------------------------------------------------------------------
(* Messages of the player. *)

\* They come from the socket of the store, while the user is logged in.
LEMMA MessageComes ==
    ASSUME QInv, NEW s \in Sockets, WebSocketOnMessage(s)
    PROVE  /\ Current(s) /\ account = "in"
           /\ UNCHANGED <<account, playlist, uploading, webSocket, state, session, acts>>
           /\ down[s] \in Seq(Report(made)) /\ down[s] # <<>> /\ Head(down[s]) \in Report(made)
           /\ down'[s] = Tail(down[s]) /\ Tail(down[s]) \in Seq(Report(made))
           /\ \A r \in Sockets : r # s => down'[r] = down[r]
  <1>1. state[s] = "open" /\ ~Mute(s) /\ down[s] # <<>> /\ down' = [down EXCEPT ![s] = Tail(@)]
    BY DEF WebSocketOnMessage, Mute
  <1>2. s = webSocket /\ account # "leaving"
    BY <1>1, NoSocket DEF QInv, IInv, MuteSockets, OneLiveSocket, Live
  <1>3. account = "in"
    BY <1>2, NoSocket DEF QInv, IInv, Shape, Outside
  <1>4. UNCHANGED <<account, playlist, uploading, webSocket, state, session, acts>>
    BY DEF WebSocketOnMessage, MaintainPlaylistQueue, SongStarted, HandleSongFailed,
           HandleFileserverDisconnected, Initialized, OnReset, Handled
  <1>5. down[s] \in Seq(Report(made))
    BY DEF QInv, Wires
  <1>6. Head(down[s]) \in Report(made) /\ Tail(down[s]) \in Seq(Report(made))
    BY <1>1, <1>5, HeadTailProperties
  <1> QED BY <1>1, <1>2, <1>3, <1>4, <1>5, <1>6 DEF QInv, IInv, Shape, Current

\* Only a successful INITIALIZE makes the strip visible.
LEMMA NoteQInv ==
    ASSUME QInv, NEW s \in Sockets, WebSocketOnMessage(s), NEW messages, Event(messages),
           initialized' =>
              \/ initialized /\ ~TakesAway(Head(down[s]))
              \/ Head(down[s]) = Note("INITIALIZE", TRUE)
    PROVE  QInv'
  <1>1. /\ down[s] \in Seq(Report(made)) /\ down[s] # <<>>
        /\ down'[s] = Tail(down[s]) /\ Tail(down[s]) \in Seq(Report(made))
        /\ \A r \in Sockets : r # s => down'[r] = down[r]
        /\ Current(s)
    BY MessageComes
  <1>2. ASSUME Off(down[s], initialized)
        PROVE  Off(Tail(down[s]), initialized')
    <2>1. initialized \in BOOLEAN /\ initialized' \in BOOLEAN
      BY DEF QInv, Data, Event
    <2> QED BY <1>1, <1>2, <2>1, OffTail
  <1>3. \A r \in Sockets : session'[r] = session[r] /\ (Current(r)' <=> Current(r))
                               /\ (Current(r) => r = s)
    BY <1>1 DEF Event, Current
  <1>4. Served'
    BY <1>1, <1>2, <1>3 DEF QInv, Served
  <1>5. \A r \in Sockets : down'[r] \in Seq(Report(made))
    BY <1>1 DEF QInv, Wires
  <1>6. IInv'
    BY MessageIInv DEF QInv
  <1> QED BY <1>4, <1>5, <1>6, EventQInv

\* removeQueueItem, whatever the handler does with the item that is shown.
LEMMA RemoveEvent ==
    ASSUME QInv, account = "in",
           UNCHANGED <<account, playlist, uploading, webSocket, initialized, state, session, acts>>,
           NEW item \in 1..made, shown' = item \/ shown' = shown,
           \/ /\ item \in Items(queues.order)
              /\ removing' = removing \cup {item}
              /\ UNCHANGED <<queues, made, up>>
           \/ /\ item \notin Items(queues.order)
              /\ LET q == Removed(queues, item)
                 IN  /\ Changes(<<q>> \o Maintained(q))
                     /\ made' = made + Len(Maintained(q))
              /\ UNCHANGED removing
    PROVE  \E messages : Event(messages)
  <1>1. /\ made \in Nat /\ Distinct(queues, made) /\ removing \subseteq Items(queues.order)
        /\ acts' \in 0..MaxActs /\ initialized' \in BOOLEAN
    BY DEF QInv, Data, Outside
  <1>2. CASE /\ item \in Items(queues.order)
             /\ removing' = removing \cup {item}
             /\ UNCHANGED <<queues, made, up>>
    <2>1. Sends(<<>>)
      BY <1>2, NothingSends
    <2>2. Follows(queues, made, queues, made)
      BY <1>1, LaterQueues
    <2>3. shown' \in 0..made' /\ CurrentIsNotQueued'
      <3>1. CASE shown' = item
        <4>1. item \in 0..made
          BY <1>1
        <4>2. item \notin Items(queues.priority) \cup Items(queues.list)
          BY <1>1, <1>2 DEF Distinct
        <4> QED BY <1>2, <3>1, <4>1, <4>2 DEF CurrentIsNotQueued
      <3>2. CASE shown' = shown
        <4>1. /\ shown' \in 0..made'
              /\ shown' \notin Items(queues'.priority) \cup Items(queues'.list)
              /\ account' = "in" /\ shown' \in Items(queues'.order) => shown' \in removing'
          BY <1>2, <2>2, <3>2, StaysOut
        <4> QED BY <4>1 DEF CurrentIsNotQueued
      <3> QED BY <3>1, <3>2
    <2>4. <<>> \in Seq(Request(made')) /\ \A k \in DOMAIN <<>> : <<>>[k].type # "UPDATEQUEUE"
      BY EmptySeq
    <2>5. removing' \subseteq Items(queues'.order)
      BY <1>1, <1>2
    <2>6. Event(<<>>)
      BY <1>1, <1>2, <2>1, <2>2, <2>3, <2>4, <2>5 DEF Event, QInv, Data
    <2> QED BY <2>6
  <1>3. CASE /\ item \notin Items(queues.order)
             /\ LET q == Removed(queues, item)
                IN  /\ Changes(<<q>> \o Maintained(q))
                    /\ made' = made + Len(Maintained(q))
             /\ UNCHANGED removing
    <2> DEFINE q == Removed(queues, item)
               more == Maintained(q)
               steps == <<q>> \o more
               r == Settled(q)
    <2>1. /\ Follows(queues, made, q, made) /\ q.order = queues.order
          /\ item \notin Items(q.priority) \cup Items(q.list)
      BY <1>1, <1>3, RemovedOf
    <2>2. Distinct(q, made)
      BY <2>1 DEF Follows
    <2>3. Len(more) \in Nat /\ Follows(q, made, r, made + Len(more)) /\ r.order = q.order
      BY <1>1, <2>2, MaintainedOf
    <2>4. /\ steps \in Seq(QueuesOf(made + Len(more))) /\ steps # <<>> /\ steps[Len(steps)] = r
      BY <1>1, <2>2, ThenMaintained
    <2>5. Changes(steps) /\ made' = made + Len(more)
      BY <1>3
    <2> HIDE DEF q, more, steps, r
    <2>6. queues' = r /\ made' \in Nat /\ made <= made'
      BY <1>1, <2>3, <2>4, <2>5 DEF Changes, Last
    <2>7. Follows(queues, made, r, made')
      BY <1>1, <2>1, <2>3, <2>5, FollowsTrans
    <2>8. removing' \subseteq Items(queues'.order)
      BY <1>1, <1>3, <2>1, <2>3, <2>6
    <2>9. shown' \in 0..made' /\ CurrentIsNotQueued'
      <3>1. CASE shown' = item
        <4>1. item \in 0..made' /\ item \notin made + 1..made'
          BY <1>1, <2>6
        <4>2. item \notin Items(r.priority) \cup Items(r.list)
          BY <2>1, <2>3, <2>5, <4>1 DEF Follows
        <4> QED BY <1>3, <2>1, <2>3, <2>6, <3>1, <4>1, <4>2 DEF CurrentIsNotQueued
      <3>2. CASE shown' = shown
        <4>1. /\ shown' \in 0..made'
              /\ shown' \notin Items(r.priority) \cup Items(r.list)
              /\ account' = "in" /\ shown' \in Items(r.order) => shown' \in removing'
          BY <1>3, <2>7, <3>2, StaysOut
        <4> QED BY <2>6, <4>1 DEF CurrentIsNotQueued
      <3> QED BY <3>1, <3>2
    <2> QED BY <1>1, <2>4, <2>5, <2>6, <2>7, <2>8, <2>9, ChangesEvent
  <1> QED BY <1>2, <1>3

LEMMA RequestPlaylistQInv ==
    ASSUME QInv, NEW s \in Sockets, WebSocketOnMessage(s),
           Head(down[s]).type = "REQUESTPLAYLIST", MaintainPlaylistQueue
    PROVE  QInv'
  <1> DEFINE steps == Maintained(queues)
             r == Settled(queues)
  <1>1. /\ UNCHANGED <<account, playlist, uploading, webSocket, initialized, shown, removing,
                       state, session, acts>>
        /\ account = "in" /\ made' = made + Len(steps) /\ Changes(steps)
    BY MessageComes DEF MaintainPlaylistQueue
  <1>2. made \in Nat /\ Distinct(queues, made) /\ removing \subseteq Items(queues.order)
    BY DEF QInv, Data, Outside
  <1>3. /\ Len(steps) \in Nat /\ steps \in Seq(QueuesOf(made + Len(steps)))
        /\ Follows(queues, made, r, made + Len(steps)) /\ r.order = queues.order
    BY <1>2, MaintainedOf
  <1>4. queues' = r /\ (steps = <<>> => queues' = queues)
    BY <1>1 DEF Changes, Last, Settled
  <1> HIDE DEF steps, r
  <1>5. made' \in Nat /\ steps \in Seq(QueuesOf(made')) /\ Follows(queues, made, r, made')
    BY <1>1, <1>2, <1>3
  <1>6. /\ shown' \in 0..made'
        /\ shown' \notin Items(queues'.priority) \cup Items(queues'.list)
        /\ account' = "in" /\ shown' \in Items(queues'.order) => shown' \in removing'
    BY <1>1, <1>4, <1>5, StaysOut
  <1>7. CurrentIsNotQueued'
    BY <1>6 DEF CurrentIsNotQueued
  <1>8. removing' \subseteq Items(queues'.order) /\ acts' \in 0..MaxActs
    BY <1>1, <1>2, <1>3, <1>4 DEF QInv, Data
  <1>9. \E messages : Event(messages)
    BY <1>1, <1>4, <1>5, <1>6, <1>7, <1>8, ChangesEvent
  <1>10. ~TakesAway(Head(down[s]))
    BY DEF TakesAway, Note
  <1> QED BY <1>1, <1>9, <1>10, NoteQInv

\* SONGSTARTED and SONGFAILED.
LEMMA SongQInv ==
    ASSUME QInv, NEW s \in Sockets, WebSocketOnMessage(s),
           \/ Head(down[s]).type = "SONGSTARTED" /\ SongStarted(Head(down[s]).item)
           \/ Head(down[s]).type = "SONGFAILED" /\ HandleSongFailed(Head(down[s]).item)
    PROVE  QInv'
  <1> DEFINE item == Head(down[s]).item
  <1>1. /\ UNCHANGED <<account, playlist, uploading, webSocket, initialized, state, session, acts>>
        /\ account = "in" /\ Head(down[s]) \in Report(made)
    BY MessageComes DEF SongStarted, HandleSongFailed
  <1>2. item \in 1..made
    BY <1>1 DEF Report
  <1>3. ~TakesAway(Head(down[s]))
    BY DEF TakesAway, Note
  <1>4. CASE Known(item)
    <2>1. \/ RemoveQueueItem(item, shown' = item)
          \/ RemoveQueueItem(item, UNCHANGED shown)
      BY <1>4 DEF SongStarted, HandleSongFailed
    <2>2. /\ shown' = item \/ shown' = shown
          /\ \/ /\ item \in Items(queues.order)
                /\ removing' = removing \cup {item}
                /\ UNCHANGED <<queues, made, up>>
             \/ /\ item \notin Items(queues.order)
                /\ LET q == Removed(queues, item)
                   IN  /\ Changes(<<q>> \o Maintained(q))
                       /\ made' = made + Len(Maintained(q))
                /\ UNCHANGED removing
      BY <2>1 DEF RemoveQueueItem
    <2>3. \E messages : Event(messages)
      BY <1>1, <1>2, <2>2, RemoveEvent
    <2> QED BY <1>1, <1>3, <2>3, NoteQInv
  <1>5. CASE ~Known(item)
    <2>1. UNCHANGED <<queues, removing, made, up, shown>>
      BY <1>5 DEF SongStarted, HandleSongFailed
    <2>2. Sends(<<>>)
      BY <2>1, NothingSends
    <2>3. <<>> \in Seq(Request(made)) /\ \A k \in DOMAIN <<>> : <<>>[k].type # "UPDATEQUEUE"
      BY EmptySeq
    <2>4. Event(<<>>)
      BY <1>1, <2>1, <2>2, <2>3, PlainEvent DEF QInv, Data
    <2> QED BY <1>1, <1>3, <2>4, NoteQInv
  <1> QED BY <1>4, <1>5

LEMMA GoneQInv ==
    ASSUME QInv, NEW s \in Sockets, WebSocketOnMessage(s), HandleFileserverDisconnected \/ OnReset
    PROVE  QInv'
  <1>1. /\ UNCHANGED <<account, playlist, uploading, webSocket, state, session, acts,
                       queues, removing, made, up>>
        /\ initialized' = FALSE /\ shown' = None
    BY MessageComes DEF HandleFileserverDisconnected, OnReset
  <1>2. Sends(<<>>)
    BY <1>1, NothingSends
  <1>3. <<>> \in Seq(Request(made)) /\ \A k \in DOMAIN <<>> : <<>>[k].type # "UPDATEQUEUE"
    BY EmptySeq
  <1>4. Event(<<>>)
    BY <1>1, <1>2, <1>3, PlainEvent DEF QInv, Data
  <1> QED BY <1>1, <1>4, NoteQInv

\* When the strip appears it sends the queues.
LEMMA InitializedQInv ==
    ASSUME QInv, NEW s \in Sockets, WebSocketOnMessage(s),
           Head(down[s]).type = "INITIALIZE", Initialized(Head(down[s]).item)
    PROVE  QInv'
  <1> DEFINE success == Head(down[s]).item
  <1>1. /\ UNCHANGED <<account, playlist, uploading, webSocket, state, session, acts,
                       queues, removing, made, shown>>
        /\ Head(down[s]) \in Report(made) /\ initialized' = success
        /\ Send(IF success /\ ~initialized THEN <<UpdateQueue(queues)>> ELSE <<>>)
    BY MessageComes DEF Initialized
  <1>2. Head(down[s]) = Note("INITIALIZE", success) /\ success \in BOOLEAN
    BY <1>1 DEF Report, Note
  <1> HIDE DEF success
  <1>3. success => Head(down[s]) = Note("INITIALIZE", TRUE)
    BY <1>2
  <1>4. made \in Nat /\ Distinct(queues, made) /\ Follows(queues, made, queues, made)
    BY LaterQueues DEF QInv, Data
  <1>5. \E messages : Event(messages)
    <2>1. CASE success /\ ~initialized
      <3>1. Sends(<<UpdateQueue(queues)>>)
        BY <1>1, <2>1, SendSends
      <3>2. UpdateQueue(queues) \in Request(made)
        BY <1>4, UpdateIsRequest DEF Distinct
      <3>3. LET messages == <<UpdateQueue(queues)>>
            IN  /\ messages \in Seq(Request(made)) /\ messages # <<>>
                /\ messages[Len(messages)] = UpdateQueue(queues)
        BY <3>2, Single
      <3>4. CurrentIsNotQueued'
        BY <1>1 DEF QInv, CurrentIsNotQueued
      <3>5. Event(<<UpdateQueue(queues)>>)
        BY <1>1, <1>2, <1>4, <3>1, <3>3, <3>4 DEF Event, QInv, Data, Outside
      <3> QED BY <3>5
    <2>2. CASE ~(success /\ ~initialized)
      <3>1. Sends(<<>>)
        BY <1>1, <2>2, SendSends
      <3>2. <<>> \in Seq(Request(made)) /\ \A k \in DOMAIN <<>> : <<>>[k].type # "UPDATEQUEUE"
        BY EmptySeq
      <3>3. initialized' \in BOOLEAN /\ (initialized' => initialized)
        BY <1>1, <1>2, <2>2 DEF QInv, Data
      <3>4. Event(<<>>)
        BY <1>1, <3>1, <3>2, <3>3, PlainEvent DEF QInv, Data
      <3> QED BY <3>4
    <2> QED BY <2>1, <2>2
  <1> QED BY <1>1, <1>3, <1>5, NoteQInv

LEMMA MessageQInv ==
    ASSUME QInv, NEW s \in Sockets, WebSocketOnMessage(s)
    PROVE  QInv'
  BY RequestPlaylistQInv, SongQInv, GoneQInv, InitializedQInv DEF WebSocketOnMessage

LEMMA NextQInv == QInv /\ [Next]_vars => QInv'
  <1> SUFFICES ASSUME QInv, [Next]_vars
               PROVE  QInv'
    OBVIOUS
  <1>1. CASE UNCHANGED vars
    <2>1. IInv'
      BY <1>1, NextIInv DEF QInv
    <2>2. Data' /\ Outside' /\ Wires' /\ Served' /\ Synchronous' /\ CurrentIsNotQueued'
      BY <1>1 DEF vars, store, player, wire, QInv, Data, Outside, Wires, Served, Synchronous,
                  Current, CurrentIsNotQueued
    <2> QED BY <2>1, <2>2 DEF QInv
  <1>2. CASE User
    BY <1>2, ConnectQInv, DisconnectQInv, PressQInv, StopQInv, AddItemQInv, RemoveItemQInv,
       RemovePlaylistQInv, LogOutQInv, LogInQInv DEF User
  <1>3. CASE PlaylistChanged \/ LoggedOut \/ ChildAdded \/ ChildRemoved
    BY <1>3, PlaylistChangedQInv, LoggedOutQInv, ChildAddedQInv, ChildRemovedQInv
  <1>4. ASSUME NEW s \in Sockets,
               OnOpen(s) \/ OnClose(s) \/ HandleRequest(s) \/ SongEnds(s) \/ WebSocketOnMessage(s)
        PROVE  QInv'
    BY <1>4, OnOpenQInv, OnCloseQInv, HandleRequestQInv, SongEndsQInv, MessageQInv
  <1> QED BY <1>1, <1>2, <1>3, <1>4 DEF Next

LEMMA QueueInvariant == Spec => []QInv
  BY InitQInv, NextQInv, PTL DEF Spec
-------------------------------------------------------------------------------
\* Types; and only items that are in the copy of firebase's list are being
\* removed from it (playbackActions.js, playbackReducer.js).
THEOREM AlwaysTyped == Spec => []TypeOK
  <1>1. QInv => TypeOK
    <2> SUFFICES ASSUME QInv
                 PROVE  TypeOK
      OBVIOUS
    <2>1. \A place \in DOMAIN NoQueues : Items(queues[place]) \subseteq 1..made
      BY ItemsIn DEF QInv, Data, Distinct, QueuesOf, NoQueues
    <2>2. \A s \in Sockets :
             /\ session[s].song \in {"none", "open", "ended"}
             /\ Items(session[s].queue) \subseteq 1..made
      BY ItemsIn DEF QInv, Wires, Session
    <2>3. connected \in BOOLEAN /\ uploading \in BOOLEAN /\ initialized \in BOOLEAN
      BY DEF QInv, IInv, Shape, Data
    <2>4. {uploading, connected, initialized} \subseteq BOOLEAN
      BY <2>3
    <2> QED BY <2>1, <2>2, <2>4 DEF QInv, IInv, Shape, Data, Outside, TypeOK
  <1> QED BY <1>1, QueueInvariant, PTL

\* When all messages have been handled an initialized player has its cache: the
\* strip is visible only after an answer to INITIALIZE that no RESET and no loss
\* of the file server has followed (playerActions.js, MusicPlayerAPI.cc).
THEOREM InitializedIsAlwaysServed == Spec => []InitializedIsServed
  <1>1. QInv => InitializedIsServed
    <2> SUFFICES ASSUME QInv, initialized, Quiet, ~session[webSocket].cache
                 PROVE  FALSE
      BY DEF InitializedIsServed
    <2>1. webSocket \in Sockets /\ Current(webSocket) /\ down[webSocket] = <<>>
      BY DEF QInv, IInv, Shape, Quiet, Current
    <2>2. Off(<<>>, initialized)
      BY <2>1 DEF QInv, Served
    <2> QED BY <2>2, EmptySeq DEF Off
  <1> QED BY <1>1, QueueInvariant, PTL

\* When all messages have been handled the player's queue is the end of what the
\* web app has queued, whatever either of them has sent, dropped or played
\* meanwhile (PlayerStrip/index.js 54-79, MusicPlayerAPI.cc UpdateQueue).
THEOREM PlayerAlwaysHasTheQueue == Spec => []PlayerHasTheQueue
  <1>1. QInv => PlayerHasTheQueue
    <2> SUFFICES ASSUME QInv, initialized, Quiet
                 PROVE  LET all    == All(queues)
                            theirs == session[webSocket].queue
                        IN  /\ Len(theirs) <= Len(all)
                            /\ theirs = SubSeq(all, Len(all) - Len(theirs) + 1, Len(all))
      BY DEF PlayerHasTheQueue
    <2> DEFINE all == All(queues)
               theirs == session[webSocket].queue
    <2>1. webSocket \in Sockets /\ Current(webSocket) /\ up[webSocket] = <<>>
      BY DEF QInv, IInv, Shape, Quiet, Current
    <2>2. Informed(<<>>, theirs, all)
      BY <2>1 DEF QInv, Synchronous
    <2>3. Suffix(theirs, all)
      BY <2>2, EmptySeq DEF Informed
    <2>4. all \in Seq(1..made) /\ theirs \in Seq(1..made)
      BY <2>1, AllOf DEF QInv, Data, Distinct, Wires, Session
    <2>5. Len(theirs) <= Len(all)
      BY <2>3 DEF Suffix
    <2> QED BY <2>3, <2>4, <2>5, SuffixIsSubSeq
  <1> QED BY <1>1, QueueInvariant, PTL

\* The song shown as current is in no queue, unless its removal from firebase is
\* on its way (playbackActions.js, playbackReducer.js): items are numbered once
\* and are in one place only.
THEOREM CurrentIsNeverQueued == Spec => []CurrentIsNotQueued
  <1>1. QInv => CurrentIsNotQueued
    BY DEF QInv
  <1> QED BY <1>1, QueueInvariant, PTL
===============================================================================
