------------------------------ MODULE MCSongCache ------------------------------
(***************************************************************************)
(* Instances of SongCache for TLC.                                         *)
(***************************************************************************)
EXTENDS SongCache, TLC

\* Every queue of at most n entries, with repeated entries.
QueuesUpTo(n) == UNION {[1..k -> Item] : k \in 0..n}

\* Every queue of at most n entries without repeated entries.
DistinctQueuesUpTo(n) == {q \in QueuesUpTo(n) : \A j, k \in DOMAIN q : q[j] = q[k] => j = k}

QueuesUpTo2 == QueuesUpTo(2)

\* Entries may be repeated, and a queue may be longer than the cache.
ShortAndLongQueues == QueuesUpTo(2) \cup DistinctQueuesUpTo(3)
DistinctQueuesUpTo3 == DistinctQueuesUpTo(3)

Symmetry == Permutations(Item)
===============================================================================
