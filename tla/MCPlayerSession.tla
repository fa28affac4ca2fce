---------------------------- MODULE MCPlayerSession ----------------------------
(***************************************************************************)
(* Instances of PlayerSession for TLC.                                     *)
(***************************************************************************)
EXTENDS PlayerSession, TLC

\* Every queue of at most three entries, with repeated entries.
QueuesUpTo3 == UNION {[1..k -> Item] : k \in 0..3}

Symmetry == Permutations(Item)
===============================================================================
