------------------------------ MODULE MCLibraryDb ------------------------------
(* LibraryDb for TLC: two files of different artists and a few requests. *)
EXTENDS LibraryDb, TLC

CONSTANTS ui, w, p1, p2

MCTags ==
    p1 :> ("artist" :> "a" @@ "album" :> "x" @@ "genre" :> "")
    @@ p2 :> ("artist" :> "b" @@ "album" :> "" @@ "genre" :> "g")

MCRemoveLists == {<<1>>, <<1, NotANumber>>}

MCEntryChanges == {[add |-> {1}, remove |-> {}], [add |-> {2}, remove |-> {1}]}
===============================================================================
