-------------------------- MODULE MC_DocumentStore --------------------------
(***************************************************************************)
(* Three directories with one file each and two texts, "plain" and         *)
(* "importing", which imports "a" (from 1 the directory 2, from 2 the        *)
(* directory 3, from 3 back to 1).  With a capacity of two the LRU eviction  *)
(* happens.                                                                  *)
(***************************************************************************)
EXTENDS DocumentStore, TLC

CONSTANTS f1, f2, f3

MCDirOf == (f1 :> 1) @@ (f2 :> 2) @@ (f3 :> 3)
MCImports == ("plain" :> {}) @@ ("importing" :> {"a"})
Ring == (1 :> ("a" :> 2)) @@ (2 :> ("a" :> 3)) @@ (3 :> ("a" :> 1))
Siblings == [d \in Dirs |-> {d}]
NoRoots == <<>>
=============================================================================
