------------------------- MODULE MC_LspDiagnostics -------------------------
(***************************************************************************)
(* Two modules of one file each.  The text "imports" imports "a", which is   *)
(* the other module; it declares                                            *)
(* nothing, so importing a module with that text is an error.  "bad" has an *)
(* error of its own, "clean" has none.                                      *)
(***************************************************************************)
EXTENDS LspDiagnostics, TLC

CONSTANTS f1, f2

MCDirOf == (f1 :> 1) @@ (f2 :> 2)
MCImports == [t \in Texts |-> IF t = "imports" THEN {"a"} ELSE {}]
Pair == (1 :> ("a" :> 2)) @@ (2 :> ("a" :> 1))
Siblings == [d \in Dirs |-> {d}]
NoRoots == <<>>
=============================================================================
