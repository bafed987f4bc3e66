------------------------- MODULE MC_ModuleResolver -------------------------
(***************************************************************************)
(* Three directories.  From 1, "a" is the sub-module 2; from 2, "a" leads    *)
(* back up to 1; "b" is found only under the fixed root 3; "a" from 3 is     *)
(* found under the root module 1, and not under the root module 2, which it  *)
(* leads out of.  So cycles, self-imports and every search root occur.       *)
(***************************************************************************)
EXTENDS ModuleResolver, TLC

MCJoin == (1 :> ("a" :> 2 @@ "b" :> NoDir)) @@ (2 :> ("a" :> 1 @@ "b" :> NoDir))
          @@ (3 :> ("a" :> NoDir @@ "b" :> 3))
MCWithin == (1 :> {1, 2}) @@ (2 :> {2}) @@ (3 :> {3})
MCRoots == <<3>>
=============================================================================
