---------------------------- MODULE MC_LspServer ----------------------------
(***************************************************************************)
(* An instance of LspServer for TLC.  One request is spent on 'initialize': *)
(* the rest meet the queue, the worker and $/cancelRequest.  Two requests   *)
(* have the same id.                                                        *)
(***************************************************************************)
EXTENDS LspServer, TLC

CONSTANTS r1, r2, r3, i1, i2

ThreeReqs == {r1, r2, r3}
SharedIds == (r1 :> i1) @@ (r2 :> i1) @@ (r3 :> i2)
=============================================================================
