---------------------------- MODULE LspContract ----------------------------
(***************************************************************************)
(* What a client of mirage-lsp may rely on, with no threads, queue, flags   *)
(* or bookkeeping: every request gets at most one reply, a result is        *)
(* computed on exactly the buffer updates the client had sent before the    *)
(* request, and RequestCancelled is only said of a request the client asked *)
(* to cancel while it waited.  LspServer implements it.                     *)
(***************************************************************************)
EXTENDS Integers

CONSTANTS
    Reqs,      \* the requests the client may send
    Refusals   \* the codes given on receipt, without looking at a buffer

VARIABLES
    updates,   \* buffer updates received
    seen,      \* updates received before a request, -1 until it is received
    cancels,   \* requests the client asked to cancel while they waited
    reply      \* what was sent back: a code, and the updates it was computed on

contractVars == <<updates, seen, cancels, reply>>

\* -1: not computed on the buffers at all
Reply(c, n) == <<[code |-> c, on |-> n]>>

Waiting(r) == seen[r] # -1 /\ reply[r] = <<>>

Init ==
    /\ updates = 0 /\ cancels = {}
    /\ seen = [r \in Reqs |-> -1]
    /\ reply = [r \in Reqs |-> <<>>]

Update ==
    /\ updates' = updates + 1
    /\ UNCHANGED <<seen, cancels, reply>>

Receive(r) ==
    /\ seen[r] = -1
    /\ seen' = [seen EXCEPT ![r] = updates]
    /\ UNCHANGED <<updates, cancels>>

Accept(r) == Receive(r) /\ UNCHANGED reply

Refuse(r) ==
    /\ Receive(r)
    /\ \E c \in Refusals : reply' = [reply EXCEPT ![r] = Reply(c, -1)]

\* one cancel may name several waiting requests when ids are reused
Cancel ==
    /\ \E R \in SUBSET {r \in Reqs : Waiting(r)} : cancels' = cancels \cup R
    /\ UNCHANGED <<updates, seen, reply>>

\* the result, a failure of the analysis, or the cancellation that was asked for
Finish(r) ==
    /\ Waiting(r)
    /\ \E a \in {Reply("ok", seen[r]), Reply("internal_error", -1)}
                  \cup (IF r \in cancels THEN {Reply("cancelled", -1)} ELSE {}) :
         reply' = [reply EXCEPT ![r] = a]
    /\ UNCHANGED <<updates, seen, cancels>>

Next ==
    \/ Update \/ Cancel
    \/ \E r \in Reqs : Accept(r) \/ Refuse(r) \/ Finish(r)

Spec == Init /\ [][Next]_contractVars
=============================================================================
