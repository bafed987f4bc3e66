--------------------------- MODULE LspDiagnostics ---------------------------
(***************************************************************************)
(* What the editor shows: the diagnostics half of the worker                *)
(* (src/src/lsp/server.cpp, class Worker and the buffer notifications of    *)
(* Server::run) on top of DocumentStore.  Tasks run one at a time on the    *)
(* worker, in arrival order, so a notification and its task are one step;   *)
(* disk changes and the debounce deadlines come between tasks.              *)
(* 'shown' is the client's state: the files it displays errors for.         *)
(***************************************************************************)
EXTENDS DocumentStore, Functions

CONSTANTS Openable,  \* the files the user opens
          Closable,  \* the files the user closes
          Edited     \* the files that change on disk

ASSUME UserAssumption ==
    /\ Openable \subseteq Files /\ Closable \subseteq Files /\ Edited \subseteq Files
    /\ IsFiniteSet(Files)

VARIABLES
    tracked,   \* last_published_nonempty_diag_files_
    pending,   \* the keys of pending_diag_deadlines_
    shown      \* the files whose last publishDiagnostics was not empty

diagVars == <<env, store, tracked, pending, shown>>

DiagInit == Init /\ tracked = {} /\ pending = {} /\ shown = {}

IsOpen(f) == store.open_texts[f] # NoText
open_paths(s) == {f \in Files : s.open_texts[f] # NoText}

-----------------------------------------------------------------------------
(* Publishing. *)

MutBecameClean(nonempty, closure_dirs) == {g \in tracked : g \notin nonempty}
\* the tracked files of this closure that have no error any more
became_clean(nonempty, closure_dirs) ==
    {g \in tracked : DirOf[g] \in closure_dirs /\ g \notin nonempty}

MutPublished(f, result, clean) == (shown \ clean) \cup result.diagnostics
\* every file of the round is sent what the round found, 'f' itself even if nothing
Published(f, result, clean) == (shown \ (clean \cup {f})) \cup result.diagnostics

\* do_publish_diagnostics and files_that_became_clean, from store s
do_publish_diagnostics(s, f) ==
    LET s1 == ensure_analysed(s, f)
        result == s1.module_results[KeyFor(s, f)]
        clean == became_clean(result.diagnostics, result.modules)
    IN /\ store' = s1
       /\ tracked' = (tracked \ clean) \cup result.diagnostics
       /\ shown' = Published(f, result, clean)

\* closure_diagnostics_for: analyse the open documents in some order, up to the first
\* whose closure reports an error for f
closure_diagnostics_for(s, f, order) ==
    LET after[i \in 0 .. Len(order)] ==
          IF i = 0 THEN s ELSE ensure_analysed(after[i - 1], order[i])
        found(i) == f \in after[i].module_results[KeyFor(after[i - 1], order[i])].diagnostics
        hits == {i \in 1 .. Len(order) : found(i)}
    IN IF hits = {} THEN [store |-> after[Len(order)], nonempty |-> FALSE]
       ELSE [store |-> after[CHOOSE i \in hits : \A j \in hits : i <= j], nonempty |-> TRUE]

\* prune_stale_diag_tracking
pruned(s) ==
    {g \in tracked : s.bundle_of_dir[DirOf[g]] # {} \/ \E f \in open_paths(s) : DirOf[f] = DirOf[g]}

-----------------------------------------------------------------------------
(* The tasks. *)

DidOpen(f, t) ==
    /\ f \in Openable /\ ~IsOpen(f)
    /\ pending' = pending \ {f}
    /\ do_publish_diagnostics(open(store, f, t), f)
    /\ UNCHANGED env

MutSchedule(fs) == pending' = pending
\* schedule_diagnostics
Schedule(fs) == pending' = pending \cup fs

DidChange(f, t) ==
    /\ IsOpen(f) /\ store.open_texts[f] # t
    /\ store' = open(store, f, t)
    /\ Schedule({f})
    /\ UNCHANGED <<env, tracked, shown>>

DidClose(f) ==
    /\ f \in Closable /\ IsOpen(f)
    /\ LET s == close(store, f)
       IN \E order \in Bijection(1 .. Cardinality(open_paths(s)), open_paths(s)) :
            LET r == closure_diagnostics_for(s, f, order)
            IN /\ store' = r.store
               /\ shown' = IF r.nonempty THEN shown \cup {f} ELSE shown \ {f}
               /\ tracked' = pruned(r.store)
    /\ UNCHANGED <<env, pending>>

MutRepublished == {}
\* every open document is looked at again after an external change
Republished == open_paths(store)

DidChangeWatchedFiles(f) ==
    /\ f \in unnotified
    /\ unnotified' = unnotified \ {f}
    /\ store' = invalidate_external(store, f)
    /\ Schedule(Republished)
    /\ UNCHANGED <<disk, exists, tracked, shown>>

\* sweep_due_diagnostics, for one path whose deadline has passed
SweepDue(f) ==
    /\ f \in pending
    /\ pending' = pending \ {f}
    /\ do_publish_diagnostics(store, f)
    /\ UNCHANGED env

\* hover, definition, completion, references, inlayHint
Request(f) ==
    /\ store' = ensure_analysed(store, f)
    /\ UNCHANGED <<env, tracked, pending, shown>>

EditOnDisk(f, t) ==
    /\ f \in Edited
    /\ DiskChange(f, t)
    /\ UNCHANGED <<tracked, pending, shown>>

DiagNext ==
    \E f \in Files :
        \/ DidClose(f) \/ DidChangeWatchedFiles(f) \/ SweepDue(f) \/ Request(f)
        \/ \E t \in Texts : DidOpen(f, t) \/ DidChange(f, t)
        \/ \E t \in Texts \cup {NoText} : EditOnDisk(f, t)

DiagSpec == DiagInit /\ [][DiagNext]_diagVars

\* The worker polls, so a passed deadline is swept; the client reports disk changes.
DiagFairSpec ==
    DiagSpec /\ \A f \in Files : WF_diagVars(SweepDue(f)) /\ WF_diagVars(DidChangeWatchedFiles(f))

-----------------------------------------------------------------------------
(* Properties. *)

\* The files the import closure of one document covers.
CoveredBy(f) == {g \in Files : DirOf[g] \in analyse(DirOf[f], store.open_texts).modules}

\* Does f have errors, by an analysis of its own directory?
HasErrors(f) == f \in analyse(DirOf[f], store.open_texts).diagnostics

Accurate(f) == f \in shown <=> HasErrors(f)

\* When the only open document is the edited one and all else changes on disk, a
\* document not waiting for its debounce shows errors exactly if it has some, its own
\* or by what it imports, whatever was cached, evicted or reported in between.
OpenDocumentsAccurate == unnotified = {} => \A f \in open_paths(store) \ pending : Accurate(f)

\* A round for f leaves f showing exactly whether it has errors, and shows every file
\* of f's closure that has some: it never works from a stale bundle.
RoundsAreAccurate ==
    [][\A f \in Files :
         unnotified = {} /\ (SweepDue(f) \/ \E t \in Texts : DidOpen(f, t)) =>
             Accurate(f)' /\ (\A g \in CoveredBy(f) : HasErrors(g) => g \in shown)']_diagVars

\* Only the truth is published: whatever two open documents import of each other, a
\* file's squiggles appear only when it has errors and go only when it has none, or
\* when it is closed.
OnlyTruthPublished ==
    [][unnotified = {} =>
        \A f \in Files : (f \in shown <=> f \in shown') \/ Accurate(f)' \/ (IsOpen(f) /\ ~IsOpen(f)')]_diagVars

\* The steps of the user and of the world outside the editor.
Disturb ==
    \E f \in Files : \/ DidClose(f)
                     \/ \E t \in Texts \cup {NoText} : DidOpen(f, t) \/ DidChange(f, t) \/ EditOnDisk(f, t)

\* Unless the user keeps editing forever, every open document comes to show exactly
\* whether it has errors and stays so: no debounce and no report is lost.
EventuallyAccurate ==
    []<><<Disturb>>_diagVars \/ <>[](\A f \in open_paths(store) : Accurate(f))
=============================================================================
