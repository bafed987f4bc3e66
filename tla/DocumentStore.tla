--------------------------- MODULE DocumentStore ---------------------------
(***************************************************************************)
(* lsp::analysis::DocumentStore (src/src/lsp/analysis.cpp): the editor's     *)
(* open buffers and the cache of analyses.  A bundle is keyed by its root   *)
(* directory and covers that directory's import closure; bundle_of_dir maps *)
(* a directory to the bundles covering it.                                  *)
(*                                                                         *)
(* The object is one record, so that an operation is an operator from store *)
(* to store and close, for instance, composes three of them as the code     *)
(* does.  A text is known by the names it imports, whether it is bad and    *)
(* whether it declares what its importers use; a bundle remembers the texts  *)
(* it was computed from.                                                     *)
(***************************************************************************)
EXTENDS ModuleSearch

CONSTANTS
    Files, DirOf,     \* the '.mir' files and their directories
    Texts, NoText,    \* file contents; NoText: no such file, or no buffer
    Imports,          \* the names a text imports
    Bad,              \* the texts that report an error of their own
    Provides,         \* the texts that declare what an importer of their module uses
    MaxCached,        \* MAX_CACHED_MODULES
    NoBundle,
    Absent            \* the directories that may come into being later

ASSUME FilesAssumption ==
    /\ DirOf \in [Files -> Dirs] /\ NoText \notin Texts
    /\ Imports \in [Texts -> SUBSET Names] /\ Bad \subseteq Texts /\ Provides \subseteq Texts
    /\ MaxCached \in Nat \ {0} /\ Absent \subseteq Dirs

VARIABLES
    disk,        \* the text of each file on disk
    exists,      \* the directories on disk
    unnotified,  \* files changed on disk since the client last said so
    store        \* the DocumentStore

Bundles == [modules : SUBSET Dirs, diagnostics : SUBSET Files, texts : [Files -> Texts \cup {NoText}]]
ASSUME NoBundleAssumption == NoBundle \notin Bundles

Stores ==
    [open_texts : [Files -> Texts \cup {NoText}],
     module_results : [Dirs -> Bundles \cup {NoBundle}],
     bundle_of_dir : [Dirs -> SUBSET Dirs],
     older : SUBSET (Dirs \X Dirs)]   \* pairs of cached keys by last_access

TypeOK ==
    /\ disk \in [Files -> Texts \cup {NoText}]
    /\ exists \subseteq Dirs
    /\ unnotified \subseteq Files
    /\ store \in Stores

EmptyStore ==
    [open_texts |-> [f \in Files |-> NoText],
     module_results |-> [d \in Dirs |-> NoBundle],
     bundle_of_dir |-> [d \in Dirs |-> {}],
     older |-> {}]

-----------------------------------------------------------------------------
(* analyse *)

\* The text an analysis reads: the directory listing comes from disk, an open buffer
\* takes the place of the file's contents.
Seen(open_texts, f) ==
    IF disk[f] = NoText THEN NoText
    ELSE IF open_texts[f] = NoText THEN disk[f] ELSE open_texts[f]

ImportsOf(open_texts, d) ==
    UNION {Imports[Seen(open_texts, f)] : f \in {g \in Files : DirOf[g] = d /\ Seen(open_texts, g) # NoText}}

\* Does module d, NoDir if the import was not found, declare what importers use?
Declared(texts, d) == \E g \in Files : DirOf[g] = d /\ texts[g] \in Provides

\* lex, parse, resolve and check the closure of a root directory
analyse(root, open_texts) ==
    LET modules == IF root \in exists
                   THEN Closure(exists, [d \in Dirs |-> ImportsOf(open_texts, d)], {root}, root)
                   ELSE {}
        texts == [f \in Files |-> IF DirOf[f] \in modules THEN Seen(open_texts, f) ELSE NoText]
    IN [modules |-> modules,
        diagnostics |-> {f \in Files : /\ texts[f] # NoText
                                       /\ \/ texts[f] \in Bad
                                          \/ \E n \in Imports[texts[f]] :
                                               ~Declared(texts, resolve_import_path(exists, DirOf[f], n, root))},
        texts |-> texts]

-----------------------------------------------------------------------------
(* The private operations, on a store s. *)

Cached(s) == {k \in Dirs : s.module_results[k] # NoBundle}

\* the bundles whose index entry for directory d unindex_bundle removes
MutUnindexed(s, ks, d) == {k \in ks : k = d}
Unindexed(s, ks, d) == {k \in ks : d \in s.module_results[k].modules}

Erased(b) == NoBundle

\* unindex_bundle and erase, for every key in ks
Drop(s, ks) ==
    [s EXCEPT !.module_results = [k \in Dirs |-> IF k \in ks THEN Erased(@[k]) ELSE @[k]],
              !.bundle_of_dir = [d \in Dirs |-> @[d] \ Unindexed(s, ks \cap Cached(s), d)],
              !.older = {p \in @ : p[1] \notin ks /\ p[2] \notin ks}]

MutInvalidate(s, f) == Drop(s, s.bundle_of_dir[DirOf[f]] \cap {DirOf[f]})
\* every bundle covering the file's directory goes
invalidate(s, f) == Drop(s, s.bundle_of_dir[DirOf[f]])

\* bundles no open file's directory is in
evict_unreferenced_bundles(s) ==
    LET open_dirs == {DirOf[f] : f \in {g \in Files : s.open_texts[g] # NoText}}
    IN Drop(s, {k \in Cached(s) : s.module_results[k].modules \cap open_dirs = {}})

OverCapacity(s) == Cardinality(Cached(s)) > MaxCached

evict_lru_if_over_capacity(s) ==
    LET oldest == CHOOSE k \in Cached(s) : \A j \in Cached(s) : <<j, k>> \notin s.older
    IN IF OverCapacity(s) THEN Drop(s, {oldest}) ELSE s

MutTouch(s, k) == [s EXCEPT !.older = @ \cup ({k} \X (Cached(s) \ {k}))]
\* last_access = ++access_clock_
Touch(s, k) ==
    [s EXCEPT !.older = {p \in @ : p[1] # k} \cup ((Cached(s) \ {k}) \X {k})]

\* module_results_.insert_or_assign, then index_bundle
Insert(s, k, bundle) ==
    [s EXCEPT !.module_results[k] = bundle,
              !.bundle_of_dir = [d \in Dirs |-> IF d \in bundle.modules THEN @[d] \cup {k} ELSE @[d]]]

-----------------------------------------------------------------------------
(* The public operations. *)

SetText(s, f, t) == [s EXCEPT !.open_texts[f] = t]

\* open and update are the same code
open(s, f, t) == invalidate(SetText(s, f, t), f)

close(s, f) == evict_unreferenced_bundles(invalidate(SetText(s, f, NoText), f))

MutInvalidateExternal(s, f) == IF s.open_texts[f] = NoText THEN s ELSE invalidate(s, f)
invalidate_external(s, f) == invalidate(s, f)

\* the bundle ensure_analysed returns: the first key in the index entry, or the
\* directory's own
KeyFor(s, f) ==
    LET covering == s.bundle_of_dir[DirOf[f]]
    IN IF covering = {} THEN DirOf[f] ELSE CHOOSE k \in covering : \A j \in covering : k <= j

ensure_analysed(s, f) ==
    LET k == KeyFor(s, f)
    IN IF s.bundle_of_dir[DirOf[f]] # {} THEN Touch(s, k)
       ELSE evict_lru_if_over_capacity(Insert(Touch(Drop(s, {k}), k), k, analyse(k, s.open_texts)))

-----------------------------------------------------------------------------
Init ==
    /\ disk \in [Files -> Texts \cup {NoText}]
    /\ exists = Dirs \ Absent
    /\ \A f \in Files : DirOf[f] \in Absent => disk[f] = NoText
    /\ unnotified = {}
    /\ store = EmptyStore

env == <<disk, exists, unnotified>>
vars == <<env, store>>

Open(f, t) == store' = open(store, f, t) /\ UNCHANGED env
Close(f) == store.open_texts[f] # NoText /\ store' = close(store, f) /\ UNCHANGED env
Ensure(f) == store' = ensure_analysed(store, f) /\ UNCHANGED env

\* the client reports a changed file
Watched(f) ==
    /\ store' = invalidate_external(store, f)
    /\ unnotified' = unnotified \ {f}
    /\ UNCHANGED <<disk, exists>>

\* a file is created, changed or removed outside the editor; its directory may be new
DiskChange(f, t) ==
    /\ disk[f] # t
    /\ disk' = [disk EXCEPT ![f] = t]
    /\ exists' = IF t = NoText THEN exists ELSE exists \cup {DirOf[f]}
    /\ unnotified' = unnotified \cup {f}
    /\ UNCHANGED store

Next ==
    \E f \in Files :
        \/ Close(f) \/ Ensure(f) \/ Watched(f)
        \/ \E t \in Texts : Open(f, t)
        \/ \E t \in Texts \cup {NoText} : DiskChange(f, t)

Spec == Init /\ [][Next]_vars

-----------------------------------------------------------------------------
(* Properties. *)

\* bundle_of_dir_ is exactly the inverse of the cached closures: "Every erase from
\* module_results_ must be paired with unindex_bundle, or a stale directory keeps
\* resolving to a bundle that no longer exists" (analysis.hpp).  The .at() in
\* ensure_analysed cannot miss.
IndexExact ==
    \A d \in Dirs : store.bundle_of_dir[d] =
        {k \in Cached(store) : d \in store.module_results[k].modules}

\* A cached analysis was computed from what its files say now, for every file whose
\* disk changes have been reported: no open, update, close or external change leaves
\* a bundle behind that covers the file.
BundlesFresh ==
    \A k \in Cached(store), f \in Files :
        DirOf[f] \in store.module_results[k].modules /\ f \notin unnotified =>
            store.module_results[k].texts[f] = Seen(store.open_texts, f)

\* The reference ensure_analysed returns points at a bundle that is still cached: the
\* LRU eviction after the insert never takes the bundle just analysed, and a covering
\* bundle covers the file's directory unless that directory is gone.
ReturnedBundleSurvives ==
    \A f \in Files :
        LET k == KeyFor(store, f)
            s == ensure_analysed(store, f)
        IN /\ k \in Cached(s)
           /\ DirOf[f] \in exists => DirOf[f] \in s.module_results[k].modules

\* When every disk change has been reported, each bundle that can be served from the
\* cache is what analysing its root again would give, closure and diagnostics included:
\* dropping the bundles that cover a changed file's directory is "exactly the
\* granularity a dependency change needs" (analysis.cpp:137).
BundlesCurrent ==
    unnotified = {} =>
        \A d \in Dirs : \A k \in store.bundle_of_dir[d] :
            store.module_results[k] = analyse(k, store.open_texts)
=============================================================================
