------------------------ MODULE DocumentStoreProofs ------------------------
(***************************************************************************)
(* DocumentStore's reverse index, the freshness of its bundles, what         *)
(* ensure_analysed returns and when a bundle is what a new analysis gives,   *)
(* for any files, directories, imports and capacity.                         *)
(*                                                                         *)
(* The store's operations are operators from store to store, so each is     *)
(* shown to keep a property of stores; an action is one or two of them.     *)
(***************************************************************************)
EXTENDS DocumentStore, FiniteSetTheorems, WellFoundedInduction, TLAPS

\* IndexExact, of any store.
Exact(s) ==
    \A d \in Dirs : s.bundle_of_dir[d] = {k \in Cached(s) : d \in s.module_results[k].modules}

Good(s) == s \in Stores /\ Exact(s)

\* Every bundle of s covering a file outside 'skip' has read what the file says now.
FreshBut(s, skip) ==
    \A k \in Cached(s), f \in Files :
        DirOf[f] \in s.module_results[k].modules /\ f \notin skip =>
            s.module_results[k].texts[f] = Seen(s.open_texts, f)

-----------------------------------------------------------------------------
(* The private operations. *)

\* A cached entry is a bundle.
LEMMA CachedIsBundle ==
  ASSUME NEW s \in Stores, NEW k \in Cached(s)
  PROVE  k \in Dirs /\ s.module_results[k] \in Bundles
  BY DEF Cached, Stores

\* What is left of store s, as store t, after the bundles ks are dropped.
Dropped(s, ks, t) ==
    /\ t \in Stores /\ t.open_texts = s.open_texts
    /\ Cached(t) = Cached(s) \ ks
    /\ \A k \in Cached(s) \ ks : t.module_results[k] = s.module_results[k]
    /\ \A d \in Dirs : t.bundle_of_dir[d] = s.bundle_of_dir[d] \ Unindexed(s, ks \cap Cached(s), d)

\* Dropping bundles, whichever they are, removes exactly them and leaves the buffers.
LEMMA DropEffect ==
  ASSUME NEW s \in Stores, NEW ks
  PROVE  Dropped(s, ks, Drop(s, ks))
<1> DEFINE mr == [k \in Dirs |-> IF k \in ks THEN NoBundle ELSE s.module_results[k]]
           bd == [d \in Dirs |-> s.bundle_of_dir[d] \ Unindexed(s, ks \cap Cached(s), d)]
           ol == {p \in s.older : p[1] \notin ks /\ p[2] \notin ks}
           t == [s EXCEPT !.module_results = mr, !.bundle_of_dir = bd, !.older = ol]
<1>1. Drop(s, ks) = t
  BY DEF Drop, Erased
<1>2. mr \in [Dirs -> Bundles \cup {NoBundle}] /\ bd \in [Dirs -> SUBSET Dirs] /\ ol \in SUBSET (Dirs \X Dirs)
  BY DEF Stores
<1>3. t \in Stores /\ t.open_texts = s.open_texts /\ t.module_results = mr /\ t.bundle_of_dir = bd
  <2> HIDE DEF mr, bd, ol
  <2> QED
    BY <1>2, Zenon DEF Stores
<1>4. Cached(t) = Cached(s) \ ks
  <2> HIDE DEF t
  <2> QED
    BY <1>3 DEF Cached
<1>5. \A k \in Cached(s) \ ks : t.module_results[k] = s.module_results[k]
  <2> HIDE DEF t
  <2> QED
    BY <1>3 DEF Cached
<1>6. \A d \in Dirs : t.bundle_of_dir[d] = s.bundle_of_dir[d] \ Unindexed(s, ks \cap Cached(s), d)
  <2> HIDE DEF t
  <2> QED
    BY <1>3
<1> HIDE DEF t
<1> QED
  BY <1>1, <1>3, <1>4, <1>5, <1>6 DEF Dropped

\* Every erase is paired with unindex_bundle, so the index stays exact.
LEMMA DropGood ==
  ASSUME NEW s, Good(s), NEW ks
  PROVE  Good(Drop(s, ks))
<1> DEFINE t == Drop(s, ks)
<1> HIDE DEF t
<1>1. s \in Stores
  BY DEF Good
<1>2. Dropped(s, ks, t)
  BY <1>1, DropEffect DEF t
<1>3. ASSUME NEW d \in Dirs
      PROVE  t.bundle_of_dir[d] = {k \in Cached(t) : d \in t.module_results[k].modules}
  <2>1. t.bundle_of_dir[d] = s.bundle_of_dir[d] \ Unindexed(s, ks \cap Cached(s), d)
    BY <1>2 DEF Dropped
  <2>2. s.bundle_of_dir[d] = {k \in Cached(s) : d \in s.module_results[k].modules}
    BY DEF Good, Exact
  <2>3. Cached(t) = Cached(s) \ ks /\ \A k \in Cached(t) : t.module_results[k] = s.module_results[k]
    BY <1>2 DEF Dropped
  <2> QED
    BY <2>1, <2>2, <2>3 DEF Unindexed
<1>4. Good(t)
  BY <1>2, <1>3 DEF Good, Exact, Dropped
<1> QED
  BY <1>4 DEF t

\* Dropping bundles leaves no bundle staler than it was.
LEMMA DropFresh ==
  ASSUME NEW s \in Stores, NEW ks, NEW skip, FreshBut(s, skip)
  PROVE  FreshBut(Drop(s, ks), skip)
<1> DEFINE t == Drop(s, ks)
<1> HIDE DEF t
<1>1. Dropped(s, ks, t)
  BY DropEffect DEF t
<1>2. FreshBut(t, skip)
  BY <1>1 DEF FreshBut, Dropped
<1> QED
  BY <1>2 DEF t

\* invalidate leaves no bundle that covers the file's directory.
LEMMA InvalidateEffect ==
  ASSUME NEW s, Good(s), NEW f \in Files
  PROVE  /\ Good(invalidate(s, f))
         /\ invalidate(s, f).open_texts = s.open_texts
         /\ \A k \in Cached(invalidate(s, f)) :
              /\ k \in Cached(s)
              /\ invalidate(s, f).module_results[k] = s.module_results[k]
              /\ DirOf[f] \notin s.module_results[k].modules
<1> DEFINE ks == s.bundle_of_dir[DirOf[f]]
           t == invalidate(s, f)
<1> HIDE DEF t
<1>1. DirOf[f] \in Dirs /\ s \in Stores
  BY FilesAssumption DEF Good
<1>2. ks = {k \in Cached(s) : DirOf[f] \in s.module_results[k].modules}
  BY <1>1 DEF Good, Exact
<1>3. Dropped(s, ks, t)
  BY <1>1, DropEffect DEF t, invalidate
<1>4. Good(t)
  BY DropGood DEF t, invalidate
<1>5. /\ t.open_texts = s.open_texts
      /\ \A k \in Cached(t) : /\ k \in Cached(s)
                              /\ t.module_results[k] = s.module_results[k]
                              /\ DirOf[f] \notin s.module_results[k].modules
  BY <1>2, <1>3 DEF Dropped
<1> QED
  BY <1>4, <1>5 DEF t

-----------------------------------------------------------------------------
(* Buffers. *)

\* Storing a buffer's text changes nothing else.
LEMMA SetTextEffect ==
  ASSUME NEW s, Good(s), NEW f \in Files, NEW t \in Texts \cup {NoText}
  PROVE  /\ Good(SetText(s, f, t))
         /\ Cached(SetText(s, f, t)) = Cached(s)
         /\ SetText(s, f, t).module_results = s.module_results
         /\ \A g \in Files \ {f} : SetText(s, f, t).open_texts[g] = s.open_texts[g]
<1> DEFINE u == SetText(s, f, t)
<1>1. /\ u.open_texts = [s.open_texts EXCEPT ![f] = t]
      /\ u.module_results = s.module_results /\ u.bundle_of_dir = s.bundle_of_dir
      /\ u.older = s.older
      /\ u = [open_texts |-> u.open_texts, module_results |-> u.module_results,
              bundle_of_dir |-> u.bundle_of_dir, older |-> u.older]
  BY DEF SetText, Good, Stores
<1>2. u \in Stores
  BY <1>1 DEF Good, Stores
<1>3. Cached(u) = Cached(s)
  BY <1>1 DEF Cached
<1>4. Exact(u)
  BY <1>1, <1>3 DEF Good, Exact
<1>5. \A g \in Files \ {f} : u.open_texts[g] = s.open_texts[g]
  BY <1>1 DEF Good, Stores
<1> QED
  BY <1>1, <1>2, <1>3, <1>4, <1>5 DEF Good

\* open and update store the text and drop every bundle that could have read it.
LEMMA OpenKeeps ==
  ASSUME NEW s, Good(s), NEW f \in Files, NEW t \in Texts \cup {NoText}, NEW skip, FreshBut(s, skip)
  PROVE  Good(open(s, f, t)) /\ FreshBut(open(s, f, t), skip)
<1> DEFINE u == SetText(s, f, t)
           v == invalidate(u, f)
<1>1. /\ Good(u) /\ Cached(u) = Cached(s) /\ u.module_results = s.module_results
      /\ \A g \in Files \ {f} : u.open_texts[g] = s.open_texts[g]
  BY SetTextEffect
<1>2. /\ Good(v) /\ v.open_texts = u.open_texts
      /\ \A k \in Cached(v) : /\ k \in Cached(u)
                              /\ v.module_results[k] = u.module_results[k]
                              /\ DirOf[f] \notin u.module_results[k].modules
  BY <1>1, InvalidateEffect
<1>3. ASSUME NEW k \in Cached(v), NEW g \in Files,
             DirOf[g] \in v.module_results[k].modules, g \notin skip
      PROVE  v.module_results[k].texts[g] = Seen(v.open_texts, g)
  <2>1. g # f /\ k \in Cached(s) /\ v.module_results[k] = s.module_results[k]
    BY <1>1, <1>2, <1>3
  <2>2. s.module_results[k].texts[g] = Seen(s.open_texts, g)
    BY <1>3, <2>1 DEF FreshBut
  <2>3. Seen(v.open_texts, g) = Seen(s.open_texts, g)
    BY <1>1, <1>2, <2>1 DEF Seen
  <2> QED
    BY <2>1, <2>2, <2>3
<1> QED
  BY <1>2, <1>3 DEF FreshBut, open

\* close forgets the buffer as open replaces it, and then drops more bundles.
LEMMA CloseKeeps ==
  ASSUME NEW s, Good(s), NEW f \in Files, NEW skip, FreshBut(s, skip)
  PROVE  Good(close(s, f)) /\ FreshBut(close(s, f), skip)
<1> DEFINE u == open(s, f, NoText)
<1>1. Good(u) /\ FreshBut(u, skip)
  BY OpenKeeps
<1>2. close(s, f) = evict_unreferenced_bundles(u)
  BY DEF close, open
<1>3. PICK ks : evict_unreferenced_bundles(u) = Drop(u, ks)
  BY DEF evict_unreferenced_bundles
<1> QED
  BY <1>1, <1>2, <1>3, DropGood, DropFresh DEF Good

-----------------------------------------------------------------------------
(* ensure_analysed. *)

\* An analysis is a bundle, and has read what every file it covers says now.
LEMMA AnalyseFresh ==
  ASSUME TypeOK, NEW root \in Dirs, NEW ot \in [Files -> Texts \cup {NoText}]
  PROVE  /\ analyse(root, ot) \in Bundles
         /\ \A f \in Files : DirOf[f] \in analyse(root, ot).modules =>
                analyse(root, ot).texts[f] = Seen(ot, f)
<1> DEFINE b == analyse(root, ot)
<1>1. \A f \in Files : Seen(ot, f) \in Texts \cup {NoText}
  BY DEF Seen, TypeOK
<1>2. b.modules \subseteq Dirs /\ b.diagnostics \subseteq Files
  BY DEF analyse, Closure
<1>3. b.texts = [f \in Files |-> IF DirOf[f] \in b.modules THEN Seen(ot, f) ELSE NoText]
  BY DEF analyse
<1>4. b.texts \in [Files -> Texts \cup {NoText}]
  BY <1>1, <1>3
<1>5. b = [modules |-> b.modules, diagnostics |-> b.diagnostics, texts |-> b.texts]
  BY DEF analyse
<1>6. b \in Bundles
  <2> HIDE DEF b
  <2> QED
    BY <1>2, <1>4, <1>5 DEF Bundles
<1>7. \A f \in Files : DirOf[f] \in b.modules => b.texts[f] = Seen(ot, f)
  <2> HIDE DEF b
  <2> QED
    BY <1>3
<1> QED
  BY <1>6, <1>7

\* Moving a bundle to the front of the LRU order touches nothing else.
LEMMA TouchEffect ==
  ASSUME NEW s, Good(s), NEW k \in Dirs
  PROVE  /\ Good(Touch(s, k))
         /\ Touch(s, k).open_texts = s.open_texts
         /\ Touch(s, k).module_results = s.module_results
<1> DEFINE ol == {p \in s.older : p[1] # k} \cup ((Cached(s) \ {k}) \X {k})
           u == [s EXCEPT !.older = ol]
<1>1. Touch(s, k) = u
  BY DEF Touch
<1>2. Cached(s) \subseteq Dirs
  BY DEF Cached
<1>3. ol \in SUBSET (Dirs \X Dirs)
  BY <1>2 DEF Good, Stores
<1>4. /\ u \in Stores /\ u.open_texts = s.open_texts
      /\ u.module_results = s.module_results /\ u.bundle_of_dir = s.bundle_of_dir
  <2> HIDE DEF ol
  <2> QED
    BY <1>3 DEF Good, Stores
<1> HIDE DEF u
<1>5. Cached(u) = Cached(s)
  BY <1>4 DEF Cached
<1>6. Exact(u)
  BY <1>4, <1>5 DEF Good, Exact
<1> QED
  BY <1>1, <1>4, <1>6 DEF Good

\* A new bundle under a key that is free is indexed under every directory it covers.
LEMMA InsertEffect ==
  ASSUME NEW s, Good(s), NEW k \in Dirs, k \notin Cached(s), NEW b \in Bundles
  PROVE  /\ Good(Insert(s, k, b))
         /\ Insert(s, k, b).open_texts = s.open_texts
         /\ Cached(Insert(s, k, b)) = Cached(s) \cup {k}
         /\ Insert(s, k, b).module_results = [s.module_results EXCEPT ![k] = b]
<1> DEFINE mr == [s.module_results EXCEPT ![k] = b]
           bd == [d \in Dirs |-> IF d \in b.modules THEN s.bundle_of_dir[d] \cup {k} ELSE s.bundle_of_dir[d]]
           u == [s EXCEPT !.module_results = mr, !.bundle_of_dir = bd]
<1>1. Insert(s, k, b) = u
  BY DEF Insert, Good, Stores
<1>2. mr \in [Dirs -> Bundles \cup {NoBundle}] /\ bd \in [Dirs -> SUBSET Dirs]
  BY DEF Good, Stores
<1>3. u \in Stores /\ u.open_texts = s.open_texts /\ u.module_results = mr /\ u.bundle_of_dir = bd
  <2> HIDE DEF mr, bd
  <2> QED
    BY <1>2, Zenon DEF Good, Stores
<1> HIDE DEF u
<1>4. b # NoBundle
  BY NoBundleAssumption
<1>5. \A j \in Dirs : mr[j] = IF j = k THEN b ELSE s.module_results[j]
  BY DEF Good, Stores
<1>6. Cached(u) = Cached(s) \cup {k}
  BY <1>3, <1>4, <1>5 DEF Cached
<1>7. ASSUME NEW d \in Dirs
      PROVE  u.bundle_of_dir[d] = {j \in Cached(u) : d \in u.module_results[j].modules}
  <2>1. s.bundle_of_dir[d] = {j \in Cached(s) : d \in s.module_results[j].modules}
    BY DEF Good, Exact
  <2>2. u.bundle_of_dir[d] = IF d \in b.modules THEN s.bundle_of_dir[d] \cup {k} ELSE s.bundle_of_dir[d]
    BY <1>3
  <2>3. \A j \in Cached(s) : j \in Dirs /\ j # k
    BY DEF Cached
  <2>4. u.module_results[k] = b /\ \A j \in Cached(s) : u.module_results[j] = s.module_results[j]
    BY <1>3, <1>5, <2>3
  <2> QED
    BY <1>6, <2>1, <2>2, <2>4
<1> QED
  BY <1>1, <1>3, <1>6, <1>7 DEF Good, Exact

LEMMA LeastNumber ==
  ASSUME NEW S, S \subseteq Nat, S # {}
  PROVE  \E x \in S : \A y \in S : x <= y
<1>1. PICK x \in S : \A y \in S : <<y, x>> \notin OpToRel(<, Nat)
  BY NatLessThanWellFounded, WFMin, Zenon
<1>2. \A y \in S : <<y, x>> \notin {ss \in Nat \X Nat : ss[1] < ss[2]}
  BY <1>1 DEF OpToRel
<1>3. \A y \in S : ~(y < x)
  BY <1>2, Zenon
<1> QED
  BY <1>3

\* std::set::begin: a non-empty set of directories has a first.
LEMMA FirstExists ==
  ASSUME NEW S, S \subseteq Dirs, S # {}
  PROVE  \E x \in S : \A y \in S : x <= y
<1>1. S \subseteq Nat
  BY DirsAssumption
<1> QED
  BY <1>1, LeastNumber, Zenon

\* The key ensure_analysed uses is a directory, and covers the file if the index has one.
LEMMA KeyIsDir ==
  ASSUME NEW s \in Stores, NEW f \in Files
  PROVE  /\ KeyFor(s, f) \in Dirs
         /\ s.bundle_of_dir[DirOf[f]] # {} => KeyFor(s, f) \in s.bundle_of_dir[DirOf[f]]
         /\ s.bundle_of_dir[DirOf[f]] = {} => KeyFor(s, f) = DirOf[f]
<1> DEFINE covering == s.bundle_of_dir[DirOf[f]]
<1>1. DirOf[f] \in Dirs /\ covering \subseteq Dirs
  BY FilesAssumption DEF Stores
<1>2. CASE covering = {}
  BY <1>1, <1>2 DEF KeyFor
<1>3. CASE covering # {}
  <2>1. \E x \in covering : \A y \in covering : x <= y
    BY <1>1, <1>3, FirstExists
  <2> QED
    BY <1>1, <1>3, <2>1 DEF KeyFor
<1> QED
  BY <1>2, <1>3

\* ensure_analysed keeps the index exact and every bundle as fresh as it was; what it
\* inserts is fresh.
LEMMA EnsureKeeps ==
  ASSUME TypeOK, NEW st, Good(st), NEW f \in Files, NEW skip, FreshBut(st, skip)
  PROVE  Good(ensure_analysed(st, f)) /\ FreshBut(ensure_analysed(st, f), skip)
<1> DEFINE k == KeyFor(st, f)
<1>1. Good(st) /\ st \in Stores
  BY DEF Good, TypeOK
<1>2. k \in Dirs
  BY <1>1, KeyIsDir
<1> HIDE DEF k
<1>3. CASE st.bundle_of_dir[DirOf[f]] # {}
  <2> DEFINE u == Touch(st, k)
  <2>1. ensure_analysed(st, f) = u
    BY <1>3 DEF ensure_analysed, k
  <2>2. Good(u) /\ u.open_texts = st.open_texts /\ u.module_results = st.module_results
    BY <1>1, <1>2, TouchEffect
  <2> HIDE DEF u
  <2>3. Cached(u) = Cached(st)
    BY <2>2 DEF Cached
  <2>4. FreshBut(u, skip)
    BY <2>2, <2>3 DEF FreshBut
  <2> QED
    BY <2>1, <2>2, <2>4
<1>4. CASE st.bundle_of_dir[DirOf[f]] = {}
  <2> DEFINE a == Drop(st, {k})
             b == Touch(a, k)
             n == analyse(k, st.open_texts)
             c == Insert(b, k, n)
  <2>1. ensure_analysed(st, f) = evict_lru_if_over_capacity(c)
    BY <1>4 DEF ensure_analysed, k
  <2>2. Good(a) /\ FreshBut(a, skip) /\ k \notin Cached(a) /\ a.open_texts = st.open_texts
    <3>1. Good(a) /\ FreshBut(a, skip)
      BY <1>1, DropGood, DropFresh
    <3>2. Dropped(st, {k}, a)
      BY <1>1, DropEffect
    <3> HIDE DEF a
    <3> QED
      BY <3>1, <3>2 DEF Dropped
  <2>3. n \in Bundles /\ \A g \in Files : DirOf[g] \in n.modules => n.texts[g] = Seen(st.open_texts, g)
    BY <1>1, <1>2, AnalyseFresh DEF Stores
  <2> HIDE DEF a, n
  <2>4. Good(b) /\ b.open_texts = st.open_texts /\ b.module_results = a.module_results
    BY <1>2, <2>2, TouchEffect
  <2> HIDE DEF b
  <2>5. Cached(b) = Cached(a)
    BY <2>4 DEF Cached
  <2>6. /\ Good(c) /\ c.open_texts = st.open_texts /\ Cached(c) = Cached(a) \cup {k}
        /\ c.module_results = [b.module_results EXCEPT ![k] = n]
    BY <1>2, <2>2, <2>3, <2>4, <2>5, InsertEffect
  <2> HIDE DEF c
  <2>7. c.module_results[k] = n /\ \A j \in Cached(a) : c.module_results[j] = a.module_results[j]
    BY <1>2, <2>2, <2>4, <2>6 DEF Good, Stores, Cached
  <2>8. FreshBut(c, skip)
    BY <2>2, <2>3, <2>6, <2>7 DEF FreshBut
  <2>9. CASE OverCapacity(c)
    <3>1. PICK ks : evict_lru_if_over_capacity(c) = Drop(c, ks)
      BY <2>9 DEF evict_lru_if_over_capacity
    <3> QED
      BY <2>1, <2>6, <2>8, <3>1, DropGood, DropFresh DEF Good
  <2>10. CASE ~OverCapacity(c)
    BY <2>1, <2>6, <2>8, <2>10 DEF evict_lru_if_over_capacity
  <2> QED
    BY <2>9, <2>10
<1> QED
  BY <1>3, <1>4

-----------------------------------------------------------------------------
(* The specification. *)

IInv == TypeOK /\ IndexExact /\ BundlesFresh

\* The two forms of the invariant agree.
LEMMA Restate == IInv <=> TypeOK /\ Good(store) /\ FreshBut(store, unnotified)
  BY DEF IInv, IndexExact, BundlesFresh, Good, Exact, FreshBut, TypeOK

\* A new store has no bundles.
LEMMA InitIInv == Init => IInv
<1> SUFFICES ASSUME Init PROVE IInv
  OBVIOUS
<1>1. store \in Stores
  BY DEF Init, EmptyStore, Stores
<1>2. Cached(store) = {}
  BY DEF Init, EmptyStore, Cached
<1>3. IndexExact
  BY <1>2, Zenon DEF Init, EmptyStore, IndexExact
<1> QED
  BY <1>1, <1>2, <1>3 DEF Init, IInv, TypeOK, BundlesFresh

\* When the file system stands still, freshness of the new store is freshness later.
LEMMA StoreStep ==
  ASSUME IInv, UNCHANGED env, Good(store'), FreshBut(store', unnotified)
  PROVE  IInv'
<1>1. TypeOK'
  BY DEF IInv, TypeOK, Good, env
<1>2. IndexExact'
  BY DEF Good, Exact, IndexExact
<1>3. BundlesFresh'
  BY DEF FreshBut, BundlesFresh, Seen, env
<1> QED
  BY <1>1, <1>2, <1>3 DEF IInv

\* Every operation of the store and every change on disk keeps the invariant.
LEMMA NextIInv == IInv /\ [Next]_vars => IInv'
<1> SUFFICES ASSUME IInv, [Next]_vars PROVE IInv'
  OBVIOUS
<1>1. TypeOK /\ Good(store) /\ FreshBut(store, unnotified)
  BY Restate
<1>2. ASSUME NEW f \in Files, Close(f) PROVE IInv'
  BY <1>1, <1>2, CloseKeeps, StoreStep DEF Close
<1>3. ASSUME NEW f \in Files, Ensure(f) PROVE IInv'
  BY <1>1, <1>3, EnsureKeeps, StoreStep DEF Ensure, Good
<1>4. ASSUME NEW f \in Files, NEW t \in Texts, Open(f, t) PROVE IInv'
  BY <1>1, <1>4, OpenKeeps, StoreStep DEF Open
<1>5. ASSUME NEW f \in Files, Watched(f) PROVE IInv'
  <2>1. /\ Good(store') /\ store'.open_texts = store.open_texts
        /\ \A k \in Cached(store') : /\ k \in Cached(store)
                                     /\ store'.module_results[k] = store.module_results[k]
                                     /\ DirOf[f] \notin store.module_results[k].modules
    BY <1>1, <1>5, InvalidateEffect DEF Watched, invalidate_external
  <2>2. unnotified' = unnotified \ {f} /\ disk' = disk /\ exists' = exists
    BY <1>5 DEF Watched
  <2>3. TypeOK'
    BY <1>1, <2>1, <2>2 DEF TypeOK, Good
  <2>4. IndexExact'
    BY <2>1 DEF Good, Exact, IndexExact
  <2>5. BundlesFresh'
    BY <1>1, <2>1, <2>2 DEF FreshBut, BundlesFresh, Seen
  <2> QED
    BY <2>3, <2>4, <2>5 DEF IInv
<1>6. ASSUME NEW f \in Files, NEW t \in Texts \cup {NoText}, DiskChange(f, t) PROVE IInv'
  <2>1. TypeOK'
    BY <1>1, <1>6, FilesAssumption, Zenon DEF DiskChange, TypeOK
  <2>2. IndexExact'
    BY <1>6 DEF DiskChange, IInv, IndexExact
  <2>3. BundlesFresh'
    BY <1>1, <1>6 DEF DiskChange, FreshBut, BundlesFresh, Seen, TypeOK
  <2> QED
    BY <2>1, <2>2, <2>3 DEF IInv
<1>7. CASE UNCHANGED vars
  BY <1>7 DEF vars, env, IInv, TypeOK, IndexExact, BundlesFresh, Seen
<1> QED
  BY <1>2, <1>3, <1>4, <1>5, <1>6, <1>7 DEF Next

\* bundle_of_dir_ is always the exact inverse of the cached closures, so the lookup in
\* ensure_analysed never reaches a bundle that is gone.
THEOREM IndexAlwaysExact == Spec => [](TypeOK /\ IndexExact)
<1>1. IInv => TypeOK /\ IndexExact
  BY DEF IInv
<1> QED
  BY InitIInv, NextIInv, <1>1, PTL DEF Spec

\* No cached analysis is older than the text of a file it covers, except for changes on
\* disk the client has not reported yet.
THEOREM BundlesAlwaysFresh == Spec => []BundlesFresh
<1>1. IInv => BundlesFresh
  BY DEF IInv
<1> QED
  BY InitIInv, NextIInv, <1>1, PTL DEF Spec

-----------------------------------------------------------------------------
(* The order of last_access, and what a bundle was computed from. *)

\* The access clock orders the cached keys: among any of them one was touched first.
Ordered(s) ==
    \A S \in SUBSET Cached(s) : S # {} => \E x \in S : \A y \in S : <<y, x>> \notin s.older

\* The names the texts of directory d import.
TextImports(texts, d) == UNION {Imports[texts[f]] : f \in {g \in Files : DirOf[g] = d /\ texts[g] # NoText}}

\* The files with a diagnostic, when a bundle with root k holds these texts.
Reported(texts, k) ==
    {f \in Files : /\ texts[f] # NoText
                   /\ \/ texts[f] \in Bad
                      \/ \E n \in Imports[texts[f]] :
                           ~Declared(texts, resolve_import_path(exists, DirOf[f], n, k))}

\* A bundle is the closure its own texts describe, the texts of that closure and what they report.
OfItsTexts(k, b) ==
    /\ b.modules = Closure(exists, [d \in Dirs |-> TextImports(b.texts, d)], {k}, k)
    /\ \A f \in Files : DirOf[f] \notin b.modules => b.texts[f] = NoText
    /\ b.diagnostics = Reported(b.texts, k)

Computed(s) == \A k \in Cached(s) : OfItsTexts(k, s.module_results[k])

\* Store t has no bundle that s lacks, and orders its bundles no more than s does.
Fewer(s, t) ==
    /\ Cached(t) \subseteq Cached(s)
    /\ \A k \in Cached(t) : t.module_results[k] = s.module_results[k]
    /\ t.older \subseteq s.older

LEMMA FewerOrdered ==
  ASSUME NEW s, NEW t, Fewer(s, t), Ordered(s)
  PROVE  Ordered(t)
<1> SUFFICES ASSUME NEW S \in SUBSET Cached(t), S # {}
             PROVE  \E x \in S : \A y \in S : <<y, x>> \notin t.older
  BY DEF Ordered
<1>1. S \in SUBSET Cached(s) /\ t.older \subseteq s.older
  BY DEF Fewer
<1>2. PICK x \in S : \A y \in S : <<y, x>> \notin s.older
  BY <1>1 DEF Ordered
<1> QED
  BY <1>1, <1>2

LEMMA FewerComputed ==
  ASSUME NEW s, NEW t, Fewer(s, t), Computed(s)
  PROVE  Computed(t)
BY DEF Fewer, Computed

LEMMA FewerFewer ==
  ASSUME NEW s, NEW t, NEW u, Fewer(s, t), Fewer(t, u)
  PROVE  Fewer(s, u)
BY DEF Fewer

LEMMA DropFewer ==
  ASSUME NEW s \in Stores, NEW ks
  PROVE  Fewer(s, Drop(s, ks))
<1> DEFINE t == Drop(s, ks)
<1>1. Dropped(s, ks, t)
  BY DropEffect
<1>2. t.older \subseteq s.older
  BY DEF Drop, Stores
<1> HIDE DEF t
<1> QED
  BY <1>1, <1>2 DEF Dropped, Fewer, t

LEMMA OpenFewer ==
  ASSUME NEW s, Good(s), NEW f \in Files, NEW t \in Texts \cup {NoText}
  PROVE  Fewer(s, open(s, f, t)) /\ open(s, f, t) \in Stores
<1> DEFINE u == SetText(s, f, t)
<1>1. Good(u) /\ Cached(u) = Cached(s) /\ u.module_results = s.module_results
  BY SetTextEffect
<1>2. u.older = s.older
  BY DEF SetText, Good, Stores
<1>3. Fewer(s, u)
  <2> HIDE DEF u
  <2> QED
    BY <1>1, <1>2 DEF Fewer
<1> HIDE DEF u
<1>4. Fewer(u, Drop(u, u.bundle_of_dir[DirOf[f]]))
  BY <1>1, DropFewer DEF Good
<1>5. open(s, f, t) = Drop(u, u.bundle_of_dir[DirOf[f]])
  BY DEF open, invalidate, u
<1>6. Good(Drop(u, u.bundle_of_dir[DirOf[f]]))
  BY <1>1, DropGood
<1> QED
  BY <1>3, <1>4, <1>5, <1>6, FewerFewer DEF Good

LEMMA CloseFewer ==
  ASSUME NEW s, Good(s), NEW f \in Files
  PROVE  Fewer(s, close(s, f))
<1> DEFINE u == open(s, f, NoText)
<1>1. Fewer(s, u) /\ u \in Stores
  BY OpenFewer
<1>2. close(s, f) = evict_unreferenced_bundles(u)
  BY DEF close, open
<1> HIDE DEF u
<1>3. PICK ks : evict_unreferenced_bundles(u) = Drop(u, ks)
  BY DEF evict_unreferenced_bundles
<1> QED
  BY <1>1, <1>2, <1>3, DropFewer, FewerFewer

\* Touching a key puts it behind every other: an order stays an order, also with that key in it.
LEMMA TouchOrders ==
  ASSUME NEW s \in Stores, Ordered(s), NEW k \in Dirs
  PROVE  /\ \A S \in SUBSET (Cached(s) \cup {k}) :
              S # {} => \E x \in S : \A y \in S : <<y, x>> \notin Touch(s, k).older
         /\ \A j \in Cached(s) \ {k} : <<j, k>> \in Touch(s, k).older
<1> DEFINE ol == {p \in s.older : p[1] # k} \cup ((Cached(s) \ {k}) \X {k})
<1>1. Touch(s, k).older = ol
  BY DEF Touch, Stores
<1>2. ASSUME NEW S \in SUBSET (Cached(s) \cup {k}), S # {}
      PROVE  \E x \in S : \A y \in S : <<y, x>> \notin ol
  <2>1. CASE S \subseteq {k}
    BY <1>2, <2>1
  <2>2. CASE ~ (S \subseteq {k})
    <3>1. S \ {k} \in SUBSET Cached(s) /\ S \ {k} # {}
      BY <2>2
    <3>2. PICK x \in S \ {k} : \A y \in S \ {k} : <<y, x>> \notin s.older
      BY <3>1, Zenon DEF Ordered
    <3>3. \A y \in S : <<y, x>> \notin ol
      BY <3>2
    <3> QED
      BY <3>3
  <2> QED
    BY <2>1, <2>2
<1>3. \A j \in Cached(s) \ {k} : <<j, k>> \in ol
  OBVIOUS
<1> QED
  BY <1>1, <1>2, <1>3

\* An import is found in a directory that exists, or not at all.
LEMMA FoundExists ==
  ASSUME NEW ex \in SUBSET Dirs, NEW d \in Dirs, NEW n \in Names, NEW root \in Dirs
  PROVE  resolve_import_path(ex, d, n, root) \in ex \cup {NoDir}
<1> DEFINE c == Candidates(d, n, root)
           hits == {i \in 1 .. Len(c) : c[i] \in ex}
           least == CHOOSE i \in hits : \A j \in hits : i <= j
<1>1. resolve_import_path(ex, d, n, root) = IF hits = {} THEN NoDir ELSE c[least]
  BY DEF resolve_import_path
<1>2. CASE hits # {}
  <2>1. c \in Seq(Dirs \cup {NoDir})
    <3>1. \A e \in Dirs : Join[e][n] \in Dirs \cup {NoDir} /\ Contained(e, n) \in Dirs \cup {NoDir}
      BY JoinAssumption DEF Contained
    <3> QED
      BY <3>1, RootsAssumption DEF Candidates
  <2> HIDE DEF c
  <2>2. hits \subseteq Nat
    BY <2>1
  <2> HIDE DEF hits
  <2>3. \E x \in hits : \A y \in hits : x <= y
    BY <1>2, <2>2, LeastNumber, Zenon
  <2>4. least \in hits
    BY <2>3
  <2> QED
    BY <1>1, <1>2, <2>4 DEF hits
<1> QED
  BY <1>1, <1>2

\* A closure depends only on what its own members import.
LEMMA ClosureOfMembers ==
  ASSUME NEW ex \in SUBSET Dirs, NEW k \in Dirs,
         NEW i1 \in [Dirs -> SUBSET Names], NEW i2 \in [Dirs -> SUBSET Names],
         \A d \in Closure(ex, i1, {k}, k) : i1[d] = i2[d]
  PROVE  Closure(ex, i1, {k}, k) = Closure(ex, i2, {k}, k)
<1> DEFINE C1 == Closure(ex, i1, {k}, k)
           C2 == Closure(ex, i2, {k}, k)
           closed(i, S) == {k} \subseteq S /\ \A e \in S : Targets(ex, i, e, k) \subseteq S
<1>1. ASSUME NEW i \in [Dirs -> SUBSET Names], NEW e \in Dirs
      PROVE  Targets(ex, i, e, k) \subseteq Dirs
  BY FoundExists DEF Targets
<1>2. \A d \in Dirs : i1[d] = i2[d] => Targets(ex, i1, d, k) = Targets(ex, i2, d, k)
  BY DEF Targets
<1>3. C1 = {d \in Dirs : \A S \in SUBSET Dirs : closed(i1, S) => d \in S}
  BY DEF Closure
<1>4. C2 = {d \in Dirs : \A S \in SUBSET Dirs : closed(i2, S) => d \in S}
  BY DEF Closure
<1> HIDE DEF C1, C2
<1>5. \A d \in C1 : i1[d] = i2[d]
  BY DEF C1
<1>6. closed(i1, C1) /\ C1 \in SUBSET Dirs
  BY <1>1, <1>3
<1>7. closed(i2, C2) /\ C2 \in SUBSET Dirs
  BY <1>1, <1>4
<1>8. closed(i2, C1)
  BY <1>2, <1>5, <1>6
<1>9. C2 \subseteq C1
  BY <1>4, <1>6, <1>8
<1>10. closed(i1, C2)
  BY <1>2, <1>5, <1>7, <1>9
<1>11. C1 \subseteq C2
  BY <1>3, <1>7, <1>10
<1> QED
  BY <1>9, <1>11 DEF C1, C2

LEMMA TextImportsNames ==
  ASSUME NEW texts \in [Files -> Texts \cup {NoText}], NEW d \in Dirs
  PROVE  TextImports(texts, d) \in SUBSET Names
BY FilesAssumption DEF TextImports

\* What an analysis imports are the imports of the texts it sees.
LEMMA ImportsSeen ==
  ASSUME NEW ot, NEW texts, NEW d,
         \A f \in Files : DirOf[f] = d => texts[f] = Seen(ot, f)
  PROVE  ImportsOf(ot, d) = TextImports(texts, d)
BY DEF ImportsOf, TextImports

\* Texts that are what the files of a closure say now determine the analysis.
LEMMA TextsDetermine ==
  ASSUME TypeOK, NEW k \in exists, NEW ot \in [Files -> Texts \cup {NoText}],
         NEW b \in Bundles, b.modules = Closure(exists, [d \in Dirs |-> TextImports(b.texts, d)], {k}, k),
         \A f \in Files : b.texts[f] = IF DirOf[f] \in b.modules THEN Seen(ot, f) ELSE NoText
  PROVE  /\ analyse(k, ot).modules = b.modules
         /\ analyse(k, ot).texts = b.texts
         /\ analyse(k, ot).diagnostics = Reported(b.texts, k)
         /\ analyse(k, ot) = [modules |-> b.modules, diagnostics |-> Reported(b.texts, k), texts |-> b.texts]
<1> DEFINE i1 == [d \in Dirs |-> TextImports(b.texts, d)]
           i2 == [d \in Dirs |-> ImportsOf(ot, d)]
           all == [f \in Files |-> Seen(ot, f)]
<1>1. k \in Dirs /\ exists \in SUBSET Dirs /\ b.texts \in [Files -> Texts \cup {NoText}]
  BY DEF TypeOK, Bundles
<1>2. all \in [Files -> Texts \cup {NoText}]
  BY DEF Seen, TypeOK
<1>3. \A d \in Dirs : ImportsOf(ot, d) = TextImports(all, d)
  BY Zenon DEF ImportsOf, TextImports
<1>4. i1 \in [Dirs -> SUBSET Names] /\ i2 \in [Dirs -> SUBSET Names]
  BY <1>1, <1>2, <1>3, TextImportsNames, Zenon
<1>5. ASSUME NEW d \in Closure(exists, i1, {k}, k) PROVE i1[d] = i2[d]
  <2>1. d \in b.modules /\ d \in Dirs
    BY DEF Closure
  <2>2. \A f \in Files : DirOf[f] = d => b.texts[f] = Seen(ot, f)
    BY <2>1
  <2> QED
    BY <2>1, <2>2, ImportsSeen
<1>6. b.modules = Closure(exists, i2, {k}, k)
  BY <1>1, <1>4, <1>5, ClosureOfMembers, Zenon
<1> DEFINE m == Closure(exists, i2, {k}, k)
           t == [f \in Files |-> IF DirOf[f] \in m THEN Seen(ot, f) ELSE NoText]
<1>7. analyse(k, ot) = [modules |-> m, diagnostics |-> Reported(t, k), texts |-> t]
  BY DEF analyse, Reported
<1>8. t = b.texts
  BY <1>1, <1>6, Zenon
<1> HIDE DEF m, t
<1> QED
  BY <1>6, <1>7, <1>8 DEF m

\* What analyse returns is computed from the texts it returns.
LEMMA AnalyseComputes ==
  ASSUME TypeOK, NEW k \in exists, NEW ot \in [Files -> Texts \cup {NoText}]
  PROVE  OfItsTexts(k, analyse(k, ot)) /\ k \in analyse(k, ot).modules
<1> DEFINE i1 == [d \in Dirs |-> ImportsOf(ot, d)]
           m == Closure(exists, i1, {k}, k)
           t == [f \in Files |-> IF DirOf[f] \in m THEN Seen(ot, f) ELSE NoText]
           i2 == [d \in Dirs |-> TextImports(t, d)]
           all == [f \in Files |-> Seen(ot, f)]
<1>1. analyse(k, ot) = [modules |-> m, diagnostics |-> Reported(t, k), texts |-> t]
  BY DEF analyse, Reported
<1>2. k \in Dirs /\ exists \in SUBSET Dirs
  BY DEF TypeOK
<1>3. all \in [Files -> Texts \cup {NoText}] /\ t \in [Files -> Texts \cup {NoText}]
  BY DEF Seen, TypeOK
<1>4. \A d \in Dirs : ImportsOf(ot, d) = TextImports(all, d)
  BY Zenon DEF ImportsOf, TextImports
<1>5. i1 \in [Dirs -> SUBSET Names] /\ i2 \in [Dirs -> SUBSET Names]
  <2> HIDE DEF t, all
  <2> QED
    BY <1>3, <1>4, TextImportsNames
<1>6. ASSUME NEW d \in Closure(exists, i1, {k}, k) PROVE i1[d] = i2[d]
  <2>1. d \in m /\ d \in Dirs
    BY DEF Closure
  <2>2. \A f \in Files : DirOf[f] = d => t[f] = Seen(ot, f)
    BY <2>1
  <2> HIDE DEF t
  <2> QED
    BY <2>1, <2>2, ImportsSeen
<1>7. m = Closure(exists, i2, {k}, k)
  <2> HIDE DEF i1, i2
  <2> QED
    BY <1>2, <1>5, <1>6, ClosureOfMembers, Zenon
<1>8. k \in m
  BY <1>2 DEF Closure
<1>9. \A f \in Files : DirOf[f] \notin m => t[f] = NoText
  OBVIOUS
<1> HIDE DEF m, t
<1> QED
  BY <1>1, <1>7, <1>8, <1>9 DEF OfItsTexts

\* The store ensure_analysed has built when no bundle covers the file, before it evicts.
LEMMA AnalysedAndInserted ==
  ASSUME TypeOK, NEW st, Good(st), Ordered(st), NEW f \in Files, st.bundle_of_dir[DirOf[f]] = {}
  PROVE  \E c : /\ ensure_analysed(st, f) = evict_lru_if_over_capacity(c)
                /\ Good(c) /\ Ordered(c) /\ c.open_texts = st.open_texts
                /\ Cached(c) = Cached(st) \cup {DirOf[f]}
                /\ c.module_results[DirOf[f]] = analyse(DirOf[f], st.open_texts)
                /\ \A j \in Cached(c) \ {DirOf[f]} : /\ c.module_results[j] = st.module_results[j]
                                                    /\ <<j, DirOf[f]>> \in c.older
<1> DEFINE k == DirOf[f]
           a == Drop(st, {k})
           b == Touch(a, k)
           n == analyse(k, st.open_texts)
           c == Insert(b, k, n)
<1>1. st \in Stores /\ k \in Dirs
  BY FilesAssumption DEF Good
<1>2. KeyFor(st, f) = k
  BY <1>1, KeyIsDir
<1>3. ensure_analysed(st, f) = evict_lru_if_over_capacity(c)
  BY <1>2 DEF ensure_analysed
<1> HIDE DEF k
<1>4. Good(a) /\ Fewer(st, a) /\ Dropped(st, {k}, a)
  BY <1>1, DropGood, DropFewer, DropEffect
<1>5. n \in Bundles
  BY <1>1, AnalyseFresh DEF Stores
<1> HIDE DEF a, n
<1>6. Ordered(a) /\ Cached(a) = Cached(st) \ {k} /\ k \notin Cached(a)
      /\ \A j \in Cached(a) : a.module_results[j] = st.module_results[j]
  BY <1>4, FewerOrdered DEF Dropped
<1>7. Good(b) /\ b.module_results = a.module_results /\ b.open_texts = st.open_texts
  BY <1>1, <1>4, TouchEffect DEF Dropped
<1>8. /\ \A S \in SUBSET (Cached(a) \cup {k}) :
           S # {} => \E x \in S : \A y \in S : <<y, x>> \notin b.older
      /\ \A j \in Cached(a) \ {k} : <<j, k>> \in b.older
  BY <1>1, <1>4, <1>6, TouchOrders DEF Good
<1> HIDE DEF b
<1>9. Cached(b) = Cached(a)
  BY <1>7 DEF Cached
<1>10. /\ Good(c) /\ Cached(c) = Cached(a) \cup {k} /\ c.open_texts = st.open_texts
       /\ c.module_results = [b.module_results EXCEPT ![k] = n]
  BY <1>1, <1>5, <1>6, <1>7, <1>9, InsertEffect
<1>11. c.older = b.older
  BY <1>7 DEF Insert, Good, Stores
<1> HIDE DEF c
<1>12. c.module_results[k] = n /\ \A j \in Cached(a) : c.module_results[j] = a.module_results[j]
  BY <1>1, <1>6, <1>7, <1>10 DEF Good, Stores, Cached
<1>13. Ordered(c)
  BY <1>8, <1>10, <1>11 DEF Ordered
<1>14. Cached(c) = Cached(st) \cup {k}
  BY <1>6, <1>10
<1>15. \A j \in Cached(c) \ {k} : c.module_results[j] = st.module_results[j] /\ <<j, k>> \in c.older
  BY <1>6, <1>8, <1>10, <1>11, <1>12
<1> QED
  BY <1>3, <1>10, <1>12, <1>13, <1>14, <1>15, Zenon DEF k, n

\* An eviction finds a bundle touched before the one just inserted, and leaves that one alone.
LEMMA EvictEffect ==
  ASSUME NEW c, Good(c), Ordered(c), NEW k \in Cached(c),
         \A j \in Cached(c) \ {k} : <<j, k>> \in c.older
  PROVE  LET s == evict_lru_if_over_capacity(c)
         IN  Fewer(c, s) /\ k \in Cached(s) /\ s.open_texts = c.open_texts
<1> DEFINE s == evict_lru_if_over_capacity(c)
           first(x) == \A j \in Cached(c) : <<j, x>> \notin c.older
           oldest == CHOOSE x \in Cached(c) : first(x)
<1>1. CASE ~ OverCapacity(c)
  BY <1>1 DEF evict_lru_if_over_capacity, Fewer
<1>2. CASE OverCapacity(c)
  <2>1. s = Drop(c, {oldest})
    BY <1>2 DEF evict_lru_if_over_capacity
  <2>2. PICK j \in Cached(c) : j # k
    <3> SUFFICES ASSUME Cached(c) = {k} PROVE FALSE
      OBVIOUS
    <3>1. Cardinality(Cached(c)) = 1
      BY FS_Singleton
    <3> QED
      BY <1>2, <3>1, FilesAssumption DEF OverCapacity
  <2>3. ~ first(k)
    BY <2>2, Zenon
  <2>4. \E x \in Cached(c) : first(x)
    BY DEF Ordered
  <2>5. oldest \in Cached(c) /\ first(oldest)
    BY <2>4
  <2>6. oldest # k
    BY <2>3, <2>5
  <2> HIDE DEF oldest
  <2>7. Fewer(c, Drop(c, {oldest})) /\ Dropped(c, {oldest}, Drop(c, {oldest}))
    BY DropFewer, DropEffect DEF Good
  <2>8. k \in Cached(Drop(c, {oldest})) /\ Drop(c, {oldest}).open_texts = c.open_texts
    BY <2>6, <2>7, Zenon DEF Dropped
  <2> QED
    BY <2>1, <2>7, <2>8
<1> QED
  BY <1>1, <1>2

\* ensure_analysed keeps the order, and what it returns is cached and covers the file.
LEMMA EnsureOrders ==
  ASSUME TypeOK, NEW st, Good(st), Ordered(st), NEW f \in Files
  PROVE  LET s == ensure_analysed(st, f)
             k == KeyFor(st, f)
         IN  /\ Ordered(s) /\ k \in Cached(s) /\ s.open_texts = st.open_texts
             /\ DirOf[f] \in exists => DirOf[f] \in s.module_results[k].modules
             /\ DirOf[f] \in exists /\ Computed(st) => Computed(s)
<1> DEFINE k == KeyFor(st, f)
           s == ensure_analysed(st, f)
<1>1. st \in Stores /\ DirOf[f] \in Dirs
  BY FilesAssumption DEF Good
<1>2. /\ k \in Dirs /\ (st.bundle_of_dir[DirOf[f]] = {} => k = DirOf[f])
      /\ st.bundle_of_dir[DirOf[f]] # {} => k \in st.bundle_of_dir[DirOf[f]]
  BY <1>1, KeyIsDir
<1>3. CASE st.bundle_of_dir[DirOf[f]] # {}
  <2> DEFINE u == Touch(st, k)
  <2>1. s = u
    BY <1>3 DEF ensure_analysed
  <2> HIDE DEF k, s
  <2>2. u.module_results = st.module_results /\ u.open_texts = st.open_texts
    BY <1>2, TouchEffect
  <2>3. \A S \in SUBSET (Cached(st) \cup {k}) :
          S # {} => \E x \in S : \A y \in S : <<y, x>> \notin u.older
    BY <1>1, <1>2, TouchOrders
  <2> HIDE DEF u
  <2>4. Cached(u) = Cached(st)
    BY <2>2 DEF Cached
  <2>5. Ordered(u)
    BY <2>3, <2>4 DEF Ordered
  <2>6. Computed(st) => Computed(u)
    BY <2>2, <2>4 DEF Computed
  <2>7. k \in Cached(u) /\ DirOf[f] \in u.module_results[k].modules
    BY <1>1, <1>2, <1>3, <2>2, <2>4 DEF Good, Exact
  <2>8. /\ Ordered(s) /\ (Computed(st) => Computed(s)) /\ s.open_texts = st.open_texts
        /\ k \in Cached(s) /\ DirOf[f] \in s.module_results[k].modules
    BY <2>1, <2>2, <2>5, <2>6, <2>7
  <2> QED
    BY <2>8 DEF s, k
<1>4. CASE st.bundle_of_dir[DirOf[f]] = {}
  <2> HIDE DEF k, s
  <2>1. PICK c : /\ s = evict_lru_if_over_capacity(c)
                 /\ Good(c) /\ Ordered(c) /\ c.open_texts = st.open_texts
                 /\ Cached(c) = Cached(st) \cup {k}
                 /\ c.module_results[k] = analyse(k, st.open_texts)
                 /\ \A j \in Cached(c) \ {k} : /\ c.module_results[j] = st.module_results[j]
                                               /\ <<j, k>> \in c.older
    BY <1>2, <1>4, AnalysedAndInserted DEF s
  <2>2. Fewer(c, s) /\ k \in Cached(s) /\ s.open_texts = st.open_texts
    BY <2>1, EvictEffect
  <2>3. Ordered(s)
    BY <2>1, <2>2, FewerOrdered
  <2>4. ASSUME DirOf[f] \in exists
        PROVE  DirOf[f] \in s.module_results[k].modules /\ (Computed(st) => Computed(s))
    <3>1. k \in exists /\ k = DirOf[f]
      BY <1>2, <1>4, <2>4
    <3>2. OfItsTexts(k, c.module_results[k]) /\ k \in c.module_results[k].modules
      BY <1>1, <2>1, <3>1, AnalyseComputes DEF Stores
    <3>3. Computed(st) => Computed(c)
      BY <2>1, <3>2, Zenon DEF Computed
    <3>4. s.module_results[k] = c.module_results[k]
      BY <2>2 DEF Fewer
    <3> QED
      BY <2>2, <3>1, <3>2, <3>3, <3>4, FewerComputed
  <2> QED
    BY <2>2, <2>3, <2>4 DEF s, k
<1> QED
  BY <1>3, <1>4

\* The order is kept by every operation, whatever is on disk.
OrderInv == IInv /\ Ordered(store)

LEMMA NextOrder == OrderInv /\ [Next]_vars => OrderInv'
<1> SUFFICES ASSUME OrderInv, [Next]_vars PROVE OrderInv'
  OBVIOUS
<1>1. IInv' /\ IInv
  BY NextIInv DEF OrderInv
<1>2. TypeOK /\ Good(store) /\ Ordered(store) /\ store \in Stores
  BY <1>1, Restate DEF OrderInv, Good
<1>3. CASE store' = store
  BY <1>1, <1>2, <1>3 DEF OrderInv, Ordered, Cached
<1>4. ASSUME Fewer(store, store') PROVE OrderInv'
  <2>1. PICK t : t = store'
    OBVIOUS
  <2>2. Ordered(t)
    BY <1>2, <1>4, <2>1, FewerOrdered
  <2>3. Ordered(store)'
    BY <2>1, <2>2 DEF Ordered, Cached
  <2> QED
    BY <1>1, <2>3 DEF OrderInv
<1>5. ASSUME NEW f \in Files, Ensure(f) PROVE OrderInv'
  <2>1. PICK t : t = store' /\ t = ensure_analysed(store, f)
    BY <1>5 DEF Ensure
  <2>2. Ordered(t)
    BY <1>2, <2>1, EnsureOrders
  <2>3. Ordered(store)'
    BY <2>1, <2>2 DEF Ordered, Cached
  <2> QED
    BY <1>1, <2>3 DEF OrderInv
<1>6. ASSUME NEW f \in Files, Watched(f) PROVE Fewer(store, store')
  BY <1>2, <1>6, DropFewer DEF Watched, invalidate_external, invalidate
<1>7. ASSUME NEW f \in Files, NEW t \in Texts, Open(f, t) PROVE Fewer(store, store')
  BY <1>2, <1>7, OpenFewer DEF Open
<1>8. ASSUME NEW f \in Files, Close(f) PROVE Fewer(store, store')
  BY <1>2, <1>8, CloseFewer DEF Close
<1>9. ASSUME NEW f \in Files, NEW t, DiskChange(f, t) PROVE store' = store
  BY <1>9 DEF DiskChange
<1>10. UNCHANGED vars => store' = store
  BY DEF vars
<1> QED
  BY <1>3, <1>4, <1>5, <1>6, <1>7, <1>8, <1>9, <1>10 DEF Next

LEMMA InitOrder == Init => OrderInv
<1> SUFFICES ASSUME Init PROVE OrderInv
  OBVIOUS
<1>1. Cached(store) = {}
  BY DEF Init, EmptyStore, Cached
<1> QED
  BY <1>1, InitIInv DEF OrderInv, Ordered

\* Whatever was opened, closed, changed and evicted before, the bundle ensure_analysed returns a
\* reference to is in the cache after its own eviction, and covers the file's directory unless
\* that directory is gone.
THEOREM ReturnedAlwaysSurvives == Spec => []ReturnedBundleSurvives
<1>1. OrderInv => ReturnedBundleSurvives
  <2> SUFFICES ASSUME OrderInv, NEW f \in Files
               PROVE  LET k == KeyFor(store, f)
                          s == ensure_analysed(store, f)
                      IN /\ k \in Cached(s)
                         /\ DirOf[f] \in exists => DirOf[f] \in s.module_results[k].modules
    BY DEF ReturnedBundleSurvives
  <2>1. TypeOK /\ Good(store) /\ Ordered(store)
    BY Restate DEF OrderInv
  <2> QED
    BY <2>1, EnsureOrders
<1> QED
  BY InitOrder, NextOrder, <1>1, PTL DEF Spec

\* While no directory is missing, every bundle is what its own texts describe.
ComputedInv == OrderInv /\ exists = Dirs /\ Computed(store)

LEMMA InitComputed == Absent = {} /\ Init => ComputedInv
<1> SUFFICES ASSUME Absent = {}, Init PROVE ComputedInv
  OBVIOUS
<1>1. Cached(store) = {}
  BY DEF Init, EmptyStore, Cached
<1>2. exists = Dirs
  BY DEF Init
<1> QED
  BY <1>1, <1>2, InitOrder DEF ComputedInv, Computed

LEMMA NextComputed == ComputedInv /\ [Next]_vars => ComputedInv'
<1> SUFFICES ASSUME ComputedInv, [Next]_vars PROVE ComputedInv'
  OBVIOUS
<1>1. OrderInv' /\ OrderInv /\ IInv
  BY NextOrder DEF ComputedInv, OrderInv
<1>2. TypeOK /\ Good(store) /\ Ordered(store) /\ store \in Stores /\ Computed(store) /\ exists = Dirs
  BY <1>1, Restate DEF ComputedInv, OrderInv, Good
<1>3. exists' = exists
  BY <1>2, FilesAssumption DEF Next, Open, Close, Ensure, Watched, DiskChange, vars, env
<1>4. ASSUME NEW k, NEW b, OfItsTexts(k, b) PROVE OfItsTexts(k, b)'
  BY <1>3, <1>4, Zenon DEF OfItsTexts, Reported
<1>5. ASSUME NEW t, t = store', Computed(t) PROVE ComputedInv'
  BY <1>1, <1>2, <1>3, <1>4, <1>5 DEF ComputedInv, Computed, Cached
<1>6. CASE Computed(store')
  BY <1>5, <1>6
<1>7. CASE Fewer(store, store')
  BY <1>2, <1>5, <1>7, FewerComputed
<1>8. ASSUME NEW f \in Files, Ensure(f) PROVE ComputedInv'
  <2>1. DirOf[f] \in exists
    BY <1>2, FilesAssumption
  <2> QED
    BY <1>2, <1>5, <1>8, <2>1, EnsureOrders DEF Ensure
<1>9. ASSUME NEW f \in Files, Watched(f) PROVE Fewer(store, store')
  BY <1>2, <1>9, DropFewer DEF Watched, invalidate_external, invalidate
<1>10. ASSUME NEW f \in Files, NEW t \in Texts, Open(f, t) PROVE Fewer(store, store')
  BY <1>2, <1>10, OpenFewer DEF Open
<1>11. ASSUME NEW f \in Files, Close(f) PROVE Fewer(store, store')
  BY <1>2, <1>11, CloseFewer DEF Close
<1>12. ASSUME NEW f \in Files, NEW t, DiskChange(f, t) PROVE Computed(store')
  BY <1>2, <1>12 DEF DiskChange
<1>13. UNCHANGED vars => Computed(store')
  BY <1>2 DEF vars
<1> QED
  BY <1>6, <1>7, <1>8, <1>9, <1>10, <1>11, <1>12, <1>13 DEF Next

\* A bundle that has read what its files say now is what an analysis would give.
LEMMA FreshIsCurrent ==
  ASSUME TypeOK, exists = Dirs, NEW s, Good(s), FreshBut(s, {}), Computed(s), NEW k \in Cached(s)
  PROVE  s.module_results[k] = analyse(k, s.open_texts)
<1> DEFINE b == s.module_results[k]
<1>1. s \in Stores /\ s.open_texts \in [Files -> Texts \cup {NoText}]
  BY DEF Good, Stores
<1>2. b \in Bundles /\ k \in Dirs /\ OfItsTexts(k, b) /\ k \in exists
  BY <1>1, CachedIsBundle DEF Computed
<1>3. \A f \in Files : DirOf[f] \in b.modules => b.texts[f] = Seen(s.open_texts, f)
  BY DEF FreshBut
<1> HIDE DEF b
<1>4. \A f \in Files : b.texts[f] = IF DirOf[f] \in b.modules THEN Seen(s.open_texts, f) ELSE NoText
  BY <1>2, <1>3 DEF OfItsTexts
<1>5. b.modules = Closure(exists, [e \in Dirs |-> TextImports(b.texts, e)], {k}, k)
  BY <1>2 DEF OfItsTexts
<1>6. analyse(k, s.open_texts)
        = [modules |-> b.modules, diagnostics |-> Reported(b.texts, k), texts |-> b.texts]
  BY <1>1, <1>2, <1>4, <1>5, TextsDetermine
<1>7. b = [modules |-> b.modules, diagnostics |-> Reported(b.texts, k), texts |-> b.texts]
  BY <1>2 DEF OfItsTexts, Bundles
<1> QED
  BY <1>6, <1>7 DEF b

\* When no directory comes into being behind the server's back, then with every disk change
\* reported each bundle served from the cache is what analysing its root again would give.
THEOREM BundlesAlwaysCurrent ==
  ASSUME Absent = {}
  PROVE  Spec => []BundlesCurrent
<1>1. ComputedInv => BundlesCurrent
  <2> SUFFICES ASSUME ComputedInv, unnotified = {}, NEW d \in Dirs, NEW k \in store.bundle_of_dir[d]
               PROVE  store.module_results[k] = analyse(k, store.open_texts)
    BY DEF BundlesCurrent
  <2>1. TypeOK /\ Good(store) /\ FreshBut(store, {}) /\ store \in Stores
    BY Restate DEF ComputedInv, OrderInv, Good
  <2>2. k \in Cached(store)
    BY <2>1 DEF Good, Exact
  <2> QED
    BY <2>1, <2>2, FreshIsCurrent DEF ComputedInv
<1>2. Init => ComputedInv
  BY InitComputed
<1> QED
  BY <1>1, <1>2, NextComputed, PTL DEF Spec
=============================================================================
