------------------------ MODULE LspDiagnosticsProofs ------------------------
(***************************************************************************)
(* What the worker publishes is true, for any files, directories, texts and *)
(* capacity, and for any order of requests, edits, rounds and disk changes.  *)
(*                                                                         *)
(* Two hypotheses stand in the theorems.  Absent = {}: no directory comes    *)
(* into being later.  SameFromAnyRoot: no import is found only because it    *)
(* lies in the directory of the root module; without it a document has as    *)
(* many meanings as there are bundles covering it.                           *)
(***************************************************************************)
EXTENDS LspDiagnostics, DocumentStoreProofs

\* An import finds the same directory whichever module the analysis started from.
SameFromAnyRoot ==
    \A d \in Dirs, n \in Names, r1, r2 \in Dirs :
        resolve_import_path(Dirs, d, n, r1) = resolve_import_path(Dirs, d, n, r2)

\* A store whose bundles have read, outside 'skip', what their files say now.
Sound(s, skip) == Good(s) /\ FreshBut(s, skip) /\ Ordered(s) /\ Computed(s)

-----------------------------------------------------------------------------
(* The operations of the store keep it sound. *)

LEMMA OpenSound ==
  ASSUME NEW s, NEW skip, Sound(s, skip), NEW f \in Files, NEW t \in Texts \cup {NoText}
  PROVE  Sound(open(s, f, t), skip) /\ open(s, f, t).open_texts = [s.open_texts EXCEPT ![f] = t]
<1> DEFINE u == SetText(s, f, t)
           v == open(s, f, t)
<1>1. Good(v) /\ FreshBut(v, skip) /\ Fewer(s, v)
  BY OpenKeeps, OpenFewer DEF Sound
<1>2. Good(u) /\ u.open_texts = [s.open_texts EXCEPT ![f] = t]
  BY SetTextEffect, Zenon DEF Sound, SetText, Good, Stores
<1>3. v.open_texts = u.open_texts
  BY <1>2, InvalidateEffect DEF open
<1> HIDE DEF u, v
<1>4. Ordered(v) /\ Computed(v)
  BY <1>1, FewerOrdered, FewerComputed DEF Sound
<1> QED
  BY <1>1, <1>2, <1>3, <1>4 DEF Sound, v

LEMMA CloseSound ==
  ASSUME NEW s, NEW skip, Sound(s, skip), NEW f \in Files
  PROVE  Sound(close(s, f), skip) /\ close(s, f).open_texts = [s.open_texts EXCEPT ![f] = NoText]
<1> DEFINE u == open(s, f, NoText)
           v == close(s, f)
<1>1. Good(v) /\ FreshBut(v, skip) /\ Fewer(s, v)
  BY CloseKeeps, CloseFewer DEF Sound
<1>2. Good(u) /\ u.open_texts = [s.open_texts EXCEPT ![f] = NoText]
  BY OpenSound DEF Sound
<1>3. PICK ks : v = Drop(u, ks)
  BY DEF close, open, evict_unreferenced_bundles
<1> HIDE DEF u, v
<1>4. v.open_texts = u.open_texts
  BY <1>2, <1>3, DropEffect, Zenon DEF Dropped, Good
<1>5. Ordered(v) /\ Computed(v)
  BY <1>1, FewerOrdered, FewerComputed DEF Sound
<1> QED
  BY <1>1, <1>2, <1>4, <1>5 DEF Sound, v

LEMMA WatchedSound ==
  ASSUME NEW s, NEW skip, Sound(s, skip), NEW f \in Files
  PROVE  /\ Sound(invalidate_external(s, f), skip \ {f})
         /\ invalidate_external(s, f).open_texts = s.open_texts
<1> DEFINE v == invalidate_external(s, f)
<1>1. /\ Good(v) /\ v.open_texts = s.open_texts
      /\ \A k \in Cached(v) : /\ k \in Cached(s)
                              /\ v.module_results[k] = s.module_results[k]
                              /\ DirOf[f] \notin s.module_results[k].modules
  BY InvalidateEffect DEF invalidate_external, Sound
<1>2. Fewer(s, v)
  BY DropFewer DEF invalidate_external, invalidate, Sound, Good
<1> HIDE DEF v
<1>3. FreshBut(v, skip \ {f})
  BY <1>1 DEF Sound, FreshBut
<1>4. Ordered(v) /\ Computed(v)
  BY <1>2, FewerOrdered, FewerComputed DEF Sound
<1> QED
  BY <1>1, <1>3, <1>4 DEF Sound, v

LEMMA EnsureSound ==
  ASSUME TypeOK, exists = Dirs, NEW s, NEW skip, Sound(s, skip), NEW f \in Files
  PROVE  LET v == ensure_analysed(s, f)
             k == KeyFor(s, f)
         IN  /\ Sound(v, skip) /\ v.open_texts = s.open_texts
             /\ k \in Dirs /\ k \in Cached(v) /\ DirOf[f] \in v.module_results[k].modules
             /\ skip = {} => v.module_results[k] = analyse(k, s.open_texts)
<1> DEFINE v == ensure_analysed(s, f)
           k == KeyFor(s, f)
<1>1. DirOf[f] \in exists
  BY FilesAssumption
<1>2. Good(v) /\ FreshBut(v, skip)
  BY EnsureKeeps DEF Sound
<1>3. /\ Ordered(v) /\ k \in Cached(v) /\ v.open_texts = s.open_texts
      /\ DirOf[f] \in v.module_results[k].modules /\ Computed(v)
  BY <1>1, EnsureOrders DEF Sound
<1> HIDE DEF v, k
<1>4. k \in Dirs
  BY <1>3 DEF Cached
<1>5. ASSUME skip = {} PROVE v.module_results[k] = analyse(k, s.open_texts)
  BY <1>2, <1>3, <1>5, FreshIsCurrent
<1> QED
  BY <1>2, <1>3, <1>4, <1>5 DEF Sound, v, k

-----------------------------------------------------------------------------
(* What a bundle says of a file it covers. *)

\* A closure contains its root and is closed under the imports of its members; a directory of it
\* has its own closure in it, whichever root the imports are resolved from.
LEMMA ClosureContains ==
  ASSUME SameFromAnyRoot, NEW i \in [Dirs -> SUBSET Names], NEW k \in Dirs,
         NEW d \in Closure(Dirs, i, {k}, k)
  PROVE  /\ d \in Dirs /\ d \in Closure(Dirs, i, {d}, d)
         /\ Targets(Dirs, i, d, d) \subseteq Closure(Dirs, i, {d}, d)
         /\ Closure(Dirs, i, {d}, d) \subseteq Closure(Dirs, i, {k}, k)
<1> DEFINE C(r) == Closure(Dirs, i, {r}, r)
           T(e, r) == Targets(Dirs, i, e, r)
<1>1. ASSUME NEW e \in Dirs, NEW r \in Dirs PROVE T(e, r) \subseteq Dirs
  BY FoundExists DEF Targets
<1>2. \A r \in Dirs : C(r) = {e \in Dirs : \A S \in SUBSET Dirs :
                                {r} \subseteq S /\ (\A x \in S : T(x, r) \subseteq S) => e \in S}
  BY DEF Closure
<1>3. ASSUME NEW e \in Dirs, NEW q \in Dirs, NEW r \in Dirs PROVE T(e, q) = T(e, r)
  <2>1. i[e] \subseteq Names
    OBVIOUS
  <2>2. \A n \in i[e] : resolve_import_path(Dirs, e, n, q) = resolve_import_path(Dirs, e, n, r)
    BY <2>1 DEF SameFromAnyRoot
  <2> QED
    BY <2>2 DEF Targets
<1> HIDE DEF C, T
<1>4. d \in Dirs /\ d \in C(k)
  BY DEF Closure, C
<1>5. d \in C(d)
  BY <1>2, <1>4
<1>6. ASSUME NEW r \in Dirs, NEW e \in C(r) PROVE T(e, r) \subseteq C(r)
  BY <1>1, <1>2
<1>7. C(k) \in SUBSET Dirs /\ \A x \in C(k) : T(x, d) \subseteq C(k)
  BY <1>2, <1>3, <1>4, <1>6
<1>8. C(d) \subseteq C(k)
  BY <1>2, <1>4, <1>7
<1>9. T(d, d) \subseteq C(d)
  BY <1>4, <1>5, <1>6
<1> QED
  BY <1>4, <1>5, <1>8, <1>9 DEF C, T

\* A file has an error in a bundle that covers it exactly if it has one by an analysis of its
\* own directory, and that analysis covers nothing the bundle does not.
LEMMA SameErrors ==
  ASSUME TypeOK, exists = Dirs, SameFromAnyRoot, NEW k \in Dirs, NEW f \in Files,
         NEW ot \in [Files -> Texts \cup {NoText}], DirOf[f] \in analyse(k, ot).modules
  PROVE  /\ f \in analyse(k, ot).diagnostics <=> f \in analyse(DirOf[f], ot).diagnostics
         /\ analyse(DirOf[f], ot).modules \subseteq analyse(k, ot).modules
<1> DEFINE d == DirOf[f]
           i == [e \in Dirs |-> ImportsOf(ot, e)]
           m(r) == Closure(Dirs, i, {r}, r)
           t(r) == [g \in Files |-> IF DirOf[g] \in m(r) THEN Seen(ot, g) ELSE NoText]
           miss(r) == \E n \in Imports[t(r)[f]] :
                        ~Declared(t(r), resolve_import_path(Dirs, d, n, r))
           all == [g \in Files |-> Seen(ot, g)]
<1>1. ASSUME NEW r \in Dirs
      PROVE  /\ analyse(r, ot).modules = m(r)
             /\ f \in analyse(r, ot).diagnostics <=> t(r)[f] # NoText /\ (t(r)[f] \in Bad \/ miss(r))
  BY Zenon DEF analyse
<1>2. d \in Dirs /\ all \in [Files -> Texts \cup {NoText}]
  BY FilesAssumption DEF Seen, TypeOK
<1>3. i \in [Dirs -> SUBSET Names]
  <2>1. \A e \in Dirs : ImportsOf(ot, e) = TextImports(all, e)
    BY Zenon DEF ImportsOf, TextImports
  <2> HIDE DEF all
  <2> QED
    BY <1>2, <2>1, TextImportsNames
<1>4. d \in m(k)
  BY <1>1, Zenon
<1> HIDE DEF i
<1>5. d \in m(d) /\ Targets(Dirs, i, d, d) \subseteq m(d) /\ m(d) \subseteq m(k)
  BY <1>3, <1>4, ClosureContains, Zenon
<1>6. t(k)[f] = Seen(ot, f) /\ t(d)[f] = Seen(ot, f)
  BY <1>4, <1>5
<1>7. ASSUME Seen(ot, f) # NoText, NEW n \in Imports[Seen(ot, f)]
      PROVE  Declared(t(k), resolve_import_path(Dirs, d, n, k))
               <=> Declared(t(d), resolve_import_path(Dirs, d, n, d))
  <2> DEFINE x == resolve_import_path(Dirs, d, n, d)
  <2>1. n \in Names /\ n \in i[d]
    <3>1. n \in i[d]
      BY <1>2, <1>7 DEF i, ImportsOf
    <3> QED
      BY <1>2, <1>3, <3>1
  <2>2. resolve_import_path(Dirs, d, n, k) = x
    BY <1>2, <2>1 DEF SameFromAnyRoot
  <2>3. x = NoDir \/ x \in m(d)
    BY <1>5, <2>1 DEF Targets
  <2>4. NoDir \notin Dirs
    BY DirsAssumption
  <2> HIDE DEF x, m
  <2>5. \A g \in Files : DirOf[g] = x => t(k)[g] = t(d)[g]
    BY <1>5, <2>3, <2>4, FilesAssumption
  <2>6. Declared(t(k), x) <=> Declared(t(d), x)
    BY <2>5 DEF Declared
  <2> QED
    BY <2>2, <2>6 DEF x
<1>8. Seen(ot, f) # NoText => (miss(k) <=> miss(d))
  <2> HIDE DEF t
  <2> QED
    BY <1>6, <1>7
<1> HIDE DEF m, t, miss
<1> QED
  BY <1>1, <1>2, <1>5, <1>6, <1>8

-----------------------------------------------------------------------------
(* A round, and the rounds of a close. *)

\* An analysis sees the buffers, the disk and nothing else of the state.
LEMMA SameAnalysis ==
  ASSUME NEW ot, disk' = disk, exists' = exists, store'.open_texts = ot, NEW r
  PROVE  analyse(r, store.open_texts)' = analyse(r, ot)
<1>1. ASSUME NEW g PROVE Seen(store.open_texts, g)' = Seen(ot, g)
  BY DEF Seen
<1>2. ASSUME NEW d PROVE ImportsOf(store.open_texts, d)' = ImportsOf(ot, d)
  BY <1>1 DEF ImportsOf
<1>3. [d \in Dirs |-> ImportsOf(store.open_texts, d)]' = [d \in Dirs |-> ImportsOf(ot, d)]
  BY <1>2
<1> QED
  BY <1>1, <1>3 DEF analyse

\* A round for f from a sound store: the store stays sound, and every file whose squiggles it
\* changes, f among them, then shows exactly whether it has errors.
LEMMA RoundTells ==
  ASSUME TypeOK, exists = Dirs, SameFromAnyRoot, NEW s, NEW skip, Sound(s, skip), NEW f \in Files,
         do_publish_diagnostics(s, f), disk' = disk, exists' = exists
  PROVE  /\ Sound(store', skip) /\ store'.open_texts = s.open_texts
         /\ skip = {} => /\ Accurate(f)'
                         /\ \A g \in Files : (g \in shown <=> g \in shown') \/ Accurate(g)'
                         /\ \A g \in Files : DirOf[g] \in analyse(DirOf[f], s.open_texts).modules
                              => (HasErrors(g)' => g \in shown')
<1> DEFINE v == ensure_analysed(s, f)
           k == KeyFor(s, f)
           result == v.module_results[k]
           clean == became_clean(result.diagnostics, result.modules)
           ot == s.open_texts
<1>1. store' = v /\ shown' = (shown \ (clean \cup {f})) \cup result.diagnostics
  BY DEF do_publish_diagnostics, Published
<1>2. /\ Sound(v, skip) /\ v.open_texts = ot /\ k \in Dirs /\ k \in Cached(v)
      /\ DirOf[f] \in result.modules
      /\ skip = {} => result = analyse(k, ot)
  BY EnsureSound
<1>3. clean = {g \in tracked : DirOf[g] \in result.modules /\ g \notin result.diagnostics}
  BY DEF became_clean
<1>4. ot \in [Files -> Texts \cup {NoText}]
  BY DEF Sound, Good, Stores
<1> HIDE DEF v, k, clean, result, ot
<1>5. ASSUME NEW g PROVE HasErrors(g)' <=> g \in analyse(DirOf[g], ot).diagnostics
  <2>1. store'.open_texts = ot /\ disk' = disk /\ exists' = exists
    BY <1>1, <1>2
  <2> QED
    BY <2>1, SameAnalysis DEF HasErrors
<1>6. ASSUME skip = {}
      PROVE  /\ Accurate(f)'
             /\ \A g \in Files : (g \in shown <=> g \in shown') \/ Accurate(g)'
             /\ \A g \in Files : DirOf[g] \in analyse(DirOf[f], ot).modules
                                    => (HasErrors(g)' => g \in shown')
  <2>1. result = analyse(k, ot)
    BY <1>2, <1>6
  <2>2. ASSUME NEW g \in Files, DirOf[g] \in result.modules
        PROVE  /\ g \in result.diagnostics <=> HasErrors(g)'
               /\ analyse(DirOf[g], ot).modules \subseteq result.modules
    BY <1>2, <1>4, <1>5, <2>1, <2>2, SameErrors
  <2>3. \A g \in result.diagnostics : g \in Files /\ DirOf[g] \in result.modules
    BY <2>1 DEF analyse
  <2>4. Accurate(f)'
    BY <1>1, <1>2, <2>2 DEF Accurate
  <2>5. ASSUME NEW g \in Files, ~ (g \in shown <=> g \in shown') PROVE Accurate(g)'
    <3>1. CASE g \in shown'
      BY <1>1, <2>2, <2>3, <2>5, <3>1 DEF Accurate
    <3>2. CASE g \notin shown'
      <4>1. g \notin result.diagnostics /\ DirOf[g] \in result.modules
        BY <1>1, <1>2, <1>3, <2>5, <3>2
      <4> QED
        BY <2>2, <3>2, <4>1 DEF Accurate
    <3> QED
      BY <3>1, <3>2
  <2>6. ASSUME NEW g \in Files, DirOf[g] \in analyse(DirOf[f], ot).modules, HasErrors(g)'
        PROVE  g \in shown'
    <3>1. DirOf[g] \in result.modules
      BY <1>2, <2>2, <2>6
    <3> QED
      BY <1>1, <2>2, <2>6, <3>1
  <2> QED
    BY <2>4, <2>5, <2>6
<1> QED
  BY <1>1, <1>2, <1>6 DEF ot

\* The analyses of a close, one open document after the other, keep the store sound.
LEMMA CloseRoundsSound ==
  ASSUME TypeOK, exists = Dirs, NEW s, NEW skip, Sound(s, skip), NEW f, NEW n \in Nat,
         NEW order \in [1 .. n -> Files]
  PROVE  LET r == closure_diagnostics_for(s, f, order)
         IN  Sound(r.store, skip) /\ r.store.open_texts = s.open_texts
<1> DEFINE solved(m) == \E g : g = [k \in 0 .. m |-> IF k = 0 THEN s ELSE ensure_analysed(g[k - 1], order[k])]
           S == {m \in Nat : ~ solved(m)}
<1>1. ASSUME S # {} PROVE FALSE
  <2>1. PICK x : x \in S /\ \A y \in S : x <= y
    <3>1. S \subseteq Nat
      BY Zenon
    <3> HIDE DEF S
    <3> QED
      BY <1>1, <3>1, LeastNumber, Zenon
  <2>2. solved(0)
    <3> DEFINE g == [k \in 0 .. 0 |-> s]
    <3>1. g = [k \in 0 .. 0 |-> IF k = 0 THEN s ELSE ensure_analysed(g[k - 1], order[k])]
      OBVIOUS
    <3> QED
      BY <3>1, Zenon
  <2>3. x \in Nat /\ x - 1 \in Nat /\ solved(x - 1)
    <3> HIDE DEF solved
    <3>1. x \in Nat /\ x # 0
      BY <2>1, <2>2
    <3>2. x - 1 \in Nat /\ ~ (x <= x - 1)
      BY <3>1
    <3> QED
      BY <2>1, <3>1, <3>2
  <2>4. PICK g : g = [k \in 0 .. x - 1 |-> IF k = 0 THEN s ELSE ensure_analysed(g[k - 1], order[k])]
    BY <2>3
  <2> DEFINE h == [k \in 0 .. x |-> IF k = x THEN ensure_analysed(g[x - 1], order[x]) ELSE g[k]]
  <2>5. ASSUME NEW k \in 0 .. x
        PROVE  h[k] = IF k = 0 THEN s ELSE ensure_analysed(h[k - 1], order[k])
    <3>1. CASE k = x
      <4>1. x - 1 \in 0 .. x /\ x - 1 # x /\ x # 0
        BY <2>3
      <4>2. h[x - 1] = g[x - 1] /\ h[x] = ensure_analysed(g[x - 1], order[x])
        BY <2>3, <4>1
      <4> QED
        BY <3>1, <4>1, <4>2, Zenon
    <3>2. CASE k # x
      <4>1. k \in 0 .. x - 1 /\ h[k] = g[k] /\ (k # 0 => h[k - 1] = g[k - 1])
        BY <2>3, <3>2
      <4> QED
        BY <2>4, <4>1, Zenon
    <3> QED
      BY <3>1, <3>2
  <2>6. h = [k \in 0 .. x |-> h[k]]
    OBVIOUS
  <2>7. h = [k \in 0 .. x |-> IF k = 0 THEN s ELSE ensure_analysed(h[k - 1], order[k])]
    <3> HIDE DEF h
    <3> QED
      BY <2>5, <2>6, Zenon
  <2>8. solved(x)
    <3> HIDE DEF h
    <3> QED
      BY <2>7, Zenon
  <2> QED
    <3> HIDE DEF solved
    <3> QED
      BY <2>1, <2>8
<1> DEFINE P(g) == g = [k \in 0 .. n |-> IF k = 0 THEN s ELSE ensure_analysed(g[k - 1], order[k])]
           after == CHOOSE g : P(g)
           sound(i) == Sound(after[i], skip) /\ after[i].open_texts = s.open_texts
           T == {i \in 0 .. n : ~ sound(i)}
<1>2. P(after)
  <2>1. \E g : P(g)
    BY <1>1, Zenon
  <2> QED
    BY <2>1, Zenon
<1>3. Len(order) = n
  OBVIOUS
<1> DEFINE hits == {i \in 1 .. n : f \in after[i].module_results[KeyFor(after[i - 1], order[i])].diagnostics}
           first == CHOOSE i \in hits : \A j \in hits : i <= j
<1>4. closure_diagnostics_for(s, f, order) =
        IF hits = {} THEN [store |-> after[n], nonempty |-> FALSE]
        ELSE [store |-> after[first], nonempty |-> TRUE]
  BY <1>3 DEF closure_diagnostics_for
<1> HIDE DEF after
<1>5. after[0] = s /\ \A k \in 1 .. n : after[k] = ensure_analysed(after[k - 1], order[k])
  BY <1>2
<1> HIDE DEF P
<1>6. ASSUME T # {} PROVE FALSE
  <2>1. PICK x : x \in T /\ \A y \in T : x <= y
    <3>1. T \subseteq Nat
      OBVIOUS
    <3> HIDE DEF T
    <3> QED
      BY <1>6, <3>1, LeastNumber, Zenon
  <2>2. x # 0
    BY <1>5, <2>1
  <2>3. x \in 1 .. n /\ x - 1 \in 0 .. n /\ ~ (x <= x - 1)
    BY <2>1, <2>2
  <2>4. sound(x - 1)
    BY <2>1, <2>3
  <2>5. sound(x)
    BY <1>5, <2>3, <2>4, EnsureSound
  <2> QED
    BY <2>1, <2>5
<1>7. \A i \in 0 .. n : sound(i)
  BY <1>6
<1>8. PICK i \in 0 .. n : closure_diagnostics_for(s, f, order).store = after[i]
  <2>1. CASE hits = {}
    BY <1>4, <2>1
  <2>2. CASE hits # {}
    <3>1. hits \subseteq 1 .. n /\ hits \subseteq Nat
      OBVIOUS
    <3> HIDE DEF hits
    <3>2. \E i \in hits : \A j \in hits : i <= j
      BY <2>2, <3>1, LeastNumber, Zenon
    <3>3. first \in hits
      BY <3>2
    <3> HIDE DEF first
    <3> QED
      BY <1>4, <2>2, <3>1, <3>3
  <2> QED
    BY <2>1, <2>2
<1> QED
  BY <1>7, <1>8

-----------------------------------------------------------------------------
(* The specification. *)

\* The store is sound but for the disk changes the client has not reported.
DiagInv == TypeOK /\ exists = Dirs /\ Sound(store, unnotified)

LEMMA SoundKept ==
  ASSUME exists' = exists, NEW s, NEW skip, Sound(s, skip),
         NEW more, \A f \in Files : f \in more \/ (f \notin skip /\ disk'[f] = disk[f])
  PROVE  Sound(s, more)'
<1>1. FreshBut(s, more)'
  BY DEF Sound, FreshBut, Seen, Cached
<1>2. ASSUME NEW k, NEW b, OfItsTexts(k, b) PROVE OfItsTexts(k, b)'
  BY <1>2 DEF OfItsTexts, Reported
<1>3. Computed(s)'
  BY <1>2 DEF Sound, Computed, Cached
<1>4. (Good(s) /\ Ordered(s))'
  BY DEF Sound, Good, Exact, Ordered, Stores, Cached, Bundles
<1> QED
  BY <1>1, <1>3, <1>4 DEF Sound

\* A step that leaves the disk alone and makes the store sound again.
LEMMA SoundStep ==
  ASSUME DiagInv, disk' = disk, exists' = exists, unnotified' \subseteq unnotified,
         Sound(store', unnotified')
  PROVE  DiagInv'
<1>1. PICK t, skip : t = store' /\ skip = unnotified'
  OBVIOUS
<1>2. Sound(t, skip)'
  BY <1>1, SoundKept
<1>3. Sound(store, unnotified)'
  BY <1>1, <1>2 DEF Sound, Good, Exact, FreshBut, Ordered, Computed, Stores
<1>4. TypeOK'
  BY <1>1 DEF DiagInv, TypeOK, Sound, Good
<1> QED
  BY <1>3, <1>4 DEF DiagInv

LEMMA InitDiag ==
  ASSUME Absent = {}
  PROVE  DiagInit => DiagInv
<1> SUFFICES ASSUME DiagInit PROVE DiagInv
  OBVIOUS
<1>1. ComputedInv
  BY InitComputed DEF DiagInit
<1>2. TypeOK /\ Good(store) /\ FreshBut(store, unnotified)
  BY <1>1, Restate DEF ComputedInv, OrderInv
<1> QED
  BY <1>1, <1>2 DEF DiagInv, Sound, ComputedInv, OrderInv

\* What each task does to the store and to what is shown.
Told(f) ==
  /\ Accurate(f)'
  /\ \A g \in Files : (g \in shown <=> g \in shown') \/ Accurate(g)'
  /\ \A g \in CoveredBy(f)' : HasErrors(g)' => g \in shown'

LEMMA RoundStep ==
  ASSUME DiagInv, SameFromAnyRoot, NEW f \in Files, SweepDue(f) \/ \E t \in Texts : DidOpen(f, t)
  PROVE  DiagInv' /\ (unnotified = {} => Told(f))
<1>1. UNCHANGED env
  BY DEF SweepDue, DidOpen
<1>2. disk' = disk /\ exists' = exists /\ unnotified' = unnotified
  BY <1>1 DEF env
<1>3. PICK s : Sound(s, unnotified) /\ do_publish_diagnostics(s, f)
  <2>1. CASE SweepDue(f)
    BY <2>1 DEF SweepDue, DiagInv
  <2>2. CASE \E t \in Texts : DidOpen(f, t)
    BY <2>2, OpenSound, Zenon DEF DidOpen, DiagInv
  <2> QED
    BY <2>1, <2>2
<1>4. /\ Sound(store', unnotified) /\ store'.open_texts = s.open_texts
      /\ unnotified = {} =>
           /\ Accurate(f)'
           /\ \A g \in Files : (g \in shown <=> g \in shown') \/ Accurate(g)'
           /\ \A g \in Files : DirOf[g] \in analyse(DirOf[f], s.open_texts).modules
                => (HasErrors(g)' => g \in shown')
  BY <1>2, <1>3, RoundTells DEF DiagInv
<1>5. CoveredBy(f)' = {g \in Files : DirOf[g] \in analyse(DirOf[f], s.open_texts).modules}
  <2>1. store'.open_texts = s.open_texts /\ disk' = disk /\ exists' = exists
    BY <1>2, <1>4
  <2> QED
    BY <2>1, SameAnalysis DEF CoveredBy
<1>6. DiagInv'
  BY <1>2, <1>4, SoundStep
<1> QED
  BY <1>4, <1>5, <1>6 DEF Told

LEMMA CloseStep ==
  ASSUME DiagInv, NEW f \in Files, DidClose(f)
  PROVE  /\ DiagInv' /\ disk' = disk /\ exists' = exists /\ unnotified' = unnotified
         /\ pending' = pending /\ store'.open_texts = [store.open_texts EXCEPT ![f] = NoText]
         /\ \A g \in Files : g # f => (g \in shown <=> g \in shown')
<1> DEFINE s == close(store, f)
<1>1. UNCHANGED <<env, pending>>
  BY DEF DidClose
<1>2. disk' = disk /\ exists' = exists /\ unnotified' = unnotified /\ pending' = pending
  BY <1>1 DEF env
<1>3. Sound(s, unnotified) /\ s.open_texts = [store.open_texts EXCEPT ![f] = NoText]
  BY CloseSound DEF DiagInv
<1>4. PICK order \in Bijection(1 .. Cardinality(open_paths(s)), open_paths(s)) :
        LET r == closure_diagnostics_for(s, f, order)
        IN /\ store' = r.store
           /\ shown' = IF r.nonempty THEN shown \cup {f} ELSE shown \ {f}
           /\ tracked' = pruned(r.store)
  BY DEF DidClose
<1>5. PICK n \in Nat : order \in [1 .. n -> Files]
  <2> DEFINE n == Cardinality(open_paths(s))
  <2>1. order \in [1 .. n -> Files]
    BY <1>4 DEF Bijection, Injection, open_paths
  <2>2. open_paths(s) \subseteq Files
    BY DEF open_paths
  <2>3. n \in Nat
    BY <2>2, UserAssumption, FS_Subset, FS_CardinalityType
  <2> HIDE DEF n
  <2> QED
    BY <2>1, <2>3
<1> DEFINE r == closure_diagnostics_for(s, f, order)
<1>6. /\ store' = r.store /\ \A g \in Files : g # f => (g \in shown <=> g \in shown')
  BY <1>4
<1> HIDE DEF s
<1>7. Sound(r.store, unnotified) /\ r.store.open_texts = s.open_texts
  BY <1>3, <1>5, CloseRoundsSound DEF DiagInv
<1> HIDE DEF r
<1>8. DiagInv'
  BY <1>2, <1>6, <1>7, SoundStep
<1> QED
  BY <1>2, <1>3, <1>6, <1>7, <1>8

\* The other tasks publish nothing; what they do to the buffers and the waiting documents.
LEMMA QuietTask ==
  ASSUME DiagInv, NEW f \in Files,
         \/ DidChangeWatchedFiles(f) \/ Request(f)
         \/ \E t \in Texts : DidChange(f, t)
         \/ \E t \in Texts \cup {NoText} : EditOnDisk(f, t)
  PROVE  DiagInv' /\ shown' = shown
<1>1. CASE DidChangeWatchedFiles(f)
  <2>1. /\ disk' = disk /\ exists' = exists /\ unnotified' = unnotified \ {f} /\ shown' = shown
        /\ store' = invalidate_external(store, f)
    BY <1>1 DEF DidChangeWatchedFiles
  <2>2. Sound(store', unnotified')
    BY <2>1, WatchedSound DEF DiagInv
  <2> QED
    BY <2>1, <2>2, SoundStep
<1>2. CASE Request(f)
  <2>1. /\ disk' = disk /\ exists' = exists /\ unnotified' = unnotified /\ shown' = shown
        /\ store' = ensure_analysed(store, f)
    BY <1>2 DEF Request, env
  <2>2. Sound(store', unnotified')
    BY <2>1, EnsureSound DEF DiagInv
  <2> QED
    BY <2>1, <2>2, SoundStep
<1>3. ASSUME NEW t \in Texts, DidChange(f, t) PROVE DiagInv' /\ shown' = shown
  <2>1. /\ disk' = disk /\ exists' = exists /\ unnotified' = unnotified /\ shown' = shown
        /\ store' = open(store, f, t)
    BY <1>3 DEF DidChange, env
  <2>2. Sound(store', unnotified')
    BY <2>1, OpenSound, Zenon DEF DiagInv
  <2> QED
    BY <2>1, <2>2, SoundStep
<1>4. ASSUME NEW t \in Texts \cup {NoText}, EditOnDisk(f, t) PROVE DiagInv' /\ shown' = shown
  <2>1. /\ disk' = [disk EXCEPT ![f] = t] /\ unnotified' = unnotified \cup {f}
        /\ shown' = shown /\ store' = store
        /\ exists' = IF t = NoText THEN exists ELSE exists \cup {DirOf[f]}
    BY <1>4 DEF EditOnDisk, DiskChange
  <2>2. exists' = exists
    BY <2>1, FilesAssumption DEF DiagInv
  <2>3. PICK s, skip, more : s = store /\ skip = unnotified /\ more = unnotified \cup {f}
    BY Zenon
  <2>4. \A g \in Files : g \in more \/ (g \notin skip /\ disk'[g] = disk[g])
    BY <2>1, <2>3 DEF DiagInv, TypeOK
  <2>5. Sound(s, more)'
    BY <2>2, <2>3, <2>4, SoundKept DEF DiagInv
  <2>6. Sound(store, unnotified)'
    BY <2>1, <2>3, <2>5 DEF Sound, Good, Exact, FreshBut, Ordered, Computed, Stores
  <2>7. TypeOK'
    BY <2>1, <2>2 DEF DiagInv, TypeOK
  <2> QED
    BY <2>1, <2>2, <2>6, <2>7 DEF DiagInv
<1> QED
  BY <1>1, <1>2, <1>3, <1>4

LEMMA NextDiag ==
  ASSUME SameFromAnyRoot, DiagInv, [DiagNext]_diagVars
  PROVE  DiagInv'
<1>1. CASE UNCHANGED diagVars
  <2>1. disk' = disk /\ exists' = exists /\ unnotified' = unnotified /\ store' = store
    BY <1>1 DEF diagVars, env
  <2> QED
    BY <2>1, SoundStep DEF DiagInv
<1> QED
  BY <1>1, RoundStep, CloseStep, QuietTask, Zenon DEF DiagNext

\* With every disk change reported, a round works from current bundles whatever was cached,
\* evicted or invalidated before it: the document it is for then shows exactly whether it has
\* errors, and so does each file of its closure that has some.
THEOREM RoundsAlwaysAccurate ==
  ASSUME Absent = {}, SameFromAnyRoot
  PROVE  DiagSpec => RoundsAreAccurate
<1> DEFINE A == \A f \in Files :
                  unnotified = {} /\ (SweepDue(f) \/ \E t \in Texts : DidOpen(f, t)) =>
                    Accurate(f)' /\ (\A g \in CoveredBy(f) : HasErrors(g) => g \in shown)'
<1>1. DiagInv /\ [DiagNext]_diagVars => [A]_diagVars
  <2> SUFFICES ASSUME DiagInv PROVE A
    OBVIOUS
  <2> QED
    BY RoundStep DEF Told
<1>2. DiagInv /\ [DiagNext]_diagVars => DiagInv'
  BY NextDiag
<1>3. DiagInit => DiagInv
  BY InitDiag
<1> QED
  BY <1>1, <1>2, <1>3, PTL DEF DiagSpec, RoundsAreAccurate

\* With every disk change reported, no task makes a file's squiggles appear or go against the
\* truth, except for the file a didClose is about.
THEOREM OnlyTruthEverPublished ==
  ASSUME Absent = {}, SameFromAnyRoot
  PROVE  DiagSpec => OnlyTruthPublished
<1> DEFINE A == unnotified = {} =>
                  \A f \in Files : (f \in shown <=> f \in shown') \/ Accurate(f)' \/ (IsOpen(f) /\ ~IsOpen(f)')
<1>1. DiagInv /\ [DiagNext]_diagVars => [A]_diagVars
  <2> SUFFICES ASSUME DiagInv, DiagNext PROVE A
    OBVIOUS
  <2>1. ASSUME NEW f \in Files, SweepDue(f) \/ \E t \in Texts : DidOpen(f, t) PROVE A
    BY <2>1, RoundStep DEF Told
  <2>2. ASSUME NEW f \in Files, DidClose(f) PROVE A
    <3>1. /\ store'.open_texts = [store.open_texts EXCEPT ![f] = NoText]
          /\ \A g \in Files : g # f => (g \in shown <=> g \in shown')
      BY <2>2, CloseStep
    <3>2. IsOpen(f)
      BY <2>2 DEF DidClose
    <3>3. store'.open_texts[f] = NoText
      BY <3>1 DEF DiagInv, TypeOK, Stores
    <3>4. ~ IsOpen(f)'
      BY <3>3 DEF IsOpen
    <3> QED
      BY <3>1, <3>2, <3>4
  <2>3. ASSUME NEW f \in Files,
               \/ DidChangeWatchedFiles(f) \/ Request(f)
               \/ \E t \in Texts : DidChange(f, t)
               \/ \E t \in Texts \cup {NoText} : EditOnDisk(f, t)
        PROVE  A
    BY <2>3, QuietTask
  <2> QED
    BY <2>1, <2>2, <2>3 DEF DiagNext
<1>2. DiagInv /\ [DiagNext]_diagVars => DiagInv'
  BY NextDiag
<1>3. DiagInit => DiagInv
  BY InitDiag
<1> QED
  BY <1>1, <1>2, <1>3, PTL DEF DiagSpec, OnlyTruthPublished

-----------------------------------------------------------------------------
(* One document. *)

OneInv == DiagInv /\ open_paths(store) \subseteq Openable /\ OpenDocumentsAccurate

\* A task that touches no text, on disk or in the editor, changes no file's errors.
LEMMA SameStore ==
  ASSUME disk' = disk, exists' = exists, store'.open_texts = store.open_texts
  PROVE  open_paths(store)' = open_paths(store) /\ \A g : HasErrors(g)' <=> HasErrors(g)
<1>1. PICK ot : ot = store.open_texts
  OBVIOUS
<1>2. ASSUME NEW g PROVE HasErrors(g)' <=> HasErrors(g)
  BY <1>1, SameAnalysis DEF HasErrors
<1> QED
  BY <1>2 DEF open_paths

LEMMA NextOne ==
  ASSUME SameFromAnyRoot, \A f, g \in Openable : f = g, OneInv, [DiagNext]_diagVars
  PROVE  OneInv'
<1>1. DiagInv /\ DiagInv' /\ open_paths(store) \subseteq Openable
  BY NextDiag DEF OneInv
<1>2. store.open_texts \in [Files -> Texts \cup {NoText}] /\ NoText \notin Texts
  BY <1>1, FilesAssumption DEF DiagInv, TypeOK, Stores
<1>3. ASSUME unnotified' = unnotified, disk' = disk, exists' = exists,
             store'.open_texts = store.open_texts, shown' = shown, pending' = pending
      PROVE  OneInv'
  BY <1>1, <1>3, SameStore DEF OneInv, OpenDocumentsAccurate, Accurate
<1>4. ASSUME NEW f \in Files, SweepDue(f) PROVE OneInv'
  <2>1. /\ disk' = disk /\ exists' = exists /\ unnotified' = unnotified /\ pending' = pending \ {f}
        /\ store' = ensure_analysed(store, f)
    BY <1>4 DEF SweepDue, env, do_publish_diagnostics
  <2>2. store'.open_texts = store.open_texts
    BY <1>1, <2>1, EnsureSound DEF DiagInv
  <2>3. open_paths(store)' = open_paths(store) /\ \A g : HasErrors(g)' <=> HasErrors(g)
    BY <2>1, <2>2, SameStore
  <2>4. ASSUME unnotified' = {}, NEW g \in open_paths(store)' \ pending' PROVE Accurate(g)'
    <3>1. g \in Files /\ g \in open_paths(store) /\ (g = f \/ g \notin pending)
      BY <2>1, <2>3, <2>4 DEF open_paths
    <3>2. Told(f)
      BY <1>1, <1>4, <2>1, <2>4, RoundStep
    <3>3. CASE g = f
      BY <3>2, <3>3 DEF Told
    <3>4. CASE g \notin pending
      <4>1. Accurate(g)
        BY <2>1, <2>4, <3>1, <3>4 DEF OneInv, OpenDocumentsAccurate
      <4> QED
        BY <2>3, <3>1, <3>2, <4>1 DEF Told, Accurate
    <3> QED
      BY <3>1, <3>3, <3>4
  <2> QED
    BY <1>1, <2>3, <2>4 DEF OneInv, OpenDocumentsAccurate
<1>5. ASSUME NEW f \in Files, NEW t \in Texts, DidOpen(f, t) PROVE OneInv'
  <2>1. /\ disk' = disk /\ exists' = exists /\ unnotified' = unnotified /\ f \in Openable
        /\ store' = ensure_analysed(open(store, f, t), f)
    BY <1>5, Zenon DEF DidOpen, env, do_publish_diagnostics
  <2>2. store'.open_texts = [store.open_texts EXCEPT ![f] = t]
    BY <1>1, <2>1, OpenSound, EnsureSound DEF DiagInv
  <2>3. open_paths(store)' \subseteq Openable
    BY <1>1, <1>2, <2>1, <2>2 DEF open_paths
  <2>4. ASSUME unnotified' = {}, NEW g \in open_paths(store)' \ pending' PROVE Accurate(g)'
    <3>1. g = f
      BY <2>1, <2>3
    <3>2. Told(f)
      BY <1>1, <1>5, <2>1, <2>4, RoundStep
    <3> QED
      BY <3>1, <3>2 DEF Told
  <2> QED
    BY <1>1, <2>3, <2>4 DEF OneInv, OpenDocumentsAccurate
<1>6. ASSUME NEW f \in Files, NEW t \in Texts, DidChange(f, t) PROVE OneInv'
  <2>1. f \in Openable /\ store' = open(store, f, t) /\ f \in pending'
    BY <1>1, <1>6 DEF DidChange, IsOpen, open_paths, Schedule
  <2>2. store'.open_texts = [store.open_texts EXCEPT ![f] = t]
    BY <1>1, <2>1, OpenSound DEF DiagInv
  <2>3. open_paths(store)' \subseteq Openable
    BY <1>1, <1>2, <2>1, <2>2 DEF open_paths
  <2>4. open_paths(store)' \ pending' = {}
    BY <2>1, <2>3
  <2> QED
    BY <1>1, <2>3, <2>4 DEF OneInv, OpenDocumentsAccurate
<1>7. ASSUME NEW f \in Files, DidClose(f) PROVE OneInv'
  <2>1. f \in Openable /\ store'.open_texts = [store.open_texts EXCEPT ![f] = NoText]
    BY <1>1, <1>7, CloseStep, Zenon DEF DidClose, IsOpen, open_paths
  <2>2. open_paths(store)' \subseteq Openable /\ f \notin open_paths(store)'
    BY <1>1, <1>2, <2>1 DEF open_paths
  <2>3. open_paths(store)' = {}
    BY <2>1, <2>2
  <2> QED
    BY <1>1, <2>3 DEF OneInv, OpenDocumentsAccurate
<1>8. ASSUME NEW f \in Files, DidChangeWatchedFiles(f) PROVE OneInv'
  <2>1. /\ disk' = disk /\ exists' = exists /\ store' = invalidate_external(store, f)
        /\ pending' = pending \cup open_paths(store)
    BY <1>8 DEF DidChangeWatchedFiles, Schedule, Republished
  <2>2. store'.open_texts = store.open_texts
    BY <1>1, <2>1, WatchedSound, Zenon DEF DiagInv
  <2>3. open_paths(store)' = open_paths(store)
    BY <2>1, <2>2, SameStore
  <2> QED
    BY <1>1, <2>1, <2>3 DEF OneInv, OpenDocumentsAccurate
<1>9. ASSUME NEW f \in Files, Request(f) PROVE OneInv'
  <2>1. /\ disk' = disk /\ exists' = exists /\ unnotified' = unnotified /\ pending' = pending
        /\ shown' = shown /\ store' = ensure_analysed(store, f)
    BY <1>9 DEF Request, env
  <2>2. store'.open_texts = store.open_texts
    BY <1>1, <2>1, EnsureSound DEF DiagInv
  <2> QED
    BY <1>3, <2>1, <2>2
<1>10. ASSUME NEW f \in Files, NEW t \in Texts \cup {NoText}, EditOnDisk(f, t) PROVE OneInv'
  <2>1. store' = store /\ unnotified' # {}
    BY <1>10 DEF EditOnDisk, DiskChange
  <2> QED
    BY <1>1, <2>1 DEF OneInv, OpenDocumentsAccurate, open_paths
<1>11. CASE UNCHANGED diagVars
  BY <1>3, <1>11 DEF diagVars, env
<1> QED
  BY <1>4, <1>5, <1>6, <1>7, <1>8, <1>9, <1>10, <1>11 DEF DiagNext

\* While the user has no more than one document to open, that document shows errors exactly if
\* it has some, whenever every disk change is reported and no round is due for it.
THEOREM OneDocumentAccurate ==
  ASSUME Absent = {}, SameFromAnyRoot, \A f, g \in Openable : f = g
  PROVE  DiagSpec => []OpenDocumentsAccurate
<1>1. DiagInit => OneInv
  <2> SUFFICES ASSUME DiagInit PROVE OneInv
    OBVIOUS
  <2>1. open_paths(store) = {}
    BY DEF DiagInit, Init, EmptyStore, open_paths
  <2> QED
    BY <2>1, InitDiag DEF OneInv, OpenDocumentsAccurate
<1>2. OneInv /\ [DiagNext]_diagVars => OneInv'
  BY NextOne
<1>3. OneInv => OpenDocumentsAccurate
  BY DEF OneInv
<1> QED
  BY <1>1, <1>2, <1>3, PTL DEF DiagSpec
=============================================================================
