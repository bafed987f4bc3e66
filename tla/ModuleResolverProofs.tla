------------------------ MODULE ModuleResolverProofs ------------------------
(***************************************************************************)
(* The walk of ast::resolve loads the import closure, in an order that puts  *)
(* importers first, and an ok result is complete: for any directories,       *)
(* search roots, import lists and forced modules.                            *)
(***************************************************************************)
EXTENDS ModuleResolver, WellFoundedInduction, TLAPS

Frames == [dir : Dirs, todo : Seq(Names)]

\* The import strings of a module, as a set.
ImportNames(d) == Elems(imports[d])

Target(d, n) == resolve_import_path(exists, d, n, root)

IType ==
    /\ exists \subseteq Dirs /\ broken \subseteq Dirs
    /\ imports \in [Dirs -> Seq(Names)]
    /\ root \in Dirs /\ stdBad \in BOOLEAN
    /\ forced \in Seq(Names) /\ loaded \in 0 .. Len(forced)
    /\ modules \subseteq Dirs /\ module_order \in Seq(Dirs)
    /\ module_imports \in [Dirs -> SUBSET (Names \X Dirs)]
    /\ ok \in BOOLEAN /\ hasErrors \in BOOLEAN
    /\ stack \in Seq(Frames)
    /\ phase \in {"start", "walk", "done"}

\* Where the walk stands: nothing is loaded before it, the root is loaded during it, and
\* after it no call is active and every forced module was handled.
Progress ==
    /\ phase = "start" => modules = {} /\ stack = <<>> /\ ~hasErrors
    /\ phase = "walk" => root \in exists /\ ~stdBad /\ root \in modules
    /\ phase = "done" => /\ stack = <<>>
                         /\ root \in exists /\ ~stdBad => root \in modules /\ loaded = Len(forced)
    /\ ForcedDirs(loaded) \subseteq modules
    /\ ok => phase = "done" /\ ~hasErrors /\ root \in modules
    /\ \A d \in modules \cap broken : hasErrors

\* An import string is dealt with: its target is loaded and recorded, or it was reported.
Settled(d, n) ==
    IF Target(d, n) = NoDir THEN hasErrors
    ELSE Target(d, n) \in modules /\ <<n, Target(d, n)>> \in module_imports[d]

\* An import string still waits in a frame of its module.
Waiting(d, n) ==
    \E frame \in Elems(stack) : frame.dir = d /\ n \in Elems(frame.todo)

\* No import string of a loaded module is forgotten.
NoneForgotten == \A d \in modules : \A n \in ImportNames(d) : Settled(d, n) \/ Waiting(d, n)

\* A frame belongs to a loaded module and holds only import strings of that module.
FramesKnown ==
    \A frame \in Elems(stack) :
        frame.dir \in modules /\ Elems(frame.todo) \subseteq ImportNames(frame.dir)

\* What is recorded for a module is the resolution of one of its import strings.
ImportsKnown ==
    \A d \in Dirs : \A e \in module_imports[d] :
        /\ d \in modules /\ e[1] \in ImportNames(d)
        /\ e[2] = Target(d, e[1]) /\ e[2] \in modules

\* S contains the starting points of the walk so far and the targets of its members.
Closed(S) ==
    /\ {root} \cup ForcedDirs(loaded) \subseteq S
    /\ \A e \in S : Targets(exists, [d \in Dirs |-> ImportNames(d)], e, root) \subseteq S

\* Nothing is loaded that is not reachable.
OnlyReachable == \A S \in SUBSET Dirs : Closed(S) => modules \subseteq S

\* module_order lists the loaded modules.
OrderListsModules == modules = Elems(module_order)

IInv ==
    /\ IType /\ Progress /\ NoneForgotten /\ FramesKnown /\ ImportsKnown /\ OnlyReachable
    /\ OrderListsModules /\ ImportersComeFirst

-----------------------------------------------------------------------------
(* Sequences as sets. *)

\* Pushing a frame adds it.
LEMMA PushElems ==
  ASSUME NEW S, NEW s \in Seq(S), NEW x \in S
  PROVE  <<x>> \o s \in Seq(S) /\ Elems(<<x>> \o s) = {x} \cup Elems(s)
<1> DEFINE t == <<x>> \o s
<1>1. t \in Seq(S) /\ Len(t) = Len(s) + 1 /\ t[1] = x
  OBVIOUS
<1>2. \A i \in 1 .. Len(s) : t[i + 1] = s[i]
  OBVIOUS
<1>3. \A i \in 1 .. Len(t) : t[i] \in {x} \cup Elems(s)
  <2> TAKE i \in 1 .. Len(t)
  <2>1. CASE i = 1
    BY <1>1, <2>1
  <2>2. CASE i # 1
    <3>1. i - 1 \in 1 .. Len(s) /\ (i - 1) + 1 = i
      BY <1>1, <2>2
    <3> QED
      BY <1>2, <3>1 DEF Elems
  <2> QED
    BY <2>1, <2>2
<1>4. x \in Elems(t)
  BY <1>1 DEF Elems
<1>5. \A i \in 1 .. Len(s) : s[i] \in Elems(t)
  <2> HIDE DEF t
  <2> TAKE i \in 1 .. Len(s)
  <2>1. i + 1 \in DOMAIN t
    BY <1>1
  <2> QED
    BY <1>2, <2>1 DEF Elems
<1> HIDE DEF t
<1>6. Elems(t) \subseteq {x} \cup Elems(s)
  BY <1>1, <1>3 DEF Elems
<1>7. Elems(s) \subseteq Elems(t)
  BY <1>5 DEF Elems
<1> QED
  BY <1>1, <1>4, <1>6, <1>7 DEF t

\* Popping the head leaves the others.
LEMMA PopElems ==
  ASSUME NEW S, NEW s \in Seq(S), s # <<>>
  PROVE  Head(s) \in S /\ Tail(s) \in Seq(S) /\ Elems(s) = {Head(s)} \cup Elems(Tail(s))
<1>1. Head(s) \in S /\ Tail(s) \in Seq(S) /\ s = <<Head(s)>> \o Tail(s)
  OBVIOUS
<1> QED
  BY <1>1, PushElems, Zenon

\* push_back adds its argument.
LEMMA AppendElems ==
  ASSUME NEW S, NEW s \in Seq(S), NEW x \in S
  PROVE  Append(s, x) \in Seq(S) /\ Elems(Append(s, x)) = Elems(s) \cup {x}
<1> DEFINE t == Append(s, x)
<1>1. t \in Seq(S) /\ Len(t) = Len(s) + 1 /\ t[Len(s) + 1] = x /\ \A i \in 1 .. Len(s) : t[i] = s[i]
  OBVIOUS
<1> HIDE DEF t
<1>2. DOMAIN t = 1 .. Len(s) + 1 /\ DOMAIN s = 1 .. Len(s) /\ Len(s) \in Nat
  BY <1>1
<1>3. Elems(t) = Elems(s) \cup {x}
  BY <1>1, <1>2 DEF Elems
<1> QED
  BY <1>1, <1>3 DEF t

-----------------------------------------------------------------------------
(* The search. *)

\* A set of indices has a least one.
LEMMA LeastIndex ==
  ASSUME NEW S, S \subseteq Nat, S # {}
  PROVE  \E x \in S : \A y \in S : x <= y
<1>1. PICK x \in S : \A y \in S : <<y, x>> \notin OpToRel(<, Nat)
  BY NatLessThanWellFounded, WFMin, Zenon
<1>2. \A y \in S : <<y, x>> \notin {ss \in Nat \X Nat : ss[1] < ss[2]}
  BY <1>1 DEF OpToRel
<1>3. \A y \in S : ~(y < x)
  BY <1>2, Zenon
<1> QED
  BY <1>3

\* The search yields a directory that exists, or none.
LEMMA SearchResult ==
  ASSUME IType, NEW d \in Dirs, NEW n \in Names
  PROVE  Target(d, n) \in Dirs \cup {NoDir} /\ (Target(d, n) # NoDir => Target(d, n) \in exists)
<1> DEFINE c == Candidates(d, n, root)
           hits == {i \in 1 .. Len(c) : c[i] \in exists}
<1>1. Target(d, n) = IF hits = {} THEN NoDir ELSE c[CHOOSE i \in hits : \A j \in hits : i <= j]
  BY DEF Target, resolve_import_path
<1>2. hits \subseteq Nat
  OBVIOUS
<1>3. CASE hits = {}
  BY <1>1, <1>3
<1>4. CASE hits # {}
  <2>1. \E i \in hits : \A j \in hits : i <= j
    BY <1>2, <1>4, LeastIndex, Zenon
  <2>2. (CHOOSE i \in hits : \A j \in hits : i <= j) \in hits
    BY <2>1
  <2> QED
    BY <1>1, <1>4, <2>2 DEF IType
<1> QED
  BY <1>3, <1>4

-----------------------------------------------------------------------------
(* The steps. *)

\* What a step may do to what has been built: only add to it.
Grows ==
    /\ UNCHANGED inputs /\ loaded <= loaded'
    /\ modules \subseteq modules' /\ (hasErrors => hasErrors')
    /\ \A d \in Dirs : module_imports[d] \subseteq module_imports'[d]

\* What is settled stays so; the forced modules handled stay handled.
LEMMA GrowsKeeps ==
  ASSUME IType, IType', Grows
  PROVE  /\ \A d \in Dirs, n \in Names : Settled(d, n) => Settled(d, n)'
         /\ \A d \in Dirs : ImportNames(d)' = ImportNames(d)
         /\ \A d \in Dirs, n \in Names : Target(d, n)' = Target(d, n)
         /\ ForcedDirs(loaded) \subseteq ForcedDirs(loaded)'
         /\ \A S : Closed(S)' => Closed(S)
<1>1. /\ \A d \in Dirs : ImportNames(d)' = ImportNames(d)
      /\ \A d, n : Target(d, n)' = Target(d, n)
  BY DEF Grows, inputs, ImportNames, Target
<1>2. \A d \in Dirs, n \in Names : Settled(d, n) => Settled(d, n)'
  BY <1>1 DEF Grows, Settled
<1>3. ForcedDirs(loaded) \subseteq ForcedDirs(loaded)'
  BY DEF Grows, inputs, ForcedDirs, IType
<1>4. ASSUME NEW S, Closed(S)' PROVE Closed(S)
  <2>1. {root} \cup ForcedDirs(loaded) \subseteq S
    BY <1>3, <1>4 DEF Closed, Grows, inputs
  <2>2. ASSUME NEW e \in S
        PROVE  Targets(exists, [d \in Dirs |-> ImportNames(d)], e, root) \subseteq S
    BY <1>4 DEF Closed, Grows, inputs, ImportNames
  <2> QED
    BY <2>1, <2>2 DEF Closed
<1> QED
  BY <1>1, <1>2, <1>3, <1>4

\* The new frame of a module visited for the first time.
NewFrame(d) == [dir |-> d, todo |-> imports[d]]

\* What visit does, whether or not the module was there.
LEMMA VisitEffect ==
  ASSUME IType, OrderListsModules, NEW d \in Dirs, NEW frames \in Seq(Frames),
         NEW errors \in BOOLEAN, visit(d, frames, errors)
  PROVE  /\ modules' = modules \cup {d}
         /\ module_order' \in Seq(Dirs) /\ modules' = Elems(module_order')
         /\ module_order' = IF d \in modules THEN module_order ELSE Append(module_order, d)
         /\ stack' \in Seq(Frames)
         /\ Elems(stack') = Elems(frames) \cup (IF d \in modules THEN {} ELSE {NewFrame(d)})
         /\ hasErrors' = (errors \/ (d \in broken /\ d \notin modules))
<1>1. CASE d \in modules
  <2>1. stack' = frames /\ hasErrors' = errors /\ modules' = modules /\ module_order' = module_order
    BY <1>1 DEF visit, present
  <2> QED
    BY <1>1, <2>1 DEF IType, OrderListsModules
<1>2. CASE d \notin modules
  <2>1. /\ modules' = modules \cup {d} /\ module_order' = Append(module_order, d)
        /\ stack' = <<NewFrame(d)>> \o frames /\ hasErrors' = (errors \/ d \in broken)
    BY <1>2 DEF visit, present, Record, find_import_strings, NewFrame
  <2>2. NewFrame(d) \in Frames
    BY DEF NewFrame, Frames, IType
  <2>3. stack' \in Seq(Frames) /\ Elems(stack') = {NewFrame(d)} \cup Elems(frames)
    BY <2>1, <2>2, PushElems
  <2>4. module_order' \in Seq(Dirs) /\ Elems(module_order') = Elems(module_order) \cup {d}
    BY <2>1, AppendElems DEF IType
  <2> QED
    BY <1>2, <2>1, <2>3, <2>4, Zenon DEF OrderListsModules
<1> QED
  BY <1>1, <1>2

\* A list that grows at its end by a module some earlier entry imports, or by the root or
\* a forced module, still has importers first.
LEMMA OrderExtends ==
  ASSUME IType, IType', Grows, ImportersComeFirst, NEW d \in Dirs,
         module_order' = Append(module_order, d),
         \/ d \in {root} \cup ForcedDirs(loaded)'
         \/ \E e \in Elems(module_order), n \in Names : <<n, d>> \in module_imports'[e]
  PROVE  ImportersComeFirst'
<1>1. /\ Len(module_order') = Len(module_order) + 1 /\ Len(module_order) \in Nat
      /\ module_order'[Len(module_order) + 1] = d
      /\ \A i \in 1 .. Len(module_order) : module_order'[i] = module_order[i]
  BY DEF IType
<1>2. root' = root /\ ForcedDirs(loaded) \subseteq ForcedDirs(loaded)'
  BY GrowsKeeps DEF Grows, inputs
<1>3. ASSUME NEW i \in 1 .. Len(module_order')
      PROVE  \/ module_order'[i] \in {root'} \cup ForcedDirs(loaded)'
             \/ \E j \in 1 .. i - 1, n \in Names :
                   <<n, module_order'[i]>> \in module_imports'[module_order'[j]]
  <2>1. CASE i = Len(module_order) + 1
    <3>1. CASE d \in {root} \cup ForcedDirs(loaded)'
      BY <1>1, <1>2, <2>1, <3>1
    <3>2. CASE \E e \in Elems(module_order), n \in Names : <<n, d>> \in module_imports'[e]
      <4>1. PICK e \in Elems(module_order), n \in Names : <<n, d>> \in module_imports'[e]
        BY <3>2
      <4>2. DOMAIN module_order = 1 .. Len(module_order)
        BY DEF IType
      <4>3. PICK j \in 1 .. Len(module_order) : e = module_order[j]
        BY <4>1, <4>2 DEF Elems
      <4>4. j \in 1 .. i - 1 /\ module_order'[j] = e /\ module_order'[i] = d
        BY <1>1, <2>1, <4>3
      <4> QED
        BY <4>1, <4>4, Zenon
    <3> QED
      BY <3>1, <3>2, Zenon
  <2>2. CASE i \in 1 .. Len(module_order)
    <3>1. CASE module_order[i] \in {root} \cup ForcedDirs(loaded)
      BY <1>1, <1>2, <2>2, <3>1
    <3>2. CASE module_order[i] \notin {root} \cup ForcedDirs(loaded)
      <4>1. PICK j \in 1 .. i - 1, n \in Names : <<n, module_order[i]>> \in module_imports[module_order[j]]
        BY <2>2, <3>2, Zenon DEF ImportersComeFirst
      <4>2. j \in 1 .. Len(module_order)
        BY <1>1, <2>2
      <4>. module_order[j] \in Dirs
        BY <4>2 DEF IType
      <4>3. <<n, module_order'[i]>> \in module_imports'[module_order'[j]]
        BY <1>1, <2>2, <4>1, <4>2 DEF Grows
      <4> QED
        BY <4>3, Zenon
    <3> QED
      BY <3>1, <3>2, Zenon
  <2>3. i = Len(module_order) + 1 \/ i \in 1 .. Len(module_order)
    BY <1>1
  <2> QED
    BY <2>1, <2>2, <2>3, Zenon
<1> QED
  BY <1>3, Zenon DEF ImportersComeFirst

\* A step that adds one module d at most, to the modules, the order and the stack of
\* frames, keeps the invariant if every waiting import string of the old stack goes on
\* waiting or is settled, if frames and recorded imports stay those of their modules, and
\* if d is loaded already, a starting point of the walk, or recorded as an import of a
\* loaded module.
LEMMA VisitKeeps ==
  ASSUME IInv, IType', Grows, Progress', ImportsKnown', NEW d \in Dirs,
         NEW frames \in Seq(Frames),
         modules' = modules \cup {d},
         modules' = Elems(module_order'),
         module_order' = IF d \in modules THEN module_order ELSE Append(module_order, d),
         Elems(stack') = Elems(frames) \cup (IF d \in modules THEN {} ELSE {NewFrame(d)}),
         \A frame \in Elems(stack) : \A n \in Elems(frame.todo) :
             \/ \E f \in Elems(frames) : f.dir = frame.dir /\ n \in Elems(f.todo)
             \/ Settled(frame.dir, n)',
         \A frame \in Elems(frames) :
             frame.dir \in modules /\ Elems(frame.todo) \subseteq ImportNames(frame.dir),
         \/ d \in modules \/ d \in {root} \cup ForcedDirs(loaded)'
         \/ \E e \in modules : \E n \in ImportNames(e) :
               n \in Names /\ d = Target(e, n) /\ <<n, d>> \in module_imports'[e]
  PROVE  IInv'
<1>0. /\ IType /\ Progress /\ NoneForgotten /\ FramesKnown /\ ImportsKnown /\ OnlyReachable
      /\ OrderListsModules /\ ImportersComeFirst
  BY DEF IInv
<1>1. /\ \A e \in Dirs, n \in Names : Settled(e, n) => Settled(e, n)'
      /\ \A e \in Dirs : ImportNames(e)' = ImportNames(e)
      /\ \A e \in Dirs, n \in Names : Target(e, n)' = Target(e, n)
      /\ \A S : Closed(S)' => Closed(S)
  BY <1>0, GrowsKeeps
<1>2. ASSUME NEW e \in Dirs PROVE ImportNames(e) \subseteq Names
  <2>1. imports[e] \in Seq(Names)
    BY <1>0 DEF IType
  <2> QED
    BY <2>1 DEF ImportNames, Elems
<1>3. NoneForgotten'
  <2> SUFFICES ASSUME NEW e \in modules', NEW n \in ImportNames(e)'
               PROVE  Settled(e, n)' \/ Waiting(e, n)'
    BY DEF NoneForgotten
  <2>1. e \in Dirs /\ n \in ImportNames(e) /\ n \in Names
    BY <1>0, <1>1, <1>2 DEF IType
  <2>2. CASE e \in modules
    <3>1. CASE Settled(e, n)
      BY <1>1, <2>1, <3>1
    <3>2. CASE Waiting(e, n)
      <4>1. PICK frame \in Elems(stack) : frame.dir = e /\ n \in Elems(frame.todo)
        BY <3>2 DEF Waiting
      <4>2. CASE Settled(e, n)'
        BY <4>2
      <4>3. CASE \E f \in Elems(frames) : f.dir = e /\ n \in Elems(f.todo)
        BY <4>3 DEF Waiting
      <4> QED
        BY <4>1, <4>2, <4>3, Zenon
    <3> QED
      BY <1>0, <2>1, <2>2, <3>1, <3>2 DEF NoneForgotten
  <2>3. CASE e \notin modules
    <3>1. e = d /\ NewFrame(d) \in Elems(stack')
      BY <2>3
    <3>2. NewFrame(d).dir = d /\ n \in Elems(NewFrame(d).todo)
      BY <2>1, <3>1 DEF NewFrame, ImportNames
    <3> QED
      BY <3>1, <3>2 DEF Waiting
  <2> QED
    BY <2>2, <2>3
<1>4. FramesKnown'
  <2> SUFFICES ASSUME NEW frame \in Elems(stack')
               PROVE  frame.dir \in modules' /\ Elems(frame.todo) \subseteq ImportNames(frame.dir)'
    BY DEF FramesKnown
  <2>1. CASE frame \in Elems(frames)
    BY <1>0, <1>1, <2>1, Zenon DEF IType
  <2>2. CASE frame = NewFrame(d)
    BY <1>1, <2>2 DEF NewFrame, ImportNames
  <2> QED
    BY <2>1, <2>2
<1>5. OnlyReachable'
  <2> SUFFICES ASSUME NEW S \in SUBSET Dirs, Closed(S)' PROVE modules' \subseteq S
    BY DEF OnlyReachable
  <2>1. Closed(S) /\ modules \subseteq S
    BY <1>0, <1>1 DEF OnlyReachable
  <2>2. CASE d \in {root} \cup ForcedDirs(loaded)'
    BY <2>1, <2>2 DEF Closed, Grows, inputs
  <2>3. CASE \E e \in modules : \E n \in ImportNames(e) : d = Target(e, n)
    <3>0. PICK e \in modules : \E n \in ImportNames(e) : d = Target(e, n)
      BY <2>3
    <3>1. PICK n \in ImportNames(e) : d = Target(e, n)
      BY <3>0
    <3>2. e \in S /\ e \in Dirs /\ d # NoDir
      BY <1>0, <2>1, <3>1, DirsAssumption DEF IType
    <3>3. d \in Targets(exists, [c \in Dirs |-> ImportNames(c)], e, root)
      BY <3>1, <3>2 DEF Targets, Target
    <3> QED
      BY <2>1, <3>2, <3>3 DEF Closed
  <2>4. CASE d \in modules
    BY <2>1, <2>4
  <2> QED
    BY <2>1, <2>2, <2>3, <2>4, Zenon
<1>6. OrderListsModules'
  BY DEF OrderListsModules
<1>7. ImportersComeFirst'
  <2>1. CASE d \notin modules
    BY <1>0, <1>2, <2>1, OrderExtends DEF OrderListsModules
  <2>2. CASE d \in modules
    <3>1. module_order' = module_order /\ root' = root /\ ForcedDirs(loaded) \subseteq ForcedDirs(loaded)'
      BY <1>0, <2>2, GrowsKeeps DEF Grows, inputs
    <3>2. \A i \in 1 .. Len(module_order) : module_order[i] \in Dirs
      BY <1>0 DEF IType
    <3>3. ASSUME NEW i \in 1 .. Len(module_order), module_order[i] \notin {root} \cup ForcedDirs(loaded)
          PROVE  \E j \in 1 .. i - 1, n \in Names : <<n, module_order[i]>> \in module_imports'[module_order[j]]
      <4>1. PICK j \in 1 .. i - 1, n \in Names : <<n, module_order[i]>> \in module_imports[module_order[j]]
        BY <1>0, <3>3 DEF ImportersComeFirst
      <4>2. j \in 1 .. Len(module_order)
        BY <1>0 DEF IType
      <4> QED
        BY <3>2, <4>1, <4>2 DEF Grows
    <3> QED
      BY <3>1, <3>3, Zenon DEF ImportersComeFirst
  <2> QED
    BY <2>1, <2>2
<1> QED
  BY <1>3, <1>4, <1>5, <1>6, <1>7 DEF IInv

\* Nothing is loaded before resolve starts.
LEMMA InitIInv == Init => IInv
<1> SUFFICES ASSUME Init PROVE IInv
  OBVIOUS
<1>1. \A k \in Nat : [1 .. k -> Names] \subseteq Seq(Names)
  OBVIOUS
<1>2. ImportLists \subseteq Seq(Names) /\ ForcedLists \subseteq Seq(Names)
  BY <1>1, BoundsAssumption DEF ImportLists, ForcedLists
<1>3. forced \in Seq(Names) /\ imports \in [Dirs -> Seq(Names)]
  BY <1>2 DEF Init
<1>4. loaded = 0 /\ Len(forced) \in Nat /\ stack = <<>> /\ module_order = <<>>
  BY <1>3 DEF Init
<1>5. Elems(<<>>) = {} /\ <<>> \in Seq(Frames) /\ <<>> \in Seq(Dirs) /\ Len(<<>>) = 0
  BY DEF Elems
<1>6. IType
  <2>1. module_imports \in [Dirs -> SUBSET (Names \X Dirs)] /\ loaded \in 0 .. Len(forced)
    BY <1>4 DEF Init
  <2>2. exists \subseteq Dirs /\ broken \subseteq Dirs /\ modules \subseteq Dirs /\ root \in Dirs
    BY DEF Init
  <2> QED
    BY <1>3, <1>4, <1>5, <2>1, <2>2, Zenon DEF Init, IType
<1>7. ForcedDirs(loaded) = {}
  BY <1>4 DEF ForcedDirs
<1>8. Progress
  BY <1>7 DEF Init, Progress
<1>9. NoneForgotten /\ ImportsKnown /\ OnlyReachable
  BY DEF Init, NoneForgotten, ImportsKnown, OnlyReachable
<1>10. FramesKnown /\ OrderListsModules /\ ImportersComeFirst
  BY <1>4, <1>5 DEF Init, FramesKnown, OrderListsModules, ImportersComeFirst
<1> QED
  BY <1>6, <1>8, <1>9, <1>10 DEF IInv

\* resolve's checks, and the visit of the root module.
LEMMA StartKeeps == IInv /\ Start => IInv'
<1> SUFFICES ASSUME IInv, Start PROVE IInv'
  OBVIOUS
<1>0. /\ IType /\ Progress /\ OrderListsModules /\ ImportsKnown
      /\ modules = {} /\ stack = <<>> /\ ~hasErrors /\ ~ok
  BY DEF IInv, Progress, Start
<1>1. Elems(<<>>) = {} /\ <<>> \in Seq(Frames)
  BY DEF Elems
<1>2. UNCHANGED <<inputs, loaded, module_imports, ok>>
  BY DEF Start
<1>3. CASE root \notin exists \/ stdBad
  <2>1. UNCHANGED <<modules, module_order, stack>> /\ hasErrors' = TRUE /\ phase' = "done"
    BY <1>3, Zenon DEF Start
  <2>2. IType'
    BY <1>0, <1>2, <2>1 DEF IType, inputs
  <2>3. ForcedDirs(loaded)' = ForcedDirs(loaded)
    BY <1>2 DEF ForcedDirs, inputs
  <2>4. Progress'
    BY <1>0, <1>2, <1>3, <2>1, <2>3 DEF Progress, inputs
  <2>5. NoneForgotten' /\ OnlyReachable'
    BY <1>0, <2>1 DEF NoneForgotten, OnlyReachable
  <2>6. FramesKnown' /\ OrderListsModules'
    BY <1>0, <1>1, <2>1, Zenon DEF FramesKnown, OrderListsModules
  <2>7. ImportsKnown' /\ ImportersComeFirst'
    BY <1>2, <2>1, <2>3, Zenon DEF IInv, ImportsKnown, ImportersComeFirst, inputs, ImportNames, Target
  <2> QED
    BY <2>2, <2>4, <2>5, <2>6, <2>7 DEF IInv
<1>4. CASE root \in exists /\ ~stdBad
  <2>1. phase' = "walk" /\ visit(root, <<>>, FALSE)
    BY <1>4, Zenon DEF Start
  <2>2. /\ modules' = modules \cup {root}
        /\ module_order' \in Seq(Dirs) /\ modules' = Elems(module_order')
        /\ module_order' = IF root \in modules THEN module_order ELSE Append(module_order, root)
        /\ stack' \in Seq(Frames)
        /\ Elems(stack') = Elems(<<>>) \cup (IF root \in modules THEN {} ELSE {NewFrame(root)})
        /\ hasErrors' = (FALSE \/ (root \in broken /\ root \notin modules))
    BY <1>0, <1>1, <2>1, VisitEffect, Zenon DEF IType
  <2>3. IType'
    BY <1>0, <1>2, <2>1, <2>2 DEF IType, inputs
  <2>4. Grows
    BY <1>0, <1>2, <2>2 DEF Grows, IType
  <2>5. ForcedDirs(loaded)' = ForcedDirs(loaded)
    BY <1>2 DEF ForcedDirs, inputs
  <2>6. Progress'
    BY <1>0, <1>2, <1>4, <2>1, <2>2, <2>5, Zenon DEF Progress, inputs
  <2>7. ImportsKnown'
    BY <1>0, <1>2, <2>2 DEF ImportsKnown, inputs, ImportNames, Target
  <2>8. root \in Dirs
    BY <1>0 DEF IType
  <2> QED
    BY <1>0, <1>1, <2>2, <2>3, <2>4, <2>6, <2>7, <2>8, VisitKeeps, Zenon
<1> QED
  BY <1>3, <1>4 DEF IInv, IType

\* What happens to the stack when the top frame's first import string is taken.
LEMMA TopFrame ==
  ASSUME IInv, stack # <<>>
  PROVE  /\ Head(stack) \in Frames /\ Head(stack) \in Elems(stack) /\ Tail(stack) \in Seq(Frames)
         /\ Elems(stack) = {Head(stack)} \cup Elems(Tail(stack))
         /\ Head(stack).dir \in modules /\ Head(stack).dir \in Dirs
         /\ Elems(Head(stack).todo) \subseteq ImportNames(Head(stack).dir)
         /\ Head(stack).todo \in Seq(Names)
<1>1. stack \in Seq(Frames) /\ modules \subseteq Dirs
  BY DEF IInv, IType
<1>2. /\ Head(stack) \in Frames /\ Tail(stack) \in Seq(Frames)
      /\ Elems(stack) = {Head(stack)} \cup Elems(Tail(stack))
  BY <1>1, PopElems
<1>3. Head(stack).todo \in Seq(Names)
  BY <1>2 DEF Frames
<1> QED
  BY <1>1, <1>2, <1>3 DEF IInv, FramesKnown

\* A return pops a frame with nothing left to do.
LEMMA ReturnKeeps == IInv /\ Return => IInv'
<1> SUFFICES ASSUME IInv, Return PROVE IInv'
  OBVIOUS
<1> DEFINE d == Head(stack).dir
<1>0. stack # <<>> /\ Head(stack).todo = <<>> /\ stack' = Tail(stack) /\ phase = "walk"
  BY DEF Return
<1>1. UNCHANGED <<inputs, loaded, modules, module_order, module_imports, ok, hasErrors, phase>>
  BY DEF Return
<1>2. /\ d \in modules /\ d \in Dirs /\ Tail(stack) \in Seq(Frames)
      /\ Elems(stack) = {Head(stack)} \cup Elems(Tail(stack))
  BY <1>0, TopFrame
<1> HIDE DEF d
<1>3. IType'
  BY <1>0, <1>1, <1>2 DEF IInv, IType, inputs
<1>4. Grows
  BY <1>1, <1>3 DEF Grows, IType
<1>5. ForcedDirs(loaded)' = ForcedDirs(loaded)
  BY <1>1 DEF ForcedDirs, inputs
<1>6. Progress'
  BY <1>0, <1>1, <1>5 DEF IInv, Progress, inputs
<1>7. ImportsKnown'
  BY <1>1 DEF IInv, ImportsKnown, inputs, ImportNames, Target
<1>8. modules' = Elems(module_order')
  BY <1>1 DEF IInv, OrderListsModules
<1>9. Elems(<<>>) = {}
  BY DEF Elems
<1>10. \A frame \in Elems(stack) : \A n \in Elems(frame.todo) :
             \E f \in Elems(Tail(stack)) : f.dir = frame.dir /\ n \in Elems(f.todo)
  BY <1>0, <1>2, <1>9
<1>11. \A frame \in Elems(Tail(stack)) :
             frame.dir \in modules /\ Elems(frame.todo) \subseteq ImportNames(frame.dir)
  BY <1>2 DEF IInv, FramesKnown
<1>12. modules' = modules \cup {d} /\ module_order' = module_order /\ Elems(stack') = Elems(Tail(stack)) \cup {}
  BY <1>0, <1>1, <1>2
<1> QED
  BY <1>2, <1>3, <1>4, <1>6, <1>7, <1>8, <1>10, <1>11, <1>12, VisitKeeps, Zenon

\* The import string the loop takes next leaves the stack settled: reported, or recorded
\* with its target loaded.
LEMMA ImportKeeps == IInv /\ Import => IInv'
<1> SUFFICES ASSUME IInv, Import PROVE IInv'
  OBVIOUS
<1>d. PICK d, todo : d = Head(stack).dir /\ todo = Head(stack).todo
  OBVIOUS
<1>t. PICK t : t = Target(d, Head(todo))
  OBVIOUS
<1> DEFINE n == Head(todo)
           top == [dir |-> d, todo |-> Tail(todo)]
           rest == <<top>> \o Tail(stack)
<1>0. stack # <<>> /\ todo # <<>> /\ phase = "walk" /\ UNCHANGED <<inputs, loaded, ok, phase>>
  BY <1>d DEF Import
<1>1. /\ d \in modules /\ d \in Dirs /\ Tail(stack) \in Seq(Frames)
      /\ Elems(stack) = {Head(stack)} \cup Elems(Tail(stack))
      /\ Elems(todo) \subseteq ImportNames(d) /\ todo \in Seq(Names)
  BY <1>0, <1>d, TopFrame
<1>2. n \in Names /\ Tail(todo) \in Seq(Names) /\ Elems(todo) = {n} \cup Elems(Tail(todo))
  BY <1>0, <1>1, PopElems
<1>3. t \in Dirs \cup {NoDir}
  BY <1>1, <1>2, <1>t, SearchResult DEF IInv
<1>4. IF t = NoDir
      THEN /\ hasErrors' = TRUE /\ stack' = rest
           /\ UNCHANGED <<modules, module_order, module_imports>>
      ELSE /\ module_imports' = [module_imports EXCEPT ![d] = @ \cup {<<n, t>>}]
           /\ visit(t, rest, hasErrors)
  BY <1>d, <1>t, Zenon DEF Import, Unresolved, Target
<1>5. top \in Frames
  BY <1>1, <1>2 DEF Frames
<1>6. top.dir = d /\ top.todo = Tail(todo)
  OBVIOUS
<1> HIDE DEF n, top
<1>7. rest \in Seq(Frames) /\ Elems(rest) = {top} \cup Elems(Tail(stack))
  BY <1>1, <1>5, PushElems, Zenon
<1> HIDE DEF rest
<1>8. ForcedDirs(loaded)' = ForcedDirs(loaded)
  BY <1>0 DEF ForcedDirs, inputs
<1>9. \A frame \in Elems(rest) :
          frame.dir \in modules /\ Elems(frame.todo) \subseteq ImportNames(frame.dir)
  BY <1>1, <1>2, <1>6, <1>7, Zenon DEF IInv, FramesKnown
<1>10. ASSUME Settled(d, n)'
       PROVE  \A frame \in Elems(stack) : \A m \in Elems(frame.todo) :
                  \/ \E f \in Elems(rest) : f.dir = frame.dir /\ m \in Elems(f.todo)
                  \/ Settled(frame.dir, m)'
  <2> TAKE frame \in Elems(stack)
  <2>1. CASE frame \in Elems(Tail(stack))
    BY <1>7, <2>1
  <2>2. CASE frame = Head(stack)
    BY <1>2, <1>6, <1>7, <1>10, <1>d, <2>2
  <2> QED
    BY <1>1, <2>1, <2>2
<1>11. IType /\ OrderListsModules /\ Progress /\ ImportsKnown
  BY DEF IInv
<1>12. CASE t = NoDir
  <2>1. hasErrors' = TRUE /\ stack' = rest /\ UNCHANGED <<modules, module_order, module_imports>>
    BY <1>4, <1>12
  <2>2. IType'
    BY <1>0, <1>7, <1>11, <2>1 DEF IType, inputs
  <2>3. Grows
    BY <1>0, <1>11, <2>1 DEF Grows, IType
  <2>4. Progress'
    BY <1>0, <1>8, <1>11, <2>1 DEF Progress, inputs
  <2>5. ImportsKnown'
    BY <1>0, <1>11, <2>1 DEF ImportsKnown, inputs, ImportNames, Target
  <2>6. Settled(d, n)'
    <3>1. Target(d, n)' = NoDir
      BY <1>0, <1>12, <1>t DEF n, Target, inputs
    <3> QED
      BY <2>1, <3>1 DEF Settled
  <2>7. /\ modules' = modules \cup {d} /\ module_order' = module_order
        /\ modules' = Elems(module_order') /\ Elems(stack') = Elems(rest) \cup {}
    BY <1>1, <1>11, <2>1 DEF OrderListsModules
  <2> QED
    BY <1>1, <1>7, <1>9, <1>10, <2>2, <2>3, <2>4, <2>5, <2>6, <2>7, VisitKeeps, Zenon
<1>13. CASE t # NoDir
  <2>0. t \in Dirs
    BY <1>3, <1>13
  <2>1. /\ module_imports' = [module_imports EXCEPT ![d] = @ \cup {<<n, t>>}]
        /\ visit(t, rest, hasErrors)
    BY <1>4, <1>13
  <2>2. /\ modules' = modules \cup {t}
        /\ module_order' \in Seq(Dirs) /\ modules' = Elems(module_order')
        /\ module_order' = IF t \in modules THEN module_order ELSE Append(module_order, t)
        /\ stack' \in Seq(Frames)
        /\ Elems(stack') = Elems(rest) \cup (IF t \in modules THEN {} ELSE {NewFrame(t)})
        /\ hasErrors' = (hasErrors \/ (t \in broken /\ t \notin modules))
    BY <1>7, <1>11, <2>0, <2>1, VisitEffect DEF IType
  <2>3. /\ module_imports' \in [Dirs -> SUBSET (Names \X Dirs)]
        /\ module_imports'[d] = module_imports[d] \cup {<<n, t>>}
        /\ \A e \in Dirs \ {d} : module_imports'[e] = module_imports[e]
    BY <1>1, <1>2, <1>11, <2>0, <2>1 DEF IType
  <2>4. IType'
    <3>1. modules' \subseteq Dirs
      BY <1>11, <2>0, <2>2 DEF IType
    <3>2. hasErrors' \in BOOLEAN
      BY <1>11, <2>2 DEF IType
    <3> QED
      BY <1>0, <1>11, <2>2, <2>3, <3>1, <3>2 DEF IType, inputs
  <2>5. Grows
    <3>1. \A e \in Dirs : module_imports[e] \subseteq module_imports'[e]
      BY <2>3
    <3> QED
      BY <1>0, <1>11, <2>2, <3>1 DEF Grows, IType
  <2>6. Progress'
    BY <1>0, <1>8, <1>11, <2>2, Zenon DEF Progress, inputs
  <2>7. n \in ImportNames(d)
    BY <1>1, <1>2
  <2>8. ImportsKnown'
    <3> SUFFICES ASSUME NEW e \in Dirs, NEW i \in module_imports'[e]
                 PROVE  /\ e \in modules' /\ i[1] \in ImportNames(e)'
                        /\ i[2] = Target(e, i[1])' /\ i[2] \in modules'
      BY DEF ImportsKnown
    <3>1. ImportNames(e)' = ImportNames(e) /\ \A m : Target(e, m)' = Target(e, m)
      BY <1>0 DEF inputs, ImportNames, Target
    <3>2. CASE i \in module_imports[e]
      BY <1>11, <2>2, <3>1, <3>2 DEF ImportsKnown
    <3>3. CASE e = d /\ i = <<n, t>>
      BY <1>1, <1>t, <2>2, <2>7, <3>1, <3>3 DEF n
    <3> QED
      BY <2>3, <3>2, <3>3
  <2>9. Settled(d, n)'
    <3>1. Target(d, n)' = t
      BY <1>0, <1>t DEF n, Target, inputs
    <3> QED
      BY <1>13, <2>2, <2>3, <3>1 DEF Settled
  <2>10. \E e \in modules : \E m \in ImportNames(e) :
             m \in Names /\ t = Target(e, m) /\ <<m, t>> \in module_imports'[e]
    BY <1>1, <1>2, <1>t, <2>3, <2>7 DEF n
  <2> QED
    BY <1>7, <1>9, <1>10, <2>0, <2>2, <2>4, <2>5, <2>6, <2>8, <2>9, <2>10, VisitKeeps, Zenon
<1> QED
  BY <1>12, <1>13

\* A forced module is visited from the root, and from then on counts as handled.
LEMMA ForceKeeps == IInv /\ ForceLoad => IInv'
<1> SUFFICES ASSUME IInv, ForceLoad PROVE IInv'
  OBVIOUS
<1>0. /\ phase = "walk" /\ stack = <<>> /\ loaded < Len(forced) /\ loaded' = loaded + 1
      /\ UNCHANGED <<inputs, module_imports, ok, phase>>
  BY DEF ForceLoad
<1>1. IType /\ OrderListsModules /\ Progress /\ ImportsKnown /\ loaded' \in 1 .. Len(forced)
  BY <1>0 DEF IInv, IType
<1>2. PICK t : t = Target(root, forced[loaded'])
  OBVIOUS
<1>3. t \in Dirs \cup {NoDir}
  BY <1>1, <1>2, SearchResult DEF IType
<1>4. IF t = NoDir THEN hasErrors' = TRUE /\ UNCHANGED <<modules, module_order, stack>>
      ELSE visit(t, <<>>, hasErrors)
  BY <1>2 DEF ForceLoad, Unresolved, Target
<1>5. ForcedDirs(loaded)' = ForcedDirs(loaded) \cup ({t} \ {NoDir})
  <2>1. 1 .. loaded' = (1 .. loaded) \cup {loaded'}
    BY <1>0, <1>1 DEF IType
  <2> QED
    BY <1>0, <1>2, <2>1 DEF ForcedDirs, Target, inputs
<1>6. Elems(<<>>) = {} /\ <<>> \in Seq(Frames)
  BY DEF Elems
<1>7. \A frame \in Elems(stack) : FALSE
  BY <1>0, <1>6
<1>8. root \in modules /\ root \in Dirs
  BY <1>0, <1>1 DEF Progress, IType
<1>9. CASE t = NoDir
  <2>1. hasErrors' = TRUE /\ UNCHANGED <<modules, module_order, stack>>
    BY <1>4, <1>9
  <2>2. IType'
    BY <1>0, <1>1, <2>1 DEF IType, inputs
  <2>3. Grows
    BY <1>0, <1>1, <2>1 DEF Grows, IType
  <2>4. Progress'
    BY <1>0, <1>1, <1>5, <1>9, <2>1 DEF Progress, inputs
  <2>5. ImportsKnown'
    BY <1>0, <1>1, <2>1 DEF ImportsKnown, inputs, ImportNames, Target
  <2>6. /\ modules' = modules \cup {root} /\ module_order' = module_order
        /\ modules' = Elems(module_order') /\ Elems(stack') = Elems(<<>>) \cup {}
    BY <1>0, <1>1, <1>8, <2>1 DEF OrderListsModules
  <2> QED
    BY <1>6, <1>7, <1>8, <2>2, <2>3, <2>4, <2>5, <2>6, VisitKeeps, Zenon
<1>10. CASE t # NoDir
  <2>0. t \in Dirs
    BY <1>3, <1>10
  <2>1. /\ modules' = modules \cup {t}
        /\ module_order' \in Seq(Dirs) /\ modules' = Elems(module_order')
        /\ module_order' = IF t \in modules THEN module_order ELSE Append(module_order, t)
        /\ stack' \in Seq(Frames)
        /\ Elems(stack') = Elems(<<>>) \cup (IF t \in modules THEN {} ELSE {NewFrame(t)})
        /\ hasErrors' = (hasErrors \/ (t \in broken /\ t \notin modules))
    <3>1. visit(t, <<>>, hasErrors) /\ hasErrors \in BOOLEAN
      BY <1>1, <1>4, <1>10 DEF IType
    <3>2. PICK frames \in Seq(Frames) : frames = <<>>
      BY <1>6, Zenon
    <3>3. visit(t, frames, hasErrors) /\ IType /\ OrderListsModules
      BY <1>1, <3>1, <3>2
    <3> QED
      BY <2>0, <3>1, <3>2, <3>3, VisitEffect, Zenon
  <2>2. IType'
    <3>1. modules' \subseteq Dirs /\ hasErrors' \in BOOLEAN
      BY <1>1, <2>0, <2>1 DEF IType
    <3> QED
      BY <1>0, <1>1, <2>1, <3>1 DEF IType, inputs
  <2>3. Grows
    BY <1>0, <1>1, <2>1 DEF Grows, IType
  <2>4. Progress'
    BY <1>0, <1>1, <1>5, <2>1, Zenon DEF Progress, inputs
  <2>5. ImportsKnown'
    BY <1>0, <1>1, <2>1 DEF ImportsKnown, inputs, ImportNames, Target
  <2>6. t \in ForcedDirs(loaded)'
    BY <1>5, <1>10
  <2> QED
    BY <1>6, <1>7, <2>0, <2>1, <2>2, <2>3, <2>4, <2>5, <2>6, VisitKeeps, Zenon
<1> QED
  BY <1>9, <1>10

\* The walk ends with the stack empty and the forced modules handled.
LEMMA FinishKeeps == IInv /\ Finish => IInv'
<1> SUFFICES ASSUME IInv, Finish PROVE IInv'
  OBVIOUS
<1>0. /\ phase = "walk" /\ stack = <<>> /\ loaded = Len(forced) /\ ok' = ~hasErrors /\ phase' = "done"
      /\ UNCHANGED <<inputs, loaded, modules, module_order, module_imports, hasErrors, stack>>
  BY DEF Finish
<1>1. IType'
  BY <1>0 DEF IInv, IType, inputs
<1>2. ForcedDirs(loaded)' = ForcedDirs(loaded)
  BY <1>0 DEF ForcedDirs, inputs
<1>3. Progress'
  BY <1>0, <1>2, Zenon DEF IInv, Progress, inputs
<1>4. NoneForgotten'
  <2>1. \A d, n : (Settled(d, n)' <=> Settled(d, n)) /\ (Waiting(d, n)' <=> Waiting(d, n))
    BY <1>0 DEF Settled, Waiting, Target, inputs
  <2> QED
    BY <1>0, <2>1 DEF IInv, NoneForgotten, ImportNames, inputs
<1>5. FramesKnown' /\ ImportsKnown'
  BY <1>0 DEF IInv, FramesKnown, ImportsKnown, ImportNames, Target, inputs
<1>6. OnlyReachable'
  BY <1>0, <1>2 DEF IInv, OnlyReachable, Closed, ImportNames, inputs
<1>7. OrderListsModules' /\ ImportersComeFirst'
  BY <1>0, <1>2, Zenon DEF IInv, OrderListsModules, ImportersComeFirst, inputs
<1> QED
  BY <1>1, <1>3, <1>4, <1>5, <1>6, <1>7 DEF IInv

\* Every step keeps the invariant.
LEMMA NextIInv == IInv /\ [Next]_vars => IInv'
<1> SUFFICES ASSUME IInv, [Next]_vars PROVE IInv'
  OBVIOUS
<1>1. CASE UNCHANGED vars
  <2>1. /\ UNCHANGED <<exists, imports, broken, root, stdBad, forced>>
        /\ UNCHANGED <<loaded, modules, module_order, module_imports, ok, hasErrors, stack, phase>>
    BY <1>1 DEF vars, inputs
  <2>2. ForcedDirs(loaded)' = ForcedDirs(loaded)
    BY <2>1 DEF ForcedDirs
  <2>3. IType' /\ Progress' /\ OrderListsModules' /\ ImportersComeFirst'
    BY <2>1, <2>2, Zenon DEF IInv, IType, Progress, OrderListsModules, ImportersComeFirst
  <2>4. NoneForgotten' /\ FramesKnown' /\ ImportsKnown'
    BY <2>1 DEF IInv, NoneForgotten, FramesKnown, ImportsKnown, Settled, Waiting, ImportNames, Target
  <2>5. OnlyReachable'
    BY <2>1, <2>2 DEF IInv, OnlyReachable, Closed, ImportNames
  <2> QED
    BY <2>3, <2>4, <2>5 DEF IInv
<1> QED
  BY <1>1, StartKeeps, ImportKeeps, ReturnKeeps, ForceKeeps, FinishKeeps DEF Next, Done

\* The invariant holds throughout.
LEMMA AlwaysIInv == Spec => []IInv
  BY InitIInv, NextIInv, PTL DEF Spec

-----------------------------------------------------------------------------
(* What the walk establishes. *)

\* Every module in module_order but the root and the forced ones comes after a module
\* that imports it.
THEOREM ImportersAlwaysFirst == Spec => []ImportersComeFirst
<1>1. IInv => ImportersComeFirst
  BY DEF IInv
<1> QED
  BY AlwaysIInv, <1>1, PTL

\* Looking the target of a recorded import up among the modules never misses, at any
\* moment of the walk, and an import string of a module has one target.
THEOREM ImportsAlwaysLead == Spec => []ImportsLeadToModules
<1>1. IInv => ImportsLeadToModules
  BY DEF IInv, ImportsKnown, ImportsLeadToModules
<1> QED
  BY AlwaysIInv, <1>1, PTL

\* When the walk is over it has loaded exactly the import closure of the root and the
\* forced modules, whatever cycles the imports form.
THEOREM WalkLoadsClosure == Spec => []LoadsTheClosure
<1>1. IInv => LoadsTheClosure
  <2> SUFFICES ASSUME IInv, phase = "done", root \in exists, ~stdBad
               PROVE  modules = Closure(exists, [d \in Dirs |-> ImportNames(d)],
                                        {root} \cup ForcedDirs(Len(forced)), root)
    BY DEF LoadsTheClosure, ImportNames
  <2> DEFINE names == [d \in Dirs |-> ImportNames(d)]
             seeds == {root} \cup ForcedDirs(Len(forced))
  <2>1. /\ stack = <<>> /\ root \in modules /\ loaded = Len(forced)
        /\ ForcedDirs(loaded) \subseteq modules /\ modules \in SUBSET Dirs
    BY DEF IInv, Progress, IType
  <2>2. \A d, n : ~Waiting(d, n)
    BY <2>1 DEF Waiting, Elems
  <2>3. ASSUME NEW e \in modules PROVE Targets(exists, names, e, root) \subseteq modules
    <3>1. e \in Dirs /\ \A n \in ImportNames(e) : Settled(e, n)
      BY <2>1, <2>2 DEF IInv, NoneForgotten
    <3> QED
      BY <3>1, Zenon DEF Targets, Settled, Target
  <2>4. Closure(exists, names, seeds, root) \subseteq modules
    <3>1. seeds \subseteq modules
      BY <2>1
    <3> HIDE DEF names, seeds
    <3> QED
      BY <2>1, <2>3, <3>1 DEF Closure
  <2>5. modules \subseteq Closure(exists, names, seeds, root)
    <3>1. \A S \in SUBSET Dirs :
              seeds \subseteq S /\ (\A e \in S : Targets(exists, names, e, root) \subseteq S) => modules \subseteq S
      BY <2>1 DEF IInv, OnlyReachable, Closed
    <3> HIDE DEF names, seeds
    <3> QED
      BY <2>1, <3>1 DEF Closure
  <2> QED
    BY <2>4, <2>5, Zenon
<1> QED
  BY AlwaysIInv, <1>1, PTL

\* An ok program is complete: no module of it reported an error, and every import string
\* of every module is recorded.
THEOREM OkIsComplete == Spec => []OkMeansComplete
<1>1. IInv => OkMeansComplete
  <2> SUFFICES ASSUME IInv, ok, NEW d \in modules
               PROVE  /\ root \in modules /\ d \notin broken
                      /\ {e[1] : e \in module_imports[d]} = Elems(imports[d])
    BY Zenon DEF OkMeansComplete, IInv, Progress
  <2>1. phase = "done" /\ ~hasErrors /\ root \in modules /\ d \notin broken /\ stack = <<>> /\ d \in Dirs
    BY DEF IInv, Progress, IType
  <2>2. ImportNames(d) = Elems(imports[d])
    BY DEF ImportNames
  <2>3. \A n : ~Waiting(d, n)
    BY <2>1 DEF Waiting, Elems
  <2>4. ASSUME NEW n \in ImportNames(d) PROVE n \in {e[1] : e \in module_imports[d]}
    <3>1. Settled(d, n)
      BY <2>3 DEF IInv, NoneForgotten
    <3>2. <<n, Target(d, n)>> \in module_imports[d]
      BY <2>1, <3>1 DEF Settled
    <3> QED
      BY <3>2
  <2>5. \A e \in module_imports[d] : e[1] \in ImportNames(d)
    BY <2>1 DEF IInv, ImportsKnown
  <2>6. {e[1] : e \in module_imports[d]} = ImportNames(d)
    BY <2>4, <2>5
  <2> QED
    BY <2>1, <2>2, <2>6
<1> QED
  BY AlwaysIInv, <1>1, PTL
=============================================================================
