------------------------- MODULE X86RegAllocProofs -------------------------
(***************************************************************************)
(* For every set of functions the allocator may be given, the linear scan  *)
(* of x86_regalloc.cpp yields an assignment in which its own machine       *)
(* verifier finds nothing: no two overlapping intervals share a register,  *)
(* no interval lies over a register its instructions own without being     *)
(* parked around the call, and every spilled value has an area.            *)
(***************************************************************************)
EXTENDS X86RegAlloc, WellFoundedInduction, TLAPS

\* Intervals are built.
Built == phase \in {"scan", "verify", "done"}

\* The values the scan is through with.
Scanned == DOMAIN iv \ todo

IntervalTypes ==
  /\ DOMAIN iv \subseteq Values(fn)
  /\ \A v \in DOMAIN iv : iv[v].start \in Int /\ iv[v].end \in Int /\ iv[v].start <= iv[v].end

\* The scan goes by increasing start.
InOrder == \A v \in Scanned, w \in todo : iv[v].start <= iv[w].start

\* A register given out is still recorded as active unless its interval ended before every interval
\* still to come.
ActiveRecords ==
  \A v \in Scanned : ~ asg[v].spilled =>
    \/ [end |-> iv[v].end, reg |-> asg[v].reg] \in active
    \/ \A w \in todo : iv[v].end < iv[w].start

\* Values that share a register do not overlap.
Exclusive ==
  \A v, w \in Scanned :
    v # w /\ ~ asg[v].spilled /\ ~ asg[w].spilled /\ asg[v].reg = asg[w].reg =>
      iv[v].end < iv[w].start \/ iv[w].end < iv[v].start

\* A kill range over a value's register is that of a call the value is parked around.
KillsTolerated ==
  \A v \in Scanned : ~ asg[v].spilled =>
    \A i \in Clashes(fn, iv[v], asg[v].reg) :
      IsCallLike(fn, i) /\ asg[v].save /\ Crosses(iv[v], i)

\* A spilled value has an area of its own.
Placed == \A v \in Scanned : asg[v].spilled => asg[v].spillIx \in Nat

ScanInv ==
  /\ IntervalTypes
  /\ todo \subseteq DOMAIN iv
  /\ InOrder
  /\ ActiveRecords
  /\ Exclusive
  /\ KillsTolerated
  /\ Placed

\* The inductive invariant.
AllocInv ==
  /\ fn \in Functions
  /\ DOMAIN asg = Values(fn)
  /\ areas \in Nat
  /\ errors = {}
  /\ Built => ScanInv
  /\ phase \in {"verify", "done"} => todo = {}

-----------------------------------------------------------------------------
(* Extremes of sets of positions.                                          *)

\* A non-empty set of naturals has a least element, and Least is it.
LEMMA LeastIn ==
  ASSUME NEW S, S \subseteq Nat, S # {}
  PROVE  Least(S) \in S /\ \A y \in S : Least(S) <= y
<1>1. PICK x \in S : \A y \in S : <<y, x>> \notin OpToRel(<, Nat)
  BY NatLessThanWellFounded, WFMin, Zenon
<1>2. \A y \in S : <<y, x>> \notin {ss \in Nat \X Nat : ss[1] < ss[2]}
  BY <1>1 DEF OpToRel
<1>3. \A y \in S : ~(y < x)
  BY <1>2
<1>4. \A y \in S : x <= y
  BY <1>3
<1> QED
  BY <1>4 DEF Least

\* A non-empty bounded set of naturals has a greatest element.
LEMMA GreatestIn ==
  ASSUME NEW S, S \subseteq Nat, S # {}, NEW n \in Nat, \A x \in S : x <= n
  PROVE  Greatest(S) \in S
<1> DEFINE T == {n - x : x \in S}
<1>1. T \subseteq Nat /\ T # {}
  <2>1. \A x \in S : n - x \in Nat
    OBVIOUS
  <2>2. PICK x \in S : TRUE
    OBVIOUS
  <2>3. n - x \in T
    OBVIOUS
  <2> QED
    BY <2>1, <2>3
<1>2. PICK t \in T : \A u \in T : <<u, t>> \notin OpToRel(<, Nat)
  <2> HIDE DEF T
  <2> QED
    BY <1>1, NatLessThanWellFounded, WFMin, Zenon
<1>3. \A u \in T : <<u, t>> \notin {ss \in Nat \X Nat : ss[1] < ss[2]}
  <2> HIDE DEF T
  <2> QED
    BY <1>2 DEF OpToRel
<1>4. \A u \in T : t <= u
  <2> HIDE DEF T
  <2>1. \A u \in T : ~(u < t)
    BY <1>1, <1>3
  <2> QED
    BY <1>1, <2>1
<1>5. PICK x \in S : t = n - x
  OBVIOUS
<1>6. \A y \in S : x >= y
  <2> SUFFICES ASSUME NEW y \in S PROVE x >= y
    OBVIOUS
  <2>1. n - y \in T
    OBVIOUS
  <2>2. t <= n - y
    BY <1>4, <2>1
  <2> QED
    BY <1>5, <2>2
<1> QED
  BY <1>6 DEF Greatest

\* Every position build_intervals extends a value to is one of an instruction of the function.
LEMMA PositionsBounded ==
  ASSUME NEW f \in Functions, NEW v
  PROVE  /\ LivePositions(f, v) \subseteq Nat
         /\ \A x \in LivePositions(f, v) : x <= 4 * Len(f.insts) + 3
<1>1. Len(f.insts) \in Nat
  BY DEF Functions
<1>2. \A b \in Blocks(f) : f.first[b] \in Indices(f) /\ f.last[b] \in Indices(f)
  BY DEF Functions, Verified
<1>3. \A i \in Indices(f) :
        /\ PosE(i) \in Nat /\ PosU(i) \in Nat /\ PosL(i) \in Nat
        /\ PosE(i) <= 4 * Len(f.insts) + 3 /\ PosU(i) <= 4 * Len(f.insts) + 3
        /\ PosL(i) <= 4 * Len(f.insts) + 3
  BY <1>1 DEF Indices, PosE, PosU, PosL
<1> SUFFICES ASSUME NEW x \in LivePositions(f, v)
             PROVE  x \in Nat /\ x <= 4 * Len(f.insts) + 3
  OBVIOUS
<1>4. \E i \in Indices(f) : x \in {PosE(i), PosU(i), PosL(i)}
  BY <1>2, Zenon DEF LivePositions
<1> QED
  BY <1>3, <1>4

-----------------------------------------------------------------------------
(* The steps of the allocator.                                             *)

LEMMA OrderDomain ==
  ASSUME NEW f, NEW v
  PROVE  DOMAIN Order(f, v) \subseteq Nat
<1>1. DOMAIN XmmOrder \subseteq Nat
  BY DEF XmmOrder
<1>2. DOMAIN PreferCallee \subseteq Nat
  BY DEF PreferCallee
<1>3. DOMAIN PreferScratchy \subseteq Nat
  BY DEF PreferScratchy
<1> QED
  BY <1>1, <1>2, <1>3 DEF Order

\* What the scan knows of the register it picks: no active interval holds it, and it clashes only
\* with calls the interval crosses.
LEMMA PickedRegister ==
  ASSUME NEW f, NEW v, NEW acts, FreeRegs(f, v, acts) # {}
  PROVE  LET reg == Order(f, v)[Least(FreeRegs(f, v, acts))]
         IN  /\ \A a \in acts : a.reg # reg
             /\ KillOk(f, iv[v], reg)
<1> DEFINE ks == FreeRegs(f, v, acts)
<1>1. ks \subseteq DOMAIN Order(f, v)
  BY DEF FreeRegs
<1>2. \A k \in ks : Free(f, v, acts, k)
  BY DEF FreeRegs, FreeUnsaved
<1>3. Least(ks) \in ks
  <2> HIDE DEF ks
  <2>1. ks \subseteq Nat
    BY <1>1, OrderDomain
  <2> QED
    BY <2>1, LeastIn DEF ks
<1>4. Free(f, v, acts, Least(ks))
  BY <1>2, <1>3
<1> QED
  BY <1>4 DEF Free

\* The scan's invariant is about the intervals, the assignment and the active list only.
LEMMA ScanFrame ==
  ASSUME ScanInv, UNCHANGED <<fn, iv, asg, todo, active>>
  PROVE  ScanInv'
BY DEF ScanInv, IntervalTypes, InOrder, ActiveRecords, Exclusive, KillsTolerated, Placed, Scanned

\* A step that leaves the allocator's variables alone.
LEMMA Unmoved ==
  ASSUME AllocInv, UNCHANGED allocVars
  PROVE  AllocInv'
BY ScanFrame DEF AllocInv, allocVars, Built

LEMMA BuildStep ==
  ASSUME AllocInv, BuildIntervals
  PROVE  AllocInv'
<1> DEFINE live == {v \in Values(fn) : LivePositions(fn, v) # {}}
<1>1. /\ todo' = live /\ DOMAIN iv' = live /\ fn' = fn /\ phase' = "scan"
      /\ asg' = asg /\ areas' = areas /\ errors' = errors
  BY DEF BuildIntervals
<1>2. \A v \in live : iv'[v].start \in Int /\ iv'[v].end \in Int /\ iv'[v].start <= iv'[v].end
  <2> SUFFICES ASSUME NEW v \in live
               PROVE  iv'[v].start \in Int /\ iv'[v].end \in Int /\ iv'[v].start <= iv'[v].end
    OBVIOUS
  <2>1. iv'[v] = [start |-> Least(LivePositions(fn, v)), end |-> Greatest(LivePositions(fn, v))]
    BY DEF BuildIntervals
  <2>2. /\ LivePositions(fn, v) \subseteq Nat /\ LivePositions(fn, v) # {}
        /\ \A x \in LivePositions(fn, v) : x <= 4 * Len(fn.insts) + 3
    BY PositionsBounded DEF AllocInv
  <2>3. 4 * Len(fn.insts) + 3 \in Nat
    <3>1. Len(fn.insts) \in Nat
      BY DEF AllocInv, Functions
    <3> QED
      BY <3>1
  <2>4. Greatest(LivePositions(fn, v)) \in LivePositions(fn, v)
    BY <2>2, <2>3, GreatestIn
  <2>5. /\ Least(LivePositions(fn, v)) \in LivePositions(fn, v)
        /\ Least(LivePositions(fn, v)) <= Greatest(LivePositions(fn, v))
    BY <2>2, <2>4, LeastIn
  <2> QED
    BY <2>1, <2>2, <2>4, <2>5
<1>3. Scanned' = {}
  BY <1>1 DEF Scanned
<1>4. IntervalTypes'
  BY <1>1, <1>2 DEF IntervalTypes
<1>5. ScanInv'
  BY <1>1, <1>3, <1>4 DEF ScanInv, InOrder, ActiveRecords, Exclusive, KillsTolerated, Placed
<1> QED
  BY <1>1, <1>5 DEF AllocInv, Built

\* The verifier reports nothing about an assignment the invariant describes.
LEMMA VerifyStep ==
  ASSUME AllocInv, Verify
  PROVE  AllocInv'
<1>1. /\ ScanInv /\ todo = {} /\ Scanned = DOMAIN iv
  BY DEF AllocInv, Verify, Built, Scanned
<1>2. Interfering = {}
  <2> SUFFICES ASSUME NEW v \in DOMAIN iv, NEW w \in DOMAIN iv,
                      NextInReg(v, w), iv[v].end >= iv[w].start
               PROVE  FALSE
    BY DEF Interfering
  <2>1. iv[v].end < iv[w].start \/ iv[w].end < iv[v].start
    BY <1>1 DEF ScanInv, Exclusive, NextInReg, InReg
  <2> QED
    BY <1>1, <2>1 DEF ScanInv, IntervalTypes, NextInReg, Before
<1>3. KillViolations = {}
  BY <1>1 DEF KillViolations, ScanInv, KillsTolerated, InReg
<1>4. Unplaced = {}
  BY <1>1 DEF Unplaced, ScanInv, Placed
<1>5. errors' = {}
  BY <1>2, <1>3, <1>4 DEF Verify
<1>6. UNCHANGED <<fn, iv, asg, todo, active, areas>>
  BY DEF Verify
<1>7. ScanInv'
  BY <1>1, <1>6, ScanFrame
<1> QED
  BY <1>1, <1>5, <1>6, <1>7 DEF AllocInv

\* The interval taken next starts no later than the others still to come.
LEMMA NextStartsFirst ==
  ASSUME IntervalTypes, todo \subseteq DOMAIN iv, NEW v \in todo, \A w \in todo : Before(v, w)
  PROVE  \A w \in todo : iv[v].start <= iv[w].start
BY DEF IntervalTypes, Before

\* What ended before it ended before all of them.
LEMMA EndedForGood ==
  ASSUME IntervalTypes, todo \subseteq DOMAIN iv, NEW u \in DOMAIN iv, NEW v \in DOMAIN iv,
         iv[u].end < iv[v].start, \A w \in todo : iv[v].start <= iv[w].start
  PROVE  \A w \in todo : iv[u].end < iv[w].start
BY DEF IntervalTypes

\* A scan step that spills v, in either mode.
LEMMA SpillStep ==
  ASSUME AllocInv, phase = "scan", NEW v \in todo, \A w \in todo : Before(v, w),
         asg' = [asg EXCEPT ![v] = Spilled(areas)], areas' = areas + 1,
         active' \in {active, Expire(active, iv[v].start)}, todo' = todo \ {v},
         UNCHANGED <<fn, mode, phase, iv, errors>>
  PROVE  AllocInv'
<1>1. /\ fn \in Functions /\ areas \in Nat /\ ScanInv /\ v \in Values(fn)
      /\ DOMAIN asg = Values(fn)
  BY DEF AllocInv, Built, ScanInv, IntervalTypes
<1>2. /\ asg'[v] = Spilled(areas) /\ DOMAIN asg' = Values(fn)
      /\ \A u \in Values(fn) : u # v => asg'[u] = asg[u]
  BY <1>1
<1>3. asg'[v].spilled /\ asg'[v].spillIx \in Nat
  BY <1>1, <1>2 DEF Spilled
<1>4. Scanned' = Scanned \cup {v} /\ v \notin Scanned
  BY <1>1 DEF Scanned, ScanInv
<1>5. \A w \in todo : iv[v].start <= iv[w].start
  BY <1>1, NextStartsFirst DEF ScanInv
<1>6. InOrder'
  BY <1>1, <1>4, <1>5 DEF InOrder, ScanInv
<1>7. ActiveRecords'
  <2> SUFFICES ASSUME NEW u \in Scanned', ~ asg'[u].spilled
               PROVE  \/ [end |-> iv[u].end, reg |-> asg[u].reg] \in active'
                      \/ \A w \in todo' : iv[u].end < iv[w].start
    BY <1>1, <1>2, <1>3, <1>4 DEF ActiveRecords, Scanned, ScanInv, IntervalTypes
  <2>1. u \in Scanned /\ u \in Values(fn) /\ asg'[u] = asg[u] /\ ~ asg[u].spilled
    BY <1>1, <1>2, <1>3, <1>4 DEF Scanned, ScanInv, IntervalTypes
  <2>2. CASE \A w \in todo : iv[u].end < iv[w].start
    BY <2>2
  <2>3. CASE /\ [end |-> iv[u].end, reg |-> asg[u].reg] \in active
             /\ [end |-> iv[u].end, reg |-> asg[u].reg] \notin active'
    <3>1. ~ (iv[u].end >= iv[v].start)
      BY <2>3 DEF Expire
    <3> QED
      BY <1>1, <1>5, <2>1, <3>1, SMTT(30) DEF Scanned, ScanInv, IntervalTypes
  <2> QED
    BY <1>1, <2>1, <2>2, <2>3 DEF ScanInv, ActiveRecords
<1>8. Exclusive' /\ KillsTolerated' /\ Placed'
  <2>1. \A u \in Scanned : asg'[u] = asg[u]
    BY <1>1, <1>2, <1>4 DEF Scanned, ScanInv, IntervalTypes
  <2>2. Exclusive'
    <3> SUFFICES ASSUME NEW u \in Scanned', NEW w \in Scanned', u # w, ~ asg'[u].spilled,
                        ~ asg'[w].spilled, asg'[u].reg = asg'[w].reg
                 PROVE  iv[u].end < iv[w].start \/ iv[w].end < iv[u].start
      BY DEF Exclusive
    <3>1. u \in Scanned /\ w \in Scanned /\ asg'[u] = asg[u] /\ asg'[w] = asg[w]
      BY <1>3, <1>4, <2>1
    <3> QED
      BY <1>1, <3>1 DEF Exclusive, ScanInv
  <2>3. KillsTolerated'
    BY <1>1, <1>3, <1>4, <2>1 DEF KillsTolerated, ScanInv
  <2>4. Placed'
    BY <1>1, <1>3, <1>4, <2>1 DEF Placed, ScanInv
  <2> QED
    BY <2>2, <2>3, <2>4
<1>9. ScanInv'
  BY <1>1, <1>6, <1>7, <1>8 DEF ScanInv, IntervalTypes
<1> QED
  BY <1>1, <1>2, <1>9 DEF AllocInv, Built

\* A scan step that gives v a register.
LEMMA HomeStep ==
  ASSUME AllocInv, phase = "scan", NEW v \in todo, \A w \in todo : Before(v, w),
         NEW reg, NEW save \in BOOLEAN, save <=> NeedsSave(fn, iv[v], reg),
         \A a \in Expire(active, iv[v].start) : a.reg # reg,
         KillOk(fn, iv[v], reg),
         asg' = [asg EXCEPT ![v] = Homed(reg, save, areas)],
         areas' = IF save THEN areas + 1 ELSE areas,
         active' = Expire(active, iv[v].start) \cup {[end |-> iv[v].end, reg |-> reg]},
         todo' = todo \ {v},
         UNCHANGED <<fn, mode, phase, iv, errors>>
  PROVE  AllocInv'
<1>1. /\ fn \in Functions /\ areas \in Nat /\ areas' \in Nat /\ ScanInv /\ v \in Values(fn)
      /\ DOMAIN asg = Values(fn) /\ v \in DOMAIN iv
  <2>1. fn \in Functions /\ areas \in Nat /\ ScanInv /\ DOMAIN asg = Values(fn)
    BY DEF AllocInv, Built
  <2>2. v \in DOMAIN iv /\ v \in Values(fn)
    BY <2>1 DEF ScanInv, IntervalTypes
  <2>3. areas' \in Nat
    BY <2>1
  <2> QED
    BY <2>1, <2>2, <2>3
<1>2. /\ asg'[v] = Homed(reg, save, areas) /\ DOMAIN asg' = Values(fn)
      /\ \A u \in Values(fn) : u # v => asg'[u] = asg[u]
  BY <1>1
<1>3. ~ asg'[v].spilled /\ asg'[v].reg = reg /\ asg'[v].save = save
  BY <1>2 DEF Homed
<1>4. Scanned' = Scanned \cup {v} /\ v \notin Scanned /\ Scanned \subseteq DOMAIN iv
  BY <1>1 DEF Scanned, ScanInv
<1>5. \A w \in todo : iv[v].start <= iv[w].start
  BY <1>1, NextStartsFirst DEF ScanInv
<1>6. \A u \in Scanned : asg'[u] = asg[u] /\ u # v
  BY <1>1, <1>2, <1>4 DEF ScanInv, IntervalTypes
\* An interval not active any more ended before v begins.
<1>7. \A u \in Scanned : ~ asg[u].spilled =>
        \/ [end |-> iv[u].end, reg |-> asg[u].reg] \in Expire(active, iv[v].start)
        \/ iv[u].end < iv[v].start
  <2> SUFFICES ASSUME NEW u \in Scanned, ~ asg[u].spilled
               PROVE  \/ [end |-> iv[u].end, reg |-> asg[u].reg] \in Expire(active, iv[v].start)
                      \/ iv[u].end < iv[v].start
    OBVIOUS
  <2>1. CASE \A w \in todo : iv[u].end < iv[w].start
    BY <2>1
  <2>2. CASE [end |-> iv[u].end, reg |-> asg[u].reg] \in active
    <3>1. iv[u].end \in Int /\ iv[v].start \in Int
      BY <1>1, <1>4 DEF ScanInv, IntervalTypes
    <3> QED
      BY <2>2, <3>1, SMTT(30) DEF Expire
  <2> QED
    BY <1>1, <2>1, <2>2 DEF ScanInv, ActiveRecords
<1>8. InOrder'
  BY <1>1, <1>4, <1>5 DEF InOrder, ScanInv
<1>9. ActiveRecords'
  <2> SUFFICES ASSUME NEW u \in Scanned', ~ asg'[u].spilled
               PROVE  \/ [end |-> iv[u].end, reg |-> asg'[u].reg] \in active'
                      \/ \A w \in todo' : iv[u].end < iv[w].start
    BY DEF ActiveRecords
  <2>0. /\ \A a \in Expire(active, iv[v].start) : a \in active'
        /\ [end |-> iv[v].end, reg |-> reg] \in active'
    OBVIOUS
  <2>1. CASE u = v
    BY <1>3, <2>0, <2>1, Zenon
  <2>2. CASE u \in Scanned /\ iv[u].end < iv[v].start
    <3>1. IntervalTypes /\ todo \subseteq DOMAIN iv /\ u \in DOMAIN iv
      BY <1>1, <1>4, <2>2 DEF ScanInv
    <3>2. \A w \in todo : iv[u].end < iv[w].start
      BY <1>1, <1>5, <2>2, <3>1, EndedForGood
    <3> QED
      BY <3>2
  <2>3. CASE u \in Scanned /\ [end |-> iv[u].end, reg |-> asg[u].reg] \in Expire(active, iv[v].start)
    <3>1. asg'[u] = asg[u]
      BY <1>6, <2>3
    <3>2. [end |-> iv[u].end, reg |-> asg[u].reg] \in active'
      BY <2>0, <2>3, Zenon
    <3> QED
      BY <3>1, <3>2, Zenon
  <2> QED
    BY <1>4, <1>6, <1>7, <2>1, <2>2, <2>3
<1>10. Exclusive'
  <2>1. \A u \in Scanned : ~ asg[u].spilled /\ asg[u].reg = reg => iv[u].end < iv[v].start
    BY <1>7
  <2>2. Exclusive
    BY <1>1 DEF ScanInv
  <2> SUFFICES ASSUME NEW u \in Scanned', NEW w \in Scanned', u # w, ~ asg'[u].spilled,
                      ~ asg'[w].spilled, asg'[u].reg = asg'[w].reg
               PROVE  iv[u].end < iv[w].start \/ iv[w].end < iv[u].start
    BY DEF Exclusive
  <2>3. CASE u \in Scanned /\ w \in Scanned
    BY <1>6, <2>2, <2>3 DEF Exclusive
  <2>4. CASE u = v /\ w \in Scanned
    BY <1>3, <1>6, <2>1, <2>4
  <2>5. CASE w = v /\ u \in Scanned
    BY <1>3, <1>6, <2>1, <2>5
  <2> QED
    BY <1>4, <2>3, <2>4, <2>5
<1>11. KillsTolerated'
  <2>1. \A i \in Clashes(fn, iv[v], reg) : IsCallLike(fn, i) /\ save /\ Crosses(iv[v], i)
    BY DEF KillOk, Tolerated, NeedsSave
  <2> QED
    BY <1>1, <1>3, <1>4, <1>6, <2>1 DEF KillsTolerated, ScanInv
<1>12. Placed'
  BY <1>1, <1>3, <1>4, <1>6 DEF Placed, ScanInv
<1>13. ScanInv'
  BY <1>1, <1>8, <1>9, <1>10, <1>11, <1>12 DEF ScanInv, IntervalTypes
<1> QED
  BY <1>1, <1>2, <1>13 DEF AllocInv, Built

LEMMA ScanStep ==
  ASSUME AllocInv, Scan
  PROVE  AllocInv'
<1>1. PICK v \in todo : /\ \A w \in todo : Before(v, w)
                        /\ IF mode = "trivial" THEN SpillNext(v) ELSE AssignNext(v)
                        /\ todo' = todo \ {v}
  BY DEF Scan
<1>2. phase = "scan" /\ UNCHANGED <<fn, mode, phase, iv, errors>>
  BY DEF Scan
<1>3. CASE SpillNext(v)
  BY <1>1, <1>2, <1>3, SpillStep DEF SpillNext
<1>4. CASE AssignNext(v)
  <2> DEFINE acts == Expire(active, iv[v].start)
             ks == FreeRegs(fn, v, acts)
             reg == Order(fn, v)[Least(ks)]
             save == NeedsSave(fn, iv[v], reg)
  <2>1. CASE ks = {}
    <3>1. /\ asg' = [asg EXCEPT ![v] = Spilled(areas)] /\ areas' = areas + 1 /\ active' = acts
      BY <1>4, <2>1 DEF AssignNext
    <3> QED
      BY <1>1, <1>2, <3>1, SpillStep
  <2>2. CASE ks # {}
    <3>1. /\ asg' = [asg EXCEPT ![v] = Homed(reg, save, areas)]
          /\ areas' = IF save THEN areas + 1 ELSE areas
          /\ active' = acts \cup {[end |-> iv[v].end, reg |-> reg]}
      BY <1>4, <2>2 DEF AssignNext
    <3>2. (\A a \in acts : a.reg # reg) /\ KillOk(fn, iv[v], reg)
      BY <2>2, PickedRegister
    <3>3. save \in BOOLEAN
      BY DEF NeedsSave
    <3> HIDE DEF reg, ks
    <3> QED
      BY <1>1, <1>2, <3>1, <3>2, <3>3, HomeStep
  <2> QED
    BY <2>1, <2>2
<1> QED
  BY <1>1, <1>3, <1>4

LEMMA InitInv == AllocInit => AllocInv
BY ProgramsAssumption DEF AllocInit, AllocInv, Built

LEMMA NextInv ==
  ASSUME AllocInv, [AllocNext]_allocVars
  PROVE  AllocInv'
<1>1. CASE LivenessBlock
  BY <1>1 DEF LivenessBlock, AllocInv, Built
<1>2. CASE BuildIntervals
  BY <1>2, BuildStep
<1>3. CASE Scan
  BY <1>3, ScanStep
<1>4. CASE ScanDone
  <2>1. /\ phase = "scan" /\ todo = {}
        /\ UNCHANGED <<fn, iv, asg, todo, active, areas, errors>>
    BY <1>4 DEF ScanDone
  <2>2. ScanInv'
    BY <2>1, ScanFrame DEF AllocInv, Built
  <2> QED
    BY <2>1, <2>2 DEF AllocInv
<1>5. CASE Verify
  BY <1>5, VerifyStep
<1>6. CASE UNCHANGED allocVars
  BY <1>6, Unmoved
<1> QED
  BY <1>1, <1>2, <1>3, <1>4, <1>5, <1>6 DEF AllocNext

\* Whatever functions the back end is given, the machine verifier of x86_regalloc.cpp never finds
\* anything in an assignment its scan made, so "register allocator:" errors are unreachable.
THEOREM AllocationIsVerified == AllocSpec => []VerifierFindsNothing
<1>1. AllocInv => VerifierFindsNothing
  BY DEF AllocInv, VerifierFindsNothing
<1> QED
  BY InitInv, NextInv, <1>1, PTL DEF AllocSpec

\* Whatever functions the back end is given, once the scan is done no two values of overlapping
\* intervals share a register (the verifier only compares neighbours), a register that a template
\* overwrites holds only values parked around that very call, and every spilled value has an area.
THEOREM AssignmentIsSound ==
  AllocSpec => [](phase = "done" => Scanned = DOMAIN iv /\ Exclusive /\ KillsTolerated /\ Placed)
<1>1. AllocInv => (phase = "done" => Scanned = DOMAIN iv /\ Exclusive /\ KillsTolerated /\ Placed)
  BY DEF AllocInv, Built, ScanInv, Scanned
<1> QED
  BY InitInv, NextInv, <1>1, PTL DEF AllocSpec

-----------------------------------------------------------------------------
(* The liveness sweep.                                                     *)

\* X answers the question "where is v live on entry?": it holds every block that reads v before
\* defining it, and every block that leads to one of X and does not define v.
Answers(X, v) ==
  \A b \in Blocks(fn) :
    v \in Gen(fn, b) \/ (v \notin Def(fn, b) /\ \E s \in X : s \in Successors(fn, b)) => b \in X

\* Nothing is live that some answer leaves out.
NothingExtra ==
  \A v \in Values(fn), X \in SUBSET Blocks(fn) : Answers(X, v) =>
    \A b \in Blocks(fn) :
      /\ v \in liveIn[b] => b \in X
      /\ v \in liveOut[b] => \E s \in X : s \in Successors(fn, b)

\* A visit of b would change nothing.
Stable(b) ==
  /\ OutOf(fn, b) \subseteq liveOut[b]
  /\ Gen(fn, b) \cup (liveOut[b] \ Def(fn, b)) \subseteq liveIn[b]

\* Blocks visited by a sweep that has changed nothing so far are stable, and all of them are once
\* a sweep ends without a change.
SweepInv ==
  /\ fn \in Functions
  /\ liveIn = [b \in Blocks(fn) |-> liveIn[b]] /\ liveOut = [b \in Blocks(fn) |-> liveOut[b]]
  /\ cursor \in Int
  /\ changed \in BOOLEAN
  /\ NothingExtra
  /\ phase = "liveness" /\ ~ changed => \A b \in Blocks(fn) : b > cursor => Stable(b)
  /\ phase = "intervals" => \A b \in Blocks(fn) : Stable(b)

LEMMA BlocksAreNumbers ==
  ASSUME NEW f \in Functions
  PROVE  Blocks(f) = 1 .. Len(f.first) /\ Len(f.first) \in Nat
BY DEF Functions, Blocks

LEMMA InitSweep == AllocInit => SweepInv
<1> SUFFICES ASSUME AllocInit PROVE SweepInv
  OBVIOUS
<1>1. fn \in Functions
  BY ProgramsAssumption DEF AllocInit
<1>2. Blocks(fn) = 1 .. Len(fn.first) /\ Len(fn.first) \in Nat
  BY <1>1, BlocksAreNumbers
<1>3. /\ liveIn = [b \in Blocks(fn) |-> {}] /\ liveOut = [b \in Blocks(fn) |-> {}]
      /\ cursor = Len(fn.first) /\ changed = FALSE /\ phase = "liveness"
  BY DEF AllocInit
<1>4. NothingExtra
  BY <1>3 DEF NothingExtra
<1>5. \A b \in Blocks(fn) : ~ (b > cursor)
  BY <1>2, <1>3
<1>6. liveIn = [b \in Blocks(fn) |-> liveIn[b]] /\ liveOut = [b \in Blocks(fn) |-> liveOut[b]]
  BY <1>3
<1>7. cursor \in Int /\ phase # "intervals"
  BY <1>2, <1>3
<1>8. changed \in BOOLEAN
  BY <1>3, Zenon
<1> QED
  BY <1>1, <1>4, <1>5, <1>6, <1>7, <1>8, Zenon DEF SweepInv

\* One visit adds to the sets of a block only what every answer has.
LEMMA VisitAddsNothingExtra ==
  ASSUME SweepInv, LivenessBlock
  PROVE  NothingExtra'
<1> DEFINE out == OutOf(fn, cursor)
           in == liveIn[cursor] \cup Gen(fn, cursor) \cup (out \ Def(fn, cursor))
<1>1. /\ liveOut' = [liveOut EXCEPT ![cursor] = out]
      /\ liveIn' = [liveIn EXCEPT ![cursor] = in] /\ fn' = fn
  BY DEF LivenessBlock
<1> SUFFICES ASSUME NEW v \in Values(fn), NEW X \in SUBSET Blocks(fn), Answers(X, v),
                    NEW b \in Blocks(fn)
             PROVE  /\ v \in liveIn'[b] => b \in X
                    /\ v \in liveOut'[b] => \E s \in X : s \in Successors(fn, b)
  BY <1>1 DEF NothingExtra, Answers
<1>2. /\ \A c \in Blocks(fn) : v \in liveIn[c] => c \in X
      /\ \A c \in Blocks(fn) : v \in liveOut[c] => \E s \in X : s \in Successors(fn, c)
  BY DEF SweepInv, NothingExtra
<1>3. CASE b # cursor
  BY <1>1, <1>2, <1>3 DEF SweepInv
<1>4. CASE b = cursor
  <2>1. liveIn'[b] = in /\ liveOut'[b] = out
    BY <1>1, <1>4 DEF SweepInv
  <2>2. Successors(fn, b) \subseteq Blocks(fn)
    BY DEF SweepInv, Functions, Verified
  <2>3. v \in out => \E s \in X : s \in Successors(fn, b)
    BY <1>2, <1>4, <2>2 DEF OutOf
  <2>4. v \in in => b \in X
    BY <1>2, <1>4, <2>3 DEF Answers
  <2> QED
    BY <2>1, <2>3, <2>4
<1> QED
  BY <1>3, <1>4

LEMMA VisitSweep ==
  ASSUME SweepInv, LivenessBlock
  PROVE  SweepInv'
<1> DEFINE out == OutOf(fn, cursor)
           in == liveIn[cursor] \cup Gen(fn, cursor) \cup (out \ Def(fn, cursor))
           any == changed \/ out # liveOut[cursor] \/ in # liveIn[cursor]
<1>1. /\ liveOut' = [liveOut EXCEPT ![cursor] = out]
      /\ liveIn' = [liveIn EXCEPT ![cursor] = in] /\ fn' = fn
      /\ phase = "liveness"
  BY DEF LivenessBlock
<1>2. /\ cursor' = IF cursor = 1 THEN Len(fn.first) ELSE cursor - 1
      /\ changed' = (cursor # 1 /\ any)
      /\ phase' = IF cursor = 1 /\ ~ any THEN "intervals" ELSE "liveness"
  BY DEF LivenessBlock, Resweep
<1>3. Blocks(fn) = 1 .. Len(fn.first) /\ Len(fn.first) \in Nat
  BY BlocksAreNumbers DEF SweepInv
<1>4. /\ liveIn' = [b \in Blocks(fn) |-> liveIn'[b]]
      /\ liveOut' = [b \in Blocks(fn) |-> liveOut'[b]]
  BY <1>1 DEF SweepInv
<1>5. cursor' \in Int /\ changed' \in BOOLEAN
  BY <1>2, <1>3 DEF SweepInv
\* A visit that changes nothing leaves the visited blocks stable, and the block it visits.
<1>6. ASSUME ~ any
      PROVE  \A b \in Blocks(fn) : b >= cursor => Stable(b)'
  <2>1. liveOut' = liveOut /\ liveIn' = liveIn
    BY <1>1, <1>6 DEF SweepInv
  <2>2. \A b \in Blocks(fn) : b > cursor => Stable(b)
    BY <1>1, <1>6 DEF SweepInv
  <2>3. cursor \in Blocks(fn) => Stable(cursor)
    BY <1>6 DEF Stable
  <2>4. \A b \in Blocks(fn) : b >= cursor => Stable(b)
    BY <1>3, <2>2, <2>3 DEF SweepInv
  <2> QED
    BY <1>1, <2>1, <2>4 DEF Stable, OutOf
<1>7. phase' = "liveness" /\ ~ changed' => \A b \in Blocks(fn) : b > cursor' => Stable(b)'
  <2>1. CASE cursor = 1
    BY <1>2, <1>3, <2>1
  <2>2. CASE cursor # 1
    <3> SUFFICES ASSUME ~ changed', NEW b \in Blocks(fn), b > cursor'
                 PROVE  Stable(b)'
      OBVIOUS
    <3>1. ~ any /\ cursor' = cursor - 1
      BY <1>2, <2>2
    <3>2. b >= cursor
      BY <1>3, <3>1 DEF SweepInv
    <3> QED
      BY <1>6, <3>1, <3>2
  <2> QED
    BY <2>1, <2>2
<1>8. phase' = "intervals" => \A b \in Blocks(fn) : Stable(b)'
  <2> SUFFICES ASSUME phase' = "intervals", NEW b \in Blocks(fn) PROVE Stable(b)'
    OBVIOUS
  <2>1. ~ any /\ b >= cursor
    BY <1>2, <1>3
  <2> QED
    BY <1>6, <2>1
<1>9. NothingExtra'
  BY VisitAddsNothingExtra
<1>10. fn' \in Functions /\ Blocks(fn') = Blocks(fn)
  BY <1>1 DEF SweepInv
<1> QED
  BY <1>4, <1>5, <1>7, <1>8, <1>9, <1>10 DEF SweepInv

LEMMA NextSweep ==
  ASSUME SweepInv, [AllocNext]_allocVars
  PROVE  SweepInv'
<1>1. CASE LivenessBlock
  BY <1>1, VisitSweep
<1>2. CASE BuildIntervals \/ Scan \/ ScanDone \/ Verify \/ UNCHANGED allocVars
  <2>1. /\ UNCHANGED <<fn, cursor, changed, liveIn, liveOut>>
        /\ phase' \in {"scan", "verify", "done"} \/ phase' = phase
    BY <1>2 DEF BuildIntervals, Scan, ScanDone, Verify, allocVars
  <2>2. NothingExtra'
    BY <2>1 DEF SweepInv, NothingExtra, Answers
  <2>3. \A b : Stable(b) => Stable(b)'
    BY <2>1 DEF Stable, OutOf
  <2> QED
    BY <2>1, <2>2, <2>3 DEF SweepInv
<1> QED
  BY <1>1, <1>2 DEF AllocNext

\* Whatever function the back end is given, and however many sweeps build_intervals takes over it,
\* the liveness it stops with is exact.
THEOREM LivenessAlwaysExact == AllocSpec => []LivenessIsExact
<1> DEFINE gen == UNION {{b} \X Gen(fn, b) : b \in Blocks(fn)}
           def == UNION {{b} \X Def(fn, b) : b \in Blocks(fn)}
           edge == UNION {{b} \X Successors(fn, b) : b \in Blocks(fn)}
           closed(X, v) == \A b \in Blocks(fn) :
             <<b, v>> \in gen \/ (<<b, v>> \notin def /\ \E s \in X : <<b, s>> \in edge) => b \in X
<1>1. SweepInv => LivenessIsExact
  <2> SUFFICES ASSUME SweepInv, phase = "intervals", NEW v \in Values(fn), NEW b \in Blocks(fn)
               PROVE  v \in liveIn[b] <=> \A X \in SUBSET Blocks(fn) : closed(X, v) => b \in X
    BY DEF LivenessIsExact
  <2>1. \A c \in Blocks(fn) : \A w :
          /\ <<c, w>> \in gen <=> w \in Gen(fn, c)
          /\ <<c, w>> \in def <=> w \in Def(fn, c)
          /\ <<c, w>> \in edge <=> w \in Successors(fn, c)
    OBVIOUS
  <2>2. \A X : closed(X, v) <=> Answers(X, v)
    BY <2>1 DEF Answers
  <2>3. ASSUME v \in liveIn[b], NEW X \in SUBSET Blocks(fn), closed(X, v)
        PROVE  b \in X
    BY <2>2, <2>3 DEF SweepInv, NothingExtra
  <2>4. ASSUME \A X \in SUBSET Blocks(fn) : closed(X, v) => b \in X
        PROVE  v \in liveIn[b]
    <3> DEFINE live == {c \in Blocks(fn) : v \in liveIn[c]}
    <3>1. Answers(live, v)
      <4> SUFFICES ASSUME NEW c \in Blocks(fn),
                          v \in Gen(fn, c) \/ (v \notin Def(fn, c) /\ \E s \in live : s \in Successors(fn, c))
                   PROVE  c \in live
        BY DEF Answers
      <4>1. Stable(c)
        BY DEF SweepInv
      <4>2. CASE v \in Gen(fn, c)
        BY <4>1, <4>2 DEF Stable
      <4>3. CASE v \notin Def(fn, c) /\ \E s \in live : s \in Successors(fn, c)
        <5>1. v \in OutOf(fn, c)
          BY <4>3 DEF OutOf
        <5> QED
          BY <4>1, <4>3, <5>1 DEF Stable
      <4> QED
        BY <4>2, <4>3
    <3>2. live \in SUBSET Blocks(fn) /\ closed(live, v)
      <4> HIDE DEF live, closed
      <4>1. live \subseteq Blocks(fn)
        BY DEF live
      <4> QED
        BY <2>2, <3>1, <4>1
    <3>3. b \in live
      <4> HIDE DEF live, closed
      <4> QED
        BY <2>4, <3>2
    <3> QED
      BY <3>3
  <2> QED
    BY <2>3, <2>4
<1> QED
  BY InitSweep, NextSweep, <1>1, PTL DEF AllocSpec

-----------------------------------------------------------------------------
(* The callee-saved registers the prologue must save.                      *)

\* used_callee_saved names every callee-saved register that is the home of a value.
UsedInv ==
  /\ DOMAIN asg = Values(fn)
  /\ used \subseteq CalleeSaved
  /\ \A v \in Values(fn) : ~ asg[v].spilled /\ asg[v].reg \in CalleeSaved => asg[v].reg \in used

LEMMA InitUsed == AllocInit => UsedInv
BY DEF AllocInit, UsedInv, Unassigned

LEMMA NextUsed ==
  ASSUME UsedInv, [AllocNext]_allocVars
  PROVE  UsedInv'
<1>1. CASE UNCHANGED <<fn, asg, used>>
  BY <1>1 DEF UsedInv
<1>2. CASE Scan
  <2>1. PICK v \in todo : IF mode = "trivial" THEN SpillNext(v) ELSE AssignNext(v)
    BY <1>2 DEF Scan
  <2>2. fn' = fn
    BY <1>2 DEF Scan
  <2>3. CASE asg' = [asg EXCEPT ![v] = Spilled(areas)] /\ used' = used
    BY <2>2, <2>3 DEF UsedInv, Spilled
  <2>4. CASE \E reg, save : /\ asg' = [asg EXCEPT ![v] = Homed(reg, save, areas)]
                            /\ used' = RecordUsed(used, reg)
    BY <2>2, <2>4 DEF UsedInv, Homed, RecordUsed
  <2>5. CASE SpillNext(v)
    BY <2>3, <2>5 DEF SpillNext
  <2>6. CASE AssignNext(v)
    BY <2>3, <2>4, <2>6 DEF AssignNext
  <2> QED
    BY <2>1, <2>5, <2>6
<1> QED
  BY <1>1, <1>2 DEF AllocNext, LivenessBlock, BuildIntervals, ScanDone, Verify, allocVars
=============================================================================
