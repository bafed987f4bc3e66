--------------------------- MODULE X86EmitProofs ---------------------------
(***************************************************************************)
(* For every set of functions the back end may be given: the emitter on    *)
(* top of the allocator keeps what was proved of the allocator, leaves the *)
(* stack as it found it at every instruction, and returns with the         *)
(* caller's contents in every callee-saved register the allocation uses.   *)
(***************************************************************************)
EXTENDS X86Emit, X86RegAllocProofs

Elems(s) == {s[k] : k \in 1 .. Len(s)}

\* A step that leaves control in the template, writes no callee-saved register's slot and gives
\* no new instance to the caller's contents of a register.
Quiet(x) ==
  \/ x[1] = "movs" /\ \A m \in x[2] : m[1][1] # 3
  \/ x[1] = "def" /\ x[2] \in Nat \cup {Outcome} /\ x[3][1] # 3
  \/ x[1] = "clobber" /\ \A l \in x[2] : l[1] # 3
  \/ x[1] \in {"use", "push", "pop"}
  \/ x[1] = "bind" /\ x[2] \in Blocks(fn)

\* What a step adds to the depth of the stack.
Lift(x) == IF x[1] = "push" THEN 1 ELSE IF x[1] = "pop" THEN -1 ELSE 0

\* The steps s are quiet and take the stack from depth a to depth b without ever popping an empty
\* stack: some function gives the depth after each of them.
Passage(s, a, b) ==
  /\ s \in Seq(Elems(s))
  /\ \A x \in Elems(s) : Quiet(x)
  /\ \E depth \in [0 .. Len(s) -> Nat] :
       /\ depth[0] = a /\ depth[Len(s)] = b
       /\ \A k \in 1 .. Len(s) : depth[k] = depth[k - 1] + Lift(s[k])

-----------------------------------------------------------------------------
(* Passages compose.                                                       *)

LEMMA NoSteps ==
  ASSUME NEW a \in Nat
  PROVE  Passage(<<>>, a, a)
<1>1. <<>> \in Seq(Elems(<<>>)) /\ Elems(<<>>) = {}
  BY DEF Elems
<1>2. Len(<<>>) = 0
  OBVIOUS
<1>3. \E d \in [0 .. 0 -> Nat] : d[0] = a
  <2>1. [k \in 0 .. 0 |-> a] \in [0 .. 0 -> Nat] /\ [k \in 0 .. 0 |-> a][0] = a
    OBVIOUS
  <2> QED
    BY <2>1, Zenon
<1> QED
  BY <1>1, <1>2, <1>3 DEF Passage

LEMMA OneStep ==
  ASSUME NEW x, Quiet(x), NEW a \in Nat, a + Lift(x) \in Nat
  PROVE  Passage(<<x>>, a, a + Lift(x))
<1> DEFINE s == <<x>>
           depth == [k \in 0 .. 1 |-> IF k = 0 THEN a ELSE a + Lift(x)]
<1>1. Len(s) = 1 /\ s[1] = x
  OBVIOUS
<1>2. Elems(s) = {x}
  BY <1>1 DEF Elems
<1>3. s \in Seq({x})
  OBVIOUS
<1>4. depth \in [0 .. Len(s) -> Nat]
  BY <1>1
<1>5. /\ depth[0] = a /\ depth[Len(s)] = a + Lift(x)
      /\ \A k \in 1 .. Len(s) : depth[k] = depth[k - 1] + Lift(s[k])
  BY <1>1
<1>6. \E d \in [0 .. Len(s) -> Nat] :
        /\ d[0] = a /\ d[Len(s)] = a + Lift(x)
        /\ \A k \in 1 .. Len(s) : d[k] = d[k - 1] + Lift(s[k])
  BY <1>4, <1>5, Zenon
<1> QED
  BY <1>2, <1>3, <1>6 DEF Passage

LEMMA OwnElems ==
  ASSUME NEW S, NEW s \in Seq(S)
  PROVE  s \in Seq(Elems(s))
<1>1. \A k \in 1 .. Len(s) : s[k] \in Elems(s)
  BY DEF Elems
<1> QED
  BY <1>1

LEMMA JoinedElems ==
  ASSUME NEW s, s \in Seq(Elems(s)), NEW t, t \in Seq(Elems(t))
  PROVE  /\ s \o t \in Seq(Elems(s \o t))
         /\ Elems(s \o t) = Elems(s) \cup Elems(t)
         /\ Len(s) \in Nat /\ Len(t) \in Nat /\ Len(s \o t) = Len(s) + Len(t)
         /\ \A k \in 1 .. Len(s) : (s \o t)[k] = s[k]
         /\ \A k \in 1 .. Len(t) : (s \o t)[Len(s) + k] = t[k]
<1> DEFINE S == Elems(s) \cup Elems(t)
<1>1. s \in Seq(S) /\ t \in Seq(S)
  OBVIOUS
<1> HIDE DEF S
<1>2. /\ s \o t \in Seq(S) /\ Len(s) \in Nat /\ Len(t) \in Nat /\ Len(s \o t) = Len(s) + Len(t)
      /\ \A k \in 1 .. Len(s) : (s \o t)[k] = s[k]
      /\ \A k \in 1 .. Len(t) : (s \o t)[Len(s) + k] = t[k]
  BY <1>1
<1>3. ASSUME NEW x \in Elems(s \o t)
      PROVE  x \in S
  BY <1>2 DEF Elems
<1>4. ASSUME NEW x \in Elems(s)
      PROVE  x \in Elems(s \o t)
  BY <1>2 DEF Elems
<1>5. ASSUME NEW x \in Elems(t)
      PROVE  x \in Elems(s \o t)
  <2>1. PICK k \in 1 .. Len(t) : x = t[k]
    BY DEF Elems
  <2>2. Len(s) + k \in 1 .. Len(s \o t) /\ (s \o t)[Len(s) + k] = x
    BY <1>2, <2>1
  <2> QED
    BY <2>2, Zenon DEF Elems
<1>6. Elems(s \o t) = S
  BY <1>3, <1>4, <1>5 DEF S
<1> QED
  BY <1>2, <1>6 DEF S

LEMMA Then ==
  ASSUME NEW s, NEW t, NEW a, NEW b, NEW c, Passage(s, a, b), Passage(t, b, c)
  PROVE  Passage(s \o t, a, c)
<1>1. s \in Seq(Elems(s)) /\ t \in Seq(Elems(t))
  BY DEF Passage
<1>2. /\ s \o t \in Seq(Elems(s \o t))
      /\ Elems(s \o t) = Elems(s) \cup Elems(t)
      /\ Len(s) \in Nat /\ Len(t) \in Nat /\ Len(s \o t) = Len(s) + Len(t)
      /\ \A k \in 1 .. Len(s) : (s \o t)[k] = s[k]
      /\ \A k \in 1 .. Len(t) : (s \o t)[Len(s) + k] = t[k]
  BY <1>1, JoinedElems
<1>3. PICK ds \in [0 .. Len(s) -> Nat] :
        /\ ds[0] = a /\ ds[Len(s)] = b
        /\ \A k \in 1 .. Len(s) : ds[k] = ds[k - 1] + Lift(s[k])
  BY Zenon DEF Passage
<1>4. PICK dt \in [0 .. Len(t) -> Nat] :
        /\ dt[0] = b /\ dt[Len(t)] = c
        /\ \A k \in 1 .. Len(t) : dt[k] = dt[k - 1] + Lift(t[k])
  BY Zenon DEF Passage
<1> DEFINE d == [k \in 0 .. Len(s) + Len(t) |-> IF k <= Len(s) THEN ds[k] ELSE dt[k - Len(s)]]
<1>5. d \in [0 .. Len(s \o t) -> Nat]
  BY <1>2, <1>3, <1>4
<1>6. d[0] = a
  BY <1>2, <1>3
<1>7. d[Len(s \o t)] = c
  <2>1. CASE Len(t) = 0
    BY <1>2, <1>3, <1>4, <2>1
  <2>2. CASE Len(t) # 0
    BY <1>2, <1>4, <2>2
  <2> QED
    BY <2>1, <2>2
<1>8. ASSUME NEW k \in 1 .. Len(s \o t)
      PROVE  d[k] = d[k - 1] + Lift((s \o t)[k])
  <2>1. CASE k <= Len(s)
    BY <1>2, <1>3, <2>1
  <2>2. CASE k > Len(s)
    <3>1. k - Len(s) \in 1 .. Len(t) /\ (s \o t)[k] = t[k - Len(s)]
      <4>1. k - Len(s) \in 1 .. Len(t) /\ k = Len(s) + (k - Len(s))
        BY <1>2, <2>2
      <4> QED
        BY <1>2, <4>1
    <3>2. dt[k - Len(s)] = dt[k - Len(s) - 1] + Lift(t[k - Len(s)])
      BY <1>4, <3>1
    <3>3. d[k] = dt[k - Len(s)]
      BY <1>2, <2>2
    <3>4. d[k - 1] = dt[k - Len(s) - 1]
      <4>1. CASE k - 1 = Len(s)
        BY <1>2, <1>3, <1>4, <4>1
      <4>2. CASE k - 1 # Len(s)
        BY <1>2, <2>2, <4>2
      <4> QED
        BY <4>1, <4>2
    <3> QED
      BY <3>1, <3>2, <3>3, <3>4
  <2> QED
    BY <1>2, <2>1, <2>2
<1> HIDE DEF d
<1>9. \E e \in [0 .. Len(s \o t) -> Nat] :
        /\ e[0] = a /\ e[Len(s \o t)] = c
        /\ \A k \in 1 .. Len(s \o t) : e[k] = e[k - 1] + Lift((s \o t)[k])
  BY <1>5, <1>6, <1>7, <1>8, Zenon
<1>10. \A x \in Elems(s \o t) : Quiet(x)
  BY <1>2 DEF Passage
<1> QED
  BY <1>2, <1>9, <1>10, Zenon DEF Passage

\* The sequences built up by InTurn exist: the recursion has a solution over every prefix.
LEMMA InTurnSolved ==
  ASSUME NEW ss, NEW n \in Nat
  PROVE  \E g : g = [k \in 0 .. n |-> IF k = 0 THEN <<>> ELSE g[k - 1] \o ss[k]]
<1> DEFINE solved(m) == \E g : g = [k \in 0 .. m |-> IF k = 0 THEN <<>> ELSE g[k - 1] \o ss[k]]
           S == {m \in Nat : ~ solved(m)}
<1> SUFFICES ASSUME S # {} PROVE FALSE
  BY Zenon
<1>1. PICK x : x \in S /\ \A y \in S : x <= y
  <2> HIDE DEF S
  <2>1. S \subseteq Nat
    BY Zenon DEF S
  <2> QED
    BY <2>1, LeastIn, Zenon
<1>2. solved(0)
  <2> DEFINE g == [k \in 0 .. 0 |-> <<>>]
  <2>1. g = [k \in 0 .. 0 |-> IF k = 0 THEN <<>> ELSE g[k - 1] \o ss[k]]
    OBVIOUS
  <2> QED
    BY <2>1, Zenon
<1>3. x \in Nat /\ x - 1 \in Nat /\ solved(x - 1)
  <2> HIDE DEF solved
  <2>1. x \in Nat /\ x # 0
    BY <1>1, <1>2
  <2>2. x - 1 \in Nat /\ ~ (x <= x - 1)
    BY <2>1
  <2> QED
    BY <1>1, <2>1, <2>2
<1>4. PICK g : g = [k \in 0 .. x - 1 |-> IF k = 0 THEN <<>> ELSE g[k - 1] \o ss[k]]
  BY <1>3
<1> DEFINE h == [k \in 0 .. x |-> IF k = x THEN g[x - 1] \o ss[x] ELSE g[k]]
<1>5. ASSUME NEW k \in 0 .. x
      PROVE  h[k] = IF k = 0 THEN <<>> ELSE h[k - 1] \o ss[k]
  <2>1. CASE k = x
    <3>1. x - 1 \in 0 .. x /\ x - 1 # x /\ x # 0
      BY <1>3
    <3>2. h[x - 1] = g[x - 1] /\ h[x] = g[x - 1] \o ss[x]
      BY <1>3, <3>1
    <3> QED
      BY <2>1, <3>1, <3>2, Zenon
  <2>2. CASE k # x
    <3>1. k \in 0 .. x - 1 /\ h[k] = g[k] /\ (k # 0 => h[k - 1] = g[k - 1])
      BY <1>3, <2>2
    <3> QED
      BY <1>4, <3>1, Zenon
  <2> QED
    BY <2>1, <2>2
<1>6. h = [k \in 0 .. x |-> h[k]]
  OBVIOUS
<1>7. h = [k \in 0 .. x |-> IF k = 0 THEN <<>> ELSE h[k - 1] \o ss[k]]
  <2> HIDE DEF h
  <2> QED
    BY <1>5, <1>6, Zenon
<1>8. solved(x)
  <2> HIDE DEF h
  <2> QED
    BY <1>7, Zenon
<1> QED
  <2> HIDE DEF solved
  <2> QED
    BY <1>1, <1>8

\* Steps put one after the other that all keep the depth keep it together.
LEMMA InTurnStays ==
  ASSUME NEW ss, NEW a \in Nat, Len(ss) \in Nat, \A k \in 1 .. Len(ss) : Passage(ss[k], a, a)
  PROVE  Passage(InTurn(ss), a, a)
<1> DEFINE n == Len(ss)
           P(g) == g = [k \in 0 .. n |-> IF k = 0 THEN <<>> ELSE g[k - 1] \o ss[k]]
           up == CHOOSE g : P(g)
           T == {m \in 0 .. n : ~ Passage(up[m], a, a)}
<1>1. P(up)
  <2>1. \E g : P(g)
    BY InTurnSolved, Zenon
  <2> QED
    BY <2>1, Zenon
<1>2. InTurn(ss) = up[n]
  BY DEF InTurn
<1> HIDE DEF up
<1>3. up[0] = <<>> /\ \A k \in 1 .. n : up[k] = up[k - 1] \o ss[k]
  BY <1>1
<1> HIDE DEF P
<1>4. ASSUME T # {} PROVE FALSE
  <2>1. PICK x : x \in T /\ \A y \in T : x <= y
    <3>1. T \subseteq Nat
      OBVIOUS
    <3> HIDE DEF T
    <3> QED
      BY <1>4, <3>1, LeastIn, Zenon
  <2>2. x # 0
    BY <1>3, <2>1, NoSteps
  <2>3. x \in 1 .. n /\ x - 1 \in 0 .. n /\ ~ (x <= x - 1)
    BY <2>1, <2>2
  <2>4. Passage(up[x - 1], a, a)
    BY <2>1, <2>3
  <2>5. Passage(up[x - 1] \o ss[x], a, a)
    BY <2>3, <2>4, Then
  <2> QED
    BY <1>3, <2>1, <2>3, <2>5, Zenon
<1>5. Passage(up[n], a, a)
  BY <1>4
<1> QED
  BY <1>2, <1>5

-----------------------------------------------------------------------------
(* The parts templates are made of.                                        *)

\* The depth with lease l taken.
Over(a, l) == IF l.pushed THEN a + 1 ELSE a

LEMMA QuietMovs ==
  ASSUME NEW a \in Nat, NEW moves, \A m \in moves : m[1][1] # 3
  PROVE  Passage(Movs(moves), a, a)
<1> DEFINE x == <<"movs", moves>>
<1>1. x[1] = "movs" /\ x[2] = moves
  OBVIOUS
<1> HIDE DEF x
<1>2. Quiet(x) /\ a + Lift(x) = a
  BY <1>1 DEF Quiet, Lift
<1> QED
  BY <1>2, OneStep DEF Movs, x

LEMMA QuietMov ==
  ASSUME NEW a \in Nat, NEW d, NEW s, d[1] # 3
  PROVE  Passage(Mov(d, s), a, a)
<1>1. \A m \in {<<d, s>>} : m[1][1] # 3
  OBVIOUS
<1> QED
  BY <1>1, QuietMovs DEF Mov

LEMMA QuietUse ==
  ASSUME NEW a \in Nat, NEW v, NEW l
  PROVE  Passage(Use(v, l), a, a)
<1> DEFINE x == <<"use", v, l>>
<1>1. x[1] = "use"
  OBVIOUS
<1> HIDE DEF x
<1>2. Quiet(x) /\ a + Lift(x) = a
  BY <1>1 DEF Quiet, Lift
<1> QED
  BY <1>2, OneStep DEF Use, x

LEMMA QuietWrite ==
  ASSUME NEW a \in Nat, NEW v \in Nat \cup {Outcome}, NEW d, d[1] # 3
  PROVE  Passage(Write(v, d), a, a)
<1> DEFINE x == <<"def", v, d>>
<1>1. x[1] = "def" /\ x[2] = v /\ x[3] = d
  OBVIOUS
<1> HIDE DEF x
<1>2. Quiet(x) /\ a + Lift(x) = a
  BY <1>1 DEF Quiet, Lift
<1> QED
  BY <1>2, OneStep DEF Write, x

LEMMA QuietClobber ==
  ASSUME NEW a \in Nat, NEW ls, \A l \in ls : l[1] # 3
  PROVE  Passage(Clobber(ls), a, a)
<1> DEFINE x == <<"clobber", ls>>
<1>1. x[1] = "clobber" /\ x[2] = ls
  OBVIOUS
<1> HIDE DEF x
<1>2. Quiet(x) /\ a + Lift(x) = a
  BY <1>1 DEF Quiet, Lift
<1> QED
  BY <1>2, OneStep DEF Clobber, x

LEMMA QuietPush ==
  ASSUME NEW a \in Nat, NEW r
  PROVE  Passage(Push(r), a, a + 1) /\ Passage(Pop(r), a + 1, a)
<1> DEFINE x == <<"push", r>>
           y == <<"pop", r>>
<1>1. x[1] = "push" /\ y[1] = "pop"
  OBVIOUS
<1> HIDE DEF x, y
<1>2. Quiet(x) /\ a + Lift(x) = a + 1 /\ Quiet(y) /\ a + 1 + Lift(y) = a
  BY <1>1 DEF Quiet, Lift
<1>3. Passage(<<x>>, a, a + 1)
  BY <1>2, OneStep
<1>4. Passage(<<y>>, a + 1, a)
  <2>1. a + 1 \in Nat /\ a + 1 + Lift(y) \in Nat
    BY <1>2
  <2> QED
    BY <1>2, <2>1, OneStep
<1> QED
  BY <1>3, <1>4 DEF Push, Pop, x, y

\* Only the prologue's saves name a callee-saved register's slot.
LEMMA NotASlot ==
  /\ \A x : R(x)[1] # 3 /\ Area(x)[1] # 3 /\ Staging(x)[1] # 3 /\ OutArg(x)[1] # 3
  /\ \A v : Home(v)[1] # 3 /\ SaveArea(v)[1] # 3
  /\ RetStash[1] # 3 /\ Flags[1] # 3
<1>1. \A x : R(x)[1] # 3 /\ Area(x)[1] # 3 /\ Staging(x)[1] # 3 /\ OutArg(x)[1] # 3
  BY DEF R, Area, Staging, OutArg
<1>2. RetStash[1] # 3 /\ Flags[1] # 3
  BY DEF RetStash, Flags
<1>3. \A v : Home(v)[1] # 3 /\ SaveArea(v)[1] # 3
  BY <1>1 DEF Home, SaveArea
<1> QED
  BY <1>1, <1>2, <1>3

LEMMA LeaseLifts ==
  ASSUME NEW a \in Nat, NEW l
  PROVE  /\ Over(a, l) \in Nat
         /\ Passage(Take(l), a, Over(a, l))
         /\ Passage(Release(l), Over(a, l), a)
<1>1. a + 1 \in Nat
  OBVIOUS
<1>2. Passage(RspMoves(l), a, a)
  <2>1. Passage(Clobber({Flags}), a, a)
    BY QuietClobber, NotASlot
  <2> QED
    BY <2>1, NoSteps DEF RspMoves
<1>3. Passage(Push(l.reg), a, a + 1) /\ Passage(Pop(l.reg), a + 1, a)
  BY QuietPush
<1>4. Passage(RspMoves(l) \o Push(l.reg), a, a + 1)
  BY <1>2, <1>3, Then
<1>5. Passage(Pop(l.reg) \o RspMoves(l), a + 1, a)
  BY <1>2, <1>3, Then
<1> QED
  BY <1>1, <1>4, <1>5, NoSteps DEF Take, Release, Over

\* Fetching an operand takes the depth to that of the lease it is loaded into, if any.
LEMMA FetchLifts ==
  ASSUME NEW a \in Nat, NEW order, NEW i, NEW v, NEW exclude, NEW leased, NEW l,
         l = UseIn(order, i, v, exclude, leased)
  PROVE  Passage(Fetch(v, l), a, Over(a, l))
<1>1. CASE asg[v].spilled
  <2>1. Passage(Take(l), a, Over(a, l)) /\ Over(a, l) \in Nat
    BY LeaseLifts
  <2>2. Passage(Mov(R(l.reg), Home(v)), Over(a, l), Over(a, l))
    BY <2>1, QuietMov, NotASlot
  <2>3. Passage(Take(l) \o Mov(R(l.reg), Home(v)), a, Over(a, l))
    BY <2>1, <2>2, Then
  <2> QED
    BY <1>1, <2>3 DEF Fetch
<1>2. CASE ~ asg[v].spilled
  <2>1. l.pushed = FALSE
    BY <1>2 DEF UseIn, Own
  <2> QED
    BY <1>2, <2>1, NoSteps DEF Fetch, Over
<1> QED
  BY <1>1, <1>2

LEMMA MovesStay ==
  ASSUME NEW a \in Nat, NEW i, NEW v, NEW r
  PROVE  /\ Passage(Into(v, r), a, a)
         /\ Passage(Commit(v, r), a, a)
         /\ Passage(ArgInto(i, v, r), a, a)
<1>1. Passage(<<>>, a, a)
  BY NoSteps
<1>2. \A l : Passage(Mov(R(r), l), a, a)
  BY QuietMov, NotASlot
<1>3. Passage(Mov(Home(v), R(r)), a, a)
  BY QuietMov, NotASlot
<1> QED
  BY <1>1, <1>2, <1>3 DEF Into, Commit, ArgInto

-----------------------------------------------------------------------------
(* The templates of the straight-line operations.  Each keeps the depth.   *)

LEMMA MaterializeStays ==
  ASSUME NEW i, Res(i) \in Nat, NEW t \in Materialize(i)
  PROVE  Passage(t, 0, 0)
<1>1. PICK d : t = Take(d) \o Write(Res(i), R(d.reg)) \o Commit(Res(i), d.reg) \o Release(d)
  BY DEF Materialize
<1>2. PICK a \in Nat : Passage(Take(d), 0, a) /\ Passage(Release(d), a, 0)
  BY LeaseLifts
<1>3. Passage(Write(Res(i), R(d.reg)), a, a) /\ Passage(Commit(Res(i), d.reg), a, a)
  BY QuietWrite, MovesStay, NotASlot
<1> QED
  BY <1>1, <1>2, <1>3, Then, Zenon

LEMMA MaterializeFloatStays ==
  ASSUME NEW i, Res(i) \in Nat, NEW t \in MaterializeFloat(i)
  PROVE  Passage(t, 0, 0)
<1>1. PICK l : t = Take(l) \o Clobber({R(l.reg)}) \o Write(Res(i), Home(Res(i))) \o Release(l)
  BY Zenon DEF MaterializeFloat
<1>2. PICK a \in Nat : Passage(Take(l), 0, a) /\ Passage(Release(l), a, 0)
  BY LeaseLifts
<1>3. Passage(Clobber({R(l.reg)}), a, a) /\ Passage(Write(Res(i), Home(Res(i))), a, a)
  BY QuietWrite, QuietClobber, NotASlot
<1> QED
  BY <1>1, <1>2, <1>3, Then

LEMMA TwoAddressStays ==
  ASSUME NEW i, Res(i) \in Nat, InstAt(fn, i).args \in Seq(Value), NEW t \in TwoAddress(i)
  PROVE  Passage(t, 0, 0)
<1> DEFINE rest == [k \in 1 .. Len(InstAt(fn, i).args) - 1 |->
                      Use(Arg(i, k + 1), Home(Arg(i, k + 1)))]
<1>1. PICK d : t = Take(d) \o Into(Arg(i, 1), d.reg) \o Use(Arg(i, 1), R(d.reg))
                     \o InTurn(rest) \o Write(Res(i), R(d.reg)) \o Commit(Res(i), d.reg)
                     \o Release(d)
  BY Zenon DEF TwoAddress
<1>2. PICK a \in Nat : Passage(Take(d), 0, a) /\ Passage(Release(d), a, 0)
  BY LeaseLifts
<1>3. /\ Passage(Into(Arg(i, 1), d.reg), a, a) /\ Passage(Use(Arg(i, 1), R(d.reg)), a, a)
      /\ Passage(Write(Res(i), R(d.reg)), a, a) /\ Passage(Commit(Res(i), d.reg), a, a)
  BY QuietWrite, QuietUse, MovesStay, NotASlot, Zenon
<1>4. Passage(InTurn(rest), a, a)
  <2>1. PICK n \in Nat : 1 .. n = 1 .. Len(InstAt(fn, i).args) - 1
    <3>1. CASE Len(InstAt(fn, i).args) = 0
      BY <3>1
    <3>2. CASE Len(InstAt(fn, i).args) # 0
      <4>1. Len(InstAt(fn, i).args) - 1 \in Nat
        BY <3>2
      <4> QED
        BY <4>1, Zenon
    <3> QED
      BY <3>1, <3>2
  <2>2. Len(rest) = n
    <3>1. DOMAIN rest = 1 .. n
      BY <2>1
    <3> HIDE DEF rest
    <3> QED
      BY <3>1
  <2>3. \A k \in 1 .. n : Passage(rest[k], a, a)
    BY <2>1, QuietUse
  <2> HIDE DEF rest
  <2> QED
    BY <2>2, <2>3, InTurnStays
<1> HIDE DEF rest
<1> QED
  BY <1>1, <1>2, <1>3, <1>4, Then, Zenon

LEMMA LoadOpStays ==
  ASSUME NEW i, Res(i) \in Nat, NEW t \in LoadOp(i)
  PROVE  Passage(t, 0, 0)
<1> DEFINE v == Arg(i, 1)
<1>1. PICK al, d : /\ al = UseIn(Candidates, i, v, Excl({Res(i)}), {})
                   /\ t = Fetch(v, al) \o Take(d) \o Use(v, R(al.reg)) \o Write(Res(i), R(d.reg))
                            \o Commit(Res(i), d.reg) \o Release(d) \o Release(al)
  BY Zenon DEF LoadOp
<1>2. PICK a \in Nat : Passage(Fetch(v, al), 0, a) /\ Passage(Release(al), a, 0)
  BY <1>1, FetchLifts, LeaseLifts
<1>3. PICK b \in Nat : Passage(Take(d), a, b) /\ Passage(Release(d), b, a)
  BY LeaseLifts
<1>4. /\ Passage(Use(v, R(al.reg)), b, b) /\ Passage(Write(Res(i), R(d.reg)), b, b)
      /\ Passage(Commit(Res(i), d.reg), b, b)
  BY QuietUse, QuietWrite, MovesStay, NotASlot
<1> QED
  BY <1>1, <1>2, <1>3, <1>4, Then, Zenon

LEMMA StoreOpStays ==
  ASSUME NEW i, NEW t \in StoreOp(i)
  PROVE  Passage(t, 0, 0)
<1> DEFINE v == Arg(i, 1)
           w == Arg(i, 2)
<1>1. PICK al, bl : /\ al = UseIn(Candidates, i, v, Excl({w}), {})
                    /\ bl = IF IsFloat(w) THEN UseIn(XmmCandidates, i, w, {}, {})
                            ELSE UseIn(Candidates, i, w, Excl({v}) \cup {al.reg}, Held(v, al))
                    /\ t = Fetch(v, al) \o Fetch(w, bl) \o Use(v, R(al.reg)) \o Use(w, R(bl.reg))
                             \o Release(bl) \o Release(al)
  BY Zenon DEF StoreOp
<1>2. PICK a \in Nat : Passage(Fetch(v, al), 0, a) /\ Passage(Release(al), a, 0)
  BY <1>1, FetchLifts, LeaseLifts, Zenon
<1>3. PICK b \in Nat : Passage(Fetch(w, bl), a, b) /\ Passage(Release(bl), b, a)
  BY <1>1, FetchLifts, LeaseLifts, Zenon
<1>4. Passage(Use(v, R(al.reg)), b, b) /\ Passage(Use(w, R(bl.reg)), b, b)
  BY QuietUse
<1>5. Passage(Fetch(v, al) \o Fetch(w, bl) \o Use(v, R(al.reg)) \o Use(w, R(bl.reg))
                \o Release(bl) \o Release(al), 0, 0)
  BY <1>2, <1>3, <1>4, Then
<1> QED
  BY <1>1, <1>5, Zenon

LEMMA FNegStays ==
  ASSUME NEW i, Res(i) \in Nat, NEW t \in FNeg(i)
  PROVE  Passage(t, 0, 0)
<1> DEFINE v == Arg(i, 1)
<1>1. PICK l, mask :
        t = Take(l) \o Mov(R(l.reg), Home(v)) \o Take(mask) \o Clobber({R(mask.reg)})
              \o Use(v, R(l.reg)) \o Write(Res(i), R(l.reg)) \o Release(mask)
              \o Mov(Home(Res(i)), R(l.reg)) \o Release(l)
  BY Zenon DEF FNeg
<1>2. PICK a \in Nat : Passage(Take(l), 0, a) /\ Passage(Release(l), a, 0)
  BY LeaseLifts
<1>3. PICK b \in Nat : Passage(Take(mask), a, b) /\ Passage(Release(mask), b, a)
  BY LeaseLifts
<1>4. Passage(Mov(R(l.reg), Home(v)), a, a) /\ Passage(Mov(Home(Res(i)), R(l.reg)), a, a)
  BY QuietMov, NotASlot
<1>5. /\ Passage(Clobber({R(mask.reg)}), b, b) /\ Passage(Use(v, R(l.reg)), b, b)
      /\ Passage(Write(Res(i), R(l.reg)), b, b)
  BY QuietClobber, QuietUse, QuietWrite, NotASlot, Zenon
<1> QED
  BY <1>1, <1>2, <1>3, <1>4, <1>5, Then

LEMMA BitcastStays ==
  ASSUME NEW i, Res(i) \in Nat, NEW t \in Bitcast(i)
  PROVE  Passage(t, 0, 0)
<1> DEFINE v == Arg(i, 1)
<1>1. PICK l : t = Take(l) \o Mov(R(l.reg), Home(v)) \o Use(v, R(l.reg)) \o Write(Res(i), R(l.reg))
                     \o Mov(Home(Res(i)), R(l.reg)) \o Release(l)
  BY Zenon DEF Bitcast
<1>2. PICK a \in Nat : Passage(Take(l), 0, a) /\ Passage(Release(l), a, 0)
  BY LeaseLifts
<1>3. /\ Passage(Mov(R(l.reg), Home(v)), a, a) /\ Passage(Mov(Home(Res(i)), R(l.reg)), a, a)
      /\ Passage(Use(v, R(l.reg)), a, a) /\ Passage(Write(Res(i), R(l.reg)), a, a)
  BY QuietMov, QuietUse, QuietWrite, NotASlot
<1> QED
  BY <1>1, <1>2, <1>3, Then, Zenon

LEMMA IntToFloatStays ==
  ASSUME NEW i, Res(i) \in Nat, NEW t \in IntToFloat(i)
  PROVE  Passage(t, 0, 0)
<1> DEFINE v == Arg(i, 1)
<1>1. PICK l, d : t = Take(l) \o Into(v, l.reg) \o Take(d) \o Use(v, R(l.reg))
                        \o Write(Res(i), R(d.reg)) \o Commit(Res(i), d.reg) \o Release(d)
                        \o Release(l)
  BY Zenon DEF IntToFloat
<1>2. PICK a \in Nat : Passage(Take(l), 0, a) /\ Passage(Release(l), a, 0)
  BY LeaseLifts
<1>3. PICK b \in Nat : Passage(Take(d), a, b) /\ Passage(Release(d), b, a)
  BY LeaseLifts
<1>4. /\ Passage(Into(v, l.reg), a, a) /\ Passage(Use(v, R(l.reg)), b, b)
      /\ Passage(Write(Res(i), R(d.reg)), b, b) /\ Passage(Commit(Res(i), d.reg), b, b)
  BY QuietUse, QuietWrite, MovesStay, NotASlot
<1> QED
  BY <1>1, <1>2, <1>3, <1>4, Then, Zenon

LEMMA FloatToIntStays ==
  ASSUME NEW i, Res(i) \in Nat, NEW t \in FloatToInt(i)
  PROVE  Passage(t, 0, 0)
<1> DEFINE v == Arg(i, 1)
<1>1. PICK al, d : /\ al = UseIn(XmmCandidates, i, v, {}, {})
                   /\ t = Fetch(v, al) \o Take(d) \o Use(v, R(al.reg)) \o Write(Res(i), R(d.reg))
                            \o Commit(Res(i), d.reg) \o Release(d) \o Release(al)
  BY Zenon DEF FloatToInt
<1>2. PICK a \in Nat : Passage(Fetch(v, al), 0, a) /\ Passage(Release(al), a, 0)
  BY <1>1, FetchLifts, LeaseLifts
<1>3. PICK b \in Nat : Passage(Take(d), a, b) /\ Passage(Release(d), b, a)
  BY LeaseLifts
<1>4. /\ Passage(Use(v, R(al.reg)), b, b) /\ Passage(Write(Res(i), R(d.reg)), b, b)
      /\ Passage(Commit(Res(i), d.reg), b, b)
  BY QuietUse, QuietWrite, MovesStay, NotASlot
<1> QED
  BY <1>1, <1>2, <1>3, <1>4, Then, Zenon

LEMMA DivideStays ==
  ASSUME NEW i, Res(i) \in Nat, NEW t \in Divide(i)
  PROVE  Passage(t, 0, 0)
<1> DEFINE v == Arg(i, 1)
           w == Arg(i, 2)
           l == Gpr(i, Excl({v, w, Res(i)}) \cup {RAX, RDX}, {})
           divisor(narrow) ==
             IF narrow THEN Take(l) \o Into(w, l.reg) \o Use(w, R(l.reg)) ELSE Use(w, Home(w))
           release(narrow) == IF narrow THEN Release(l) ELSE <<>>
           one(narrow, out) ==
             Into(v, RAX) \o Clobber({R(RDX)}) \o divisor(narrow) \o Use(v, R(RAX))
               \o Clobber({R(RAX), R(RDX)}) \o Write(Res(i), R(out))
               \o release(narrow) \o Commit(Res(i), out)
<1>1. Divide(i) = {one(narrow, out) : narrow \in BOOLEAN, out \in {RAX, RDX}}
  BY SMTT(30) DEF Divide
<1>2. ASSUME NEW narrow \in BOOLEAN
      PROVE  \E a \in Nat : Passage(divisor(narrow), 0, a) /\ Passage(release(narrow), a, 0)
  <2>1. CASE narrow
    <3>1. PICK a \in Nat : Passage(Take(l), 0, a) /\ Passage(Release(l), a, 0)
      BY LeaseLifts
    <3>2. Passage(Into(w, l.reg), a, a) /\ Passage(Use(w, R(l.reg)), a, a)
      BY MovesStay, QuietUse
    <3> HIDE DEF l
    <3>3. Passage(Take(l) \o Into(w, l.reg) \o Use(w, R(l.reg)), 0, a)
      BY <3>1, <3>2, Then
    <3> QED
      BY <2>1, <3>1, <3>3
  <2>2. CASE ~ narrow
    <3>1. Passage(Use(w, Home(w)), 0, 0) /\ Passage(<<>>, 0, 0)
      BY QuietUse, NoSteps
    <3> QED
      BY <2>2, <3>1
  <2> QED
    BY <2>1, <2>2, Zenon
<1> HIDE DEF l, divisor, release
<1>3. ASSUME NEW narrow \in BOOLEAN, NEW out
      PROVE  Passage(one(narrow, out), 0, 0)
  <2>1. PICK a \in Nat : Passage(divisor(narrow), 0, a) /\ Passage(release(narrow), a, 0)
    BY <1>2
  <2>2. Passage(Into(v, RAX), 0, 0) /\ Passage(Commit(Res(i), out), 0, 0)
    BY MovesStay
  <2>3. /\ Passage(Clobber({R(RDX)}), 0, 0) /\ Passage(Clobber({R(RAX), R(RDX)}), a, a)
        /\ Passage(Use(v, R(RAX)), a, a) /\ Passage(Write(Res(i), R(out)), a, a)
    BY QuietClobber, QuietUse, QuietWrite, NotASlot
  <2> QED
    BY <2>1, <2>2, <2>3, Then
<1> HIDE DEF one
<1> QED
  BY <1>1, <1>3

LEMMA ShiftStays ==
  ASSUME NEW i, Res(i) \in Nat, NEW t \in Shift(i)
  PROVE  Passage(t, 0, 0)
<1> DEFINE v == Arg(i, 1)
           w == Arg(i, 2)
<1>1. PICK d : t = Into(w, RCX) \o Take(d) \o Into(v, d.reg) \o Use(v, R(d.reg)) \o Use(w, R(RCX))
                     \o Write(Res(i), R(d.reg)) \o Commit(Res(i), d.reg) \o Release(d)
  BY Zenon DEF Shift
<1>2. PICK a \in Nat : Passage(Take(d), 0, a) /\ Passage(Release(d), a, 0)
  BY LeaseLifts
<1>3. Passage(Into(w, RCX), 0, 0) /\ Passage(Into(v, d.reg), a, a) /\ Passage(Commit(Res(i), d.reg), a, a)
  BY MovesStay
<1>4. /\ Passage(Use(v, R(d.reg)), a, a) /\ Passage(Use(w, R(RCX)), a, a)
      /\ Passage(Write(Res(i), R(d.reg)), a, a)
  BY QuietUse, QuietWrite, NotASlot
<1> QED
  BY <1>1, <1>2, <1>3, <1>4, Then, Zenon

LEMMA StackAllocStays ==
  ASSUME NEW i, Res(i) \in Nat, NEW t \in StackAlloc(i)
  PROVE  Passage(t, 0, 0)
<1>1. t = Into(Arg(i, 1), RAX) \o Use(Arg(i, 1), R(RAX)) \o Write(Res(i), R(RAX)) \o Commit(Res(i), RAX)
  BY DEF StackAlloc
<1>2. /\ Passage(Into(Arg(i, 1), RAX), 0, 0) /\ Passage(Use(Arg(i, 1), R(RAX)), 0, 0)
      /\ Passage(Write(Res(i), R(RAX)), 0, 0) /\ Passage(Commit(Res(i), RAX), 0, 0)
  BY MovesStay, QuietUse, QuietWrite, NotASlot
<1> QED
  BY <1>1, <1>2, Then, Zenon

LEMMA ICmpStays ==
  ASSUME NEW i, Res(i) \in Nat, NEW t \in ICmp(i)
  PROVE  Passage(t, 0, 0)
<1> DEFINE v == Arg(i, 1)
           w == Arg(i, 2)
<1>1. PICK al, d :
        /\ al = UseIn(Candidates, i, v, Excl({w, Res(i)}), {})
        /\ t = Fetch(v, al) \o Use(v, R(al.reg)) \o Use(w, Home(w)) \o Write(Outcome, Flags)
                 \o Release(al) \o Take(d) \o Use(Outcome, Flags) \o Write(Res(i), R(d.reg))
                 \o Commit(Res(i), d.reg) \o Release(d)
  BY Zenon DEF ICmp
<1>2. PICK a \in Nat : Passage(Fetch(v, al), 0, a) /\ Passage(Release(al), a, 0)
  BY <1>1, FetchLifts, LeaseLifts
<1>3. PICK b \in Nat : Passage(Take(d), 0, b) /\ Passage(Release(d), b, 0)
  BY LeaseLifts
<1>4. /\ Passage(Use(v, R(al.reg)), a, a) /\ Passage(Use(w, Home(w)), a, a)
      /\ Passage(Write(Outcome, Flags), a, a)
  BY QuietUse, QuietWrite, NotASlot, Zenon
<1>5. /\ Passage(Use(Outcome, Flags), b, b) /\ Passage(Write(Res(i), R(d.reg)), b, b)
      /\ Passage(Commit(Res(i), d.reg), b, b)
  BY QuietUse, QuietWrite, MovesStay, NotASlot
<1>6. Passage(Fetch(v, al) \o Use(v, R(al.reg)) \o Use(w, Home(w)) \o Write(Outcome, Flags)
                \o Release(al), 0, 0)
  BY <1>2, <1>4, Then
<1> QED
  BY <1>1, <1>3, <1>5, <1>6, Then

LEMMA FCmpStays ==
  ASSUME NEW i, Res(i) \in Nat, NEW t \in FCmp(i)
  PROVE  Passage(t, 0, 0)
<1> DEFINE d == DefIn(Candidates, i, Res(i), {}, {})
           parity == Gpr(i, {d.reg}, Held(Res(i), d))
           fl(v, w) == UseIn(XmmCandidates, i, v, Excl({w}), {})
           set(equality) ==
             IF equality
             THEN Take(parity) \o Use(Outcome, Flags) \o Clobber({R(parity.reg)})
                    \o Use(Outcome, Flags) \o Write(Res(i), R(d.reg)) \o Release(parity)
             ELSE Use(Outcome, Flags) \o Write(Res(i), R(d.reg))
           one(v, w, equality) ==
             Fetch(v, fl(v, w)) \o Use(v, R(fl(v, w).reg)) \o Use(w, Home(w))
               \o Write(Outcome, Flags) \o Release(fl(v, w)) \o Take(d) \o set(equality)
               \o Commit(Res(i), d.reg) \o Release(d)
<1>1. t \in {one(Arg(i, 1), Arg(i, 2), TRUE), one(Arg(i, 1), Arg(i, 2), FALSE),
             one(Arg(i, 2), Arg(i, 1), FALSE)}
  BY Zenon DEF FCmp
<1>2. PICK b \in Nat : Passage(Take(d), 0, b) /\ Passage(Release(d), b, 0)
  BY LeaseLifts
<1>3. Passage(set(TRUE), b, b)
  <2>1. PICK c \in Nat : Passage(Take(parity), b, c) /\ Passage(Release(parity), c, b)
    BY LeaseLifts
  <2>2. /\ Passage(Use(Outcome, Flags), c, c) /\ Passage(Write(Res(i), R(d.reg)), c, c)
        /\ Passage(Clobber({R(parity.reg)}), c, c)
    BY QuietUse, QuietWrite, QuietClobber, NotASlot
  <2> HIDE DEF d, parity
  <2> QED
    BY <2>1, <2>2, Then, Zenon
<1>4. Passage(set(FALSE), b, b)
  <2>1. Passage(Use(Outcome, Flags), b, b) /\ Passage(Write(Res(i), R(d.reg)), b, b)
    BY QuietUse, QuietWrite, NotASlot
  <2> HIDE DEF d
  <2> QED
    BY <2>1, Then
<1>5. ASSUME NEW v, NEW w, NEW equality \in BOOLEAN
      PROVE  Passage(one(v, w, equality), 0, 0)
  <2>1. PICK a \in Nat : Passage(Fetch(v, fl(v, w)), 0, a) /\ Passage(Release(fl(v, w)), a, 0)
    BY FetchLifts, LeaseLifts
  <2>2. Passage(set(equality), b, b)
    <3> HIDE DEF set
    <3> QED
      BY <1>3, <1>4, Zenon
  <2> HIDE DEF d, parity, fl, set
  <2>3. /\ Passage(Use(v, R(fl(v, w).reg)), a, a) /\ Passage(Use(w, Home(w)), a, a)
        /\ Passage(Write(Outcome, Flags), a, a) /\ Passage(Commit(Res(i), d.reg), b, b)
    BY QuietUse, QuietWrite, MovesStay, NotASlot, Zenon
  <2>4. Passage(Fetch(v, fl(v, w)) \o Use(v, R(fl(v, w).reg)) \o Use(w, Home(w))
                  \o Write(Outcome, Flags) \o Release(fl(v, w)), 0, 0)
    BY <2>1, <2>3, Then
  <2> QED
    BY <1>2, <2>2, <2>3, <2>4, Then
<1> HIDE DEF one
<1> QED
  BY <1>1, <1>5, Zenon

LEMMA SelectStays ==
  ASSUME NEW i, Res(i) \in Nat, NEW t \in Select(i)
  PROVE  Passage(t, 0, 0)
<1> DEFINE v == Arg(i, 1)
<1>1. PICK k, al, d :
        /\ al = UseIn(Candidates, i, v, Excl({Arg(i, 2), Arg(i, 3), Res(i)}), {})
        /\ t = Fetch(v, al) \o Use(v, R(al.reg)) \o Write(Outcome, Flags) \o Release(al) \o Take(d)
                 \o Use(Outcome, Flags) \o Into(Arg(i, k), d.reg) \o Use(Arg(i, k), R(d.reg))
                 \o Write(Res(i), R(d.reg)) \o Commit(Res(i), d.reg) \o Release(d)
  BY Zenon DEF Select
<1>2. PICK a \in Nat : Passage(Fetch(v, al), 0, a) /\ Passage(Release(al), a, 0)
  BY <1>1, FetchLifts, LeaseLifts
<1>3. PICK b \in Nat : Passage(Take(d), 0, b) /\ Passage(Release(d), b, 0)
  BY LeaseLifts
<1>4. Passage(Use(v, R(al.reg)), a, a) /\ Passage(Write(Outcome, Flags), a, a)
  BY QuietUse, QuietWrite, NotASlot, Zenon
<1>5. /\ Passage(Use(Outcome, Flags), b, b) /\ Passage(Into(Arg(i, k), d.reg), b, b)
      /\ Passage(Use(Arg(i, k), R(d.reg)), b, b) /\ Passage(Write(Res(i), R(d.reg)), b, b)
      /\ Passage(Commit(Res(i), d.reg), b, b)
  BY QuietUse, QuietWrite, MovesStay, NotASlot
<1> DEFINE p == Fetch(v, al) \o Use(v, R(al.reg)) \o Write(Outcome, Flags) \o Release(al)
           q == p \o Take(d) \o Use(Outcome, Flags) \o Into(Arg(i, k), d.reg)
<1>6. Passage(p, 0, 0)
  BY <1>2, <1>4, Then
<1>7. t = q \o Use(Arg(i, k), R(d.reg)) \o Write(Res(i), R(d.reg)) \o Commit(Res(i), d.reg)
            \o Release(d)
  BY <1>1
<1> HIDE DEF p
<1>8. Passage(q, 0, b)
  BY <1>3, <1>5, <1>6, Then
<1> HIDE DEF q
<1> DEFINE w == q \o Use(Arg(i, k), R(d.reg)) \o Write(Res(i), R(d.reg)) \o Commit(Res(i), d.reg)
<1>9. Passage(w, 0, b)
  BY <1>5, <1>8, Then
<1>10. t = w \o Release(d)
  BY <1>7
<1> HIDE DEF w
<1> QED
  BY <1>3, <1>9, <1>10, Then

\* Parking and unparking around a call.
LEMMA ParkingStays ==
  ASSUME NEW a \in Nat, NEW i
  PROVE  /\ Passage(CallSaves(i), a, a) /\ Passage(CallRestores(i), a, a)
         /\ Passage(ClobberCall, a, a)
<1>1. \A m \in {<<SaveArea(v), Home(v)>> : v \in Parked(i)} : m[1][1] # 3
  BY NotASlot
<1>2. \A m \in {<<Home(v), SaveArea(v)>> : v \in Parked(i)} : m[1][1] # 3
  BY NotASlot
<1>3. \A l \in {R(r) : r \in CallerSaved \cup Xmms} \cup {Flags} : l[1] # 3
  BY NotASlot
<1>4. Passage(CallSaves(i), a, a)
  BY <1>1, QuietMovs DEF CallSaves
<1>5. Passage(CallRestores(i), a, a)
  BY <1>2, QuietMovs DEF CallRestores
<1>6. Passage(ClobberCall, a, a)
  BY <1>3, QuietClobber DEF ClobberCall
<1> QED
  BY <1>4, <1>5, <1>6

\* The result of a call, if it has one.
LEMMA ResultStays ==
  ASSUME NEW i, Res(i) \in Nat, NEW out
  PROVE  Passage(IF Res(i) = NoValue THEN <<>> ELSE Write(Res(i), R(out)) \o Commit(Res(i), out), 0, 0)
<1>1. Passage(Write(Res(i), R(out)), 0, 0) /\ Passage(Commit(Res(i), out), 0, 0)
  BY QuietWrite, MovesStay, NotASlot
<1>2. Passage(Write(Res(i), R(out)) \o Commit(Res(i), out), 0, 0)
  BY <1>1, Then
<1> QED
  BY <1>2, NoSteps

LEMMA CallStays ==
  ASSUME NEW i, Res(i) \in Nat, InstAt(fn, i).args \in Seq(Value),
         InstAt(fn, i).op = "callind" => InstAt(fn, i).args # <<>>, NEW t \in Call(i)
  PROVE  Passage(t, 0, 0)
<1> DEFINE inst == InstAt(fn, i)
           indirect == inst.op = "callind"
           passed == IF indirect THEN Tail(inst.args) ELSE inst.args
           pair == passed[Len(passed)]
           args == IF inst.two THEN SubSeq(passed, 1, Len(passed) - 1) ELSE passed
           place(k) == ArgPlace(args, inst.byval, k)
           toStack(k) ==
             IF place(k) # OutArg(k) THEN <<>>
             ELSE IF k \in inst.byval
             THEN ArgInto(i, args[k], R11) \o Use(args[k], R(R11)) \o Clobber({R(RAX)})
             ELSE ArgInto(i, args[k], RAX) \o Mov(OutArg(k), R(RAX))
           toReg(k) == IF place(k) = OutArg(k) THEN <<>> ELSE ArgInto(i, args[k], place(k)[2])
           read(k) == IF k \in inst.byval THEN <<>> ELSE Use(args[k], place(k))
           out == IF IsFloat(Res(i)) THEN XMM(0) ELSE RAX
           stash == IF inst.two THEN ArgInto(i, pair, RAX) \o Mov(RetStash, R(RAX)) ELSE <<>>
           callee == IF indirect THEN ArgInto(i, inst.args[1], R11) ELSE <<>>
           target == IF indirect THEN Use(inst.args[1], R(R11)) ELSE <<>>
           result == IF Res(i) = NoValue THEN <<>> ELSE Write(Res(i), R(out)) \o Commit(Res(i), out)
           words == IF inst.two THEN Mov(R(R11), RetStash) \o Use(pair, R(R11)) ELSE <<>>
           stacked == InTurn([k \in DOMAIN args |-> toStack(k)])
           loaded == InTurn([k \in DOMAIN args |-> toReg(k)])
           reads == InTurn([k \in DOMAIN args |-> read(k)])
<1>1. t = CallSaves(i) \o stash \o stacked \o callee \o loaded \o target \o reads \o ClobberCall
            \o result \o words \o CallRestores(i)
  BY Zenon DEF Call
<1>2. PICK n \in Nat : DOMAIN args = 1 .. n
  <2>1. passed \in Seq(Value)
    OBVIOUS
  <2> HIDE DEF passed
  <2>2. args \in Seq(Value)
    <3>1. CASE Len(passed) = 0
      BY <2>1, <3>1
    <3>2. CASE Len(passed) # 0
      BY <2>1, <3>2
    <3> QED
      BY <3>1, <3>2
  <2> HIDE DEF args
  <2> QED
    BY <2>2
<1> HIDE DEF args, passed, place
<1>3. \A v, r : Passage(ArgInto(i, v, r), 0, 0)
  BY MovesStay
<1>4. \A v, l : Passage(Use(v, l), 0, 0)
  BY QuietUse
<1>5. Passage(<<>>, 0, 0) /\ Passage(Clobber({R(RAX)}), 0, 0)
  BY NoSteps, QuietClobber, NotASlot
<1>6. \A k : Passage(Mov(OutArg(k), R(RAX)), 0, 0)
  BY QuietMov, NotASlot
<1>7. Passage(Mov(RetStash, R(RAX)), 0, 0) /\ Passage(Mov(R(R11), RetStash), 0, 0)
  BY QuietMov, NotASlot
<1>8. Passage(stash, 0, 0)
  <2>1. Passage(ArgInto(i, pair, RAX) \o Mov(RetStash, R(RAX)), 0, 0)
    BY <1>3, <1>7, Then
  <2> QED
    BY <1>5, <2>1
<1>9. Passage(words, 0, 0)
  <2>1. Passage(Mov(R(R11), RetStash) \o Use(pair, R(R11)), 0, 0)
    BY <1>4, <1>7, Then
  <2> QED
    BY <1>5, <2>1
<1>10. Passage(callee, 0, 0) /\ Passage(target, 0, 0)
  BY <1>3, <1>4, <1>5
<1>11. Passage(result, 0, 0)
  BY ResultStays
<1>12. Passage(stacked, 0, 0)
  <2>1. ASSUME NEW k PROVE Passage(toStack(k), 0, 0)
    <3>1. Passage(ArgInto(i, args[k], R11) \o Use(args[k], R(R11)) \o Clobber({R(RAX)}), 0, 0)
      BY <1>3, <1>4, <1>5, Then, Zenon
    <3>2. Passage(ArgInto(i, args[k], RAX) \o Mov(OutArg(k), R(RAX)), 0, 0)
      BY <1>3, <1>6, Then
    <3> QED
      BY <1>5, <3>1, <3>2
  <2> HIDE DEF toStack
  <2> DEFINE ss == [k \in DOMAIN args |-> toStack(k)]
  <2>2. DOMAIN ss = 1 .. n /\ \A k \in 1 .. n : Passage(ss[k], 0, 0)
    BY <1>2, <2>1
  <2> HIDE DEF ss
  <2>3. Passage(InTurn(ss), 0, 0)
    BY <2>2, InTurnStays
  <2> QED
    BY <2>3 DEF ss
<1>13. Passage(loaded, 0, 0)
  <2>1. ASSUME NEW k PROVE Passage(toReg(k), 0, 0)
    BY <1>3, <1>5
  <2> HIDE DEF toReg
  <2> DEFINE ss == [k \in DOMAIN args |-> toReg(k)]
  <2>2. DOMAIN ss = 1 .. n /\ \A k \in 1 .. n : Passage(ss[k], 0, 0)
    BY <1>2, <2>1
  <2> HIDE DEF ss
  <2>3. Passage(InTurn(ss), 0, 0)
    BY <2>2, InTurnStays
  <2> QED
    BY <2>3 DEF ss
<1>14. Passage(reads, 0, 0)
  <2>1. ASSUME NEW k PROVE Passage(read(k), 0, 0)
    BY <1>4, <1>5
  <2> HIDE DEF read
  <2> DEFINE ss == [k \in DOMAIN args |-> read(k)]
  <2>2. DOMAIN ss = 1 .. n /\ \A k \in 1 .. n : Passage(ss[k], 0, 0)
    BY <1>2, <2>1
  <2> HIDE DEF ss
  <2>3. Passage(InTurn(ss), 0, 0)
    BY <2>2, InTurnStays
  <2> QED
    BY <2>3 DEF ss
<1>15. Passage(CallSaves(i), 0, 0) /\ Passage(CallRestores(i), 0, 0) /\ Passage(ClobberCall, 0, 0)
  BY ParkingStays
<1> HIDE DEF stash, stacked, callee, loaded, target, reads, result, words
<1>16. Passage(CallSaves(i) \o stash \o stacked \o callee \o loaded, 0, 0)
  BY <1>8, <1>10, <1>12, <1>13, <1>15, Then
<1> QED
  BY <1>1, <1>9, <1>10, <1>11, <1>14, <1>15, <1>16, Then, Zenon

LEMMA LibraryCallStays ==
  ASSUME NEW i, Res(i) \in Nat, InstAt(fn, i).args \in Seq(Value), NEW regs,
         NEW t \in LibraryCall(i, regs)
  PROVE  Passage(t, 0, 0)
<1> DEFINE args == InstAt(fn, i).args
           pass(k) == ArgInto(i, Arg(i, k), regs[k])
           read(k) == Use(Arg(i, k), R(regs[k]))
           passes == [k \in DOMAIN args |-> pass(k)]
           reads == [k \in DOMAIN args |-> read(k)]
           result == IF Res(i) = NoValue THEN <<>>
                     ELSE Write(Res(i), R(regs[1])) \o Commit(Res(i), regs[1])
<1>1. t = CallSaves(i) \o InTurn(passes) \o InTurn(reads) \o ClobberCall \o result \o CallRestores(i)
  BY Zenon DEF LibraryCall
<1>2. PICK n \in Nat : DOMAIN args = 1 .. n
  OBVIOUS
<1>3. /\ DOMAIN passes = 1 .. n /\ \A k \in 1 .. n : Passage(passes[k], 0, 0)
      /\ DOMAIN reads = 1 .. n /\ \A k \in 1 .. n : Passage(reads[k], 0, 0)
  BY <1>2, MovesStay, QuietUse
<1>4. Passage(result, 0, 0)
  BY ResultStays
<1> HIDE DEF passes, reads, result
<1>5. Passage(InTurn(passes), 0, 0) /\ Passage(InTurn(reads), 0, 0)
  BY <1>3, InTurnStays
<1>6. Passage(CallSaves(i), 0, 0) /\ Passage(CallRestores(i), 0, 0) /\ Passage(ClobberCall, 0, 0)
  BY ParkingStays
<1> QED
  BY <1>1, <1>4, <1>5, <1>6, Then, Zenon

LEMMA InlineAsmStays ==
  ASSUME NEW i, Res(i) \in Nat, NEW t \in InlineAsm(i)
  PROVE  Passage(t, 0, 0)
<1> DEFINE wiped == Clobber({R(r) : r \in InstAt(fn, i).regs})
<1>1. t = wiped \/ \E out : t = wiped \o Write(Res(i), R(out)) \o Commit(Res(i), out)
  BY Zenon DEF InlineAsm
<1>2. Passage(wiped, 0, 0)
  BY QuietClobber, NotASlot
<1> HIDE DEF wiped
<1>3. \A out : Passage(Write(Res(i), R(out)), 0, 0) /\ Passage(Commit(Res(i), out), 0, 0)
  BY QuietWrite, MovesStay, NotASlot
<1>4. \A out : Passage(wiped \o Write(Res(i), R(out)) \o Commit(Res(i), out), 0, 0)
  BY <1>2, <1>3, Then
<1> QED
  BY <1>1, <1>2, <1>4, Zenon

-----------------------------------------------------------------------------
(* The templates that pass control on.                                     *)

\* An instruction of some block.
Target(i) == \E b \in Blocks(fn) : i \in InBlock(fn, b)

Epilogue == Movs({<<R(r), CalleeSlot(r)>> : r \in used})

Reads(s) == s \in Seq(Elems(s)) /\ \A x \in Elems(s) : x[1] = "use"

\* The three ways a template ends, from depth a.
Going(c, a) == \E s, i : Passage(s, a, 0) /\ Target(i) /\ c = s \o Goto(i)
Returning(c, a) == \E s, u : Passage(s, a, 0) /\ Reads(u) /\ c = s \o Epilogue \o u \o Ret
Trapping(c) == c = <<<<"trap">>>>

\* What a well-formed function says of the instruction control is at.
LEMMA AtTarget ==
  ASSUME fn \in Functions, NEW i, Target(i)
  PROVE  /\ i \in Int
         /\ Res(i) \in Nat /\ InstAt(fn, i).args \in Seq(Value) /\ InstAt(fn, i).op \in Ops
         /\ InstAt(fn, i).op = "callind" => InstAt(fn, i).args # <<>>
         /\ InstAt(fn, i).op \notin Terminators => Target(i + 1)
         /\ InstAt(fn, i).op = "jump" =>
              InstAt(fn, i).to \in Seq(Nat) /\ Len(InstAt(fn, i).to) = 1
         /\ InstAt(fn, i).op = "branch" =>
              InstAt(fn, i).to \in Seq(Nat) /\ Len(InstAt(fn, i).to) = 2
         /\ InstAt(fn, i).op \in Terminators =>
              \A k \in DOMAIN InstAt(fn, i).to : InstAt(fn, i).to[k] \in Blocks(fn)
<1>1. PICK b \in Blocks(fn) : i \in InBlock(fn, b)
  BY DEF Target
<1>2. Len(fn.insts) \in Nat /\ fn.insts \in Seq(Insts) /\ Verified(fn)
  BY DEF Functions
<1>3. /\ fn.first[b] \in Indices(fn) /\ fn.last[b] \in Indices(fn)
      /\ InstAt(fn, i).op \in Terminators <=> i = fn.last[b]
      /\ Successors(fn, b) \subseteq Blocks(fn)
      /\ InstAt(fn, fn.last[b]).op = "jump" => Len(InstAt(fn, fn.last[b]).to) = 1
      /\ InstAt(fn, fn.last[b]).op = "branch" => Len(InstAt(fn, fn.last[b]).to) = 2
  BY <1>1, <1>2 DEF Verified
<1>4. i \in Indices(fn) /\ i \in Int /\ i >= fn.first[b] /\ i <= fn.last[b]
      /\ fn.first[b] \in Int /\ fn.last[b] \in Int
  BY <1>1, <1>2, <1>3 DEF InBlock, Indices
<1>5. InstAt(fn, i) \in Insts
  <2>1. i + 1 \in 1 .. Len(fn.insts)
    BY <1>2, <1>4 DEF Indices
  <2> QED
    BY <1>2, <2>1 DEF InstAt
<1>6. /\ InstAt(fn, i).res \in Nat /\ InstAt(fn, i).args \in Seq(Value)
      /\ InstAt(fn, i).op \in Ops /\ InstAt(fn, i).to \in Seq(Nat)
  BY <1>5 DEF Insts
<1>7. InstAt(fn, i).op = "callind" => InstAt(fn, i).args # <<>>
  BY <1>2, <1>4 DEF Verified
<1>8. InstAt(fn, i).op \notin Terminators => Target(i + 1)
  <2> SUFFICES ASSUME i # fn.last[b] PROVE i + 1 \in InBlock(fn, b)
    BY <1>3 DEF Target
  <2> QED
    BY <1>4 DEF InBlock
<1>9. "jump" \in Terminators /\ "branch" \in Terminators
  BY DEF Terminators
<1>10. InstAt(fn, i).op \in Terminators =>
         \A k \in DOMAIN InstAt(fn, i).to : InstAt(fn, i).to[k] \in Blocks(fn)
  BY <1>3 DEF Successors
<1> QED
  BY <1>3, <1>4, <1>6, <1>7, <1>8, <1>9, <1>10 DEF Res

\* A block's first instruction is one.
LEMMA FirstIsTarget ==
  ASSUME fn \in Functions, NEW b \in Blocks(fn)
  PROVE  Target(fn.first[b])
<1>1. /\ fn.first[b] \in Indices(fn) /\ fn.last[b] \in Indices(fn) /\ fn.first[b] <= fn.last[b]
  BY DEF Functions, Verified
<1>2. fn.first[b] \in Int /\ fn.last[b] \in Int
  BY <1>1 DEF Indices, Functions
<1>3. fn.first[b] \in InBlock(fn, b)
  BY <1>1, <1>2 DEF InBlock
<1> QED
  BY <1>3 DEF Target

\* The entry block starts at 0.
LEMMA EntryIsTarget ==
  ASSUME fn \in Functions
  PROVE  1 \in Blocks(fn) /\ Target(0)
<1>1. Blocks(fn) = 1 .. Len(fn.first) /\ Len(fn.first) \in Nat
  BY BlocksAreNumbers
<1>2. Blocks(fn) # {} /\ fn.first[1] = 0
  BY DEF Functions, Verified, LaidOut
<1>3. 1 \in Blocks(fn)
  BY <1>1, <1>2
<1> QED
  BY <1>2, <1>3, FirstIsTarget

LEMMA PassBlockArgsStays ==
  ASSUME NEW i, NEW params, params \in Seq(Value)
  PROVE  Passage(PassBlockArgs(i, params), 0, 0)
<1> DEFINE l == Gpr(i, {}, {})
           stage(k) ==
             IF asg[Arg(i, k)].spilled
             THEN Take(l) \o Mov(R(l.reg), Home(Arg(i, k))) \o Use(Arg(i, k), R(l.reg))
                    \o Mov(Staging(params[k]), R(l.reg)) \o Release(l)
             ELSE Use(Arg(i, k), Home(Arg(i, k))) \o Mov(Staging(params[k]), Home(Arg(i, k)))
           staged == [k \in DOMAIN params |-> stage(k)]
           loaded == [k \in DOMAIN params |-> LoadParam(i, params[k])]
<1>1. PassBlockArgs(i, params) = InTurn(staged) \o InTurn(loaded)
  BY DEF PassBlockArgs
<1>2. PICK n \in Nat : DOMAIN params = 1 .. n
  OBVIOUS
<1>3. PICK a \in Nat : Passage(Take(l), 0, a) /\ Passage(Release(l), a, 0)
  BY LeaseLifts
<1>4. ASSUME NEW k PROVE Passage(stage(k), 0, 0)
  <2>1. /\ Passage(Mov(R(l.reg), Home(Arg(i, k))), a, a) /\ Passage(Use(Arg(i, k), R(l.reg)), a, a)
        /\ Passage(Mov(Staging(params[k]), R(l.reg)), a, a)
    BY QuietMov, QuietUse, NotASlot
  <2>2. /\ Passage(Use(Arg(i, k), Home(Arg(i, k))), 0, 0)
        /\ Passage(Mov(Staging(params[k]), Home(Arg(i, k))), 0, 0)
    BY QuietMov, QuietUse, NotASlot
  <2> HIDE DEF l
  <2>3. Passage(Take(l) \o Mov(R(l.reg), Home(Arg(i, k))) \o Use(Arg(i, k), R(l.reg))
                  \o Mov(Staging(params[k]), R(l.reg)) \o Release(l), 0, 0)
    BY <1>3, <2>1, Then
  <2>4. Passage(Use(Arg(i, k), Home(Arg(i, k))) \o Mov(Staging(params[k]), Home(Arg(i, k))), 0, 0)
    BY <2>2, Then
  <2> QED
    BY <2>3, <2>4
<1>5. ASSUME NEW p PROVE Passage(LoadParam(i, p), 0, 0)
  <2>1. /\ Passage(Mov(R(l.reg), Staging(p)), a, a) /\ Passage(Mov(Home(p), R(l.reg)), a, a)
        /\ Passage(Mov(Home(p), Staging(p)), 0, 0)
    BY QuietMov, NotASlot
  <2>2. LoadParam(i, p) = IF asg[p].spilled
                          THEN Take(l) \o Mov(R(l.reg), Staging(p)) \o Mov(Home(p), R(l.reg)) \o Release(l)
                          ELSE Mov(Home(p), Staging(p))
    BY DEF LoadParam
  <2> HIDE DEF l
  <2>3. Passage(Take(l) \o Mov(R(l.reg), Staging(p)) \o Mov(Home(p), R(l.reg)) \o Release(l), 0, 0)
    BY <1>3, <2>1, Then
  <2> QED
    BY <2>1, <2>2, <2>3
<1> HIDE DEF l, stage
<1>6. /\ DOMAIN staged = 1 .. n /\ \A k \in 1 .. n : Passage(staged[k], 0, 0)
      /\ DOMAIN loaded = 1 .. n /\ \A k \in 1 .. n : Passage(loaded[k], 0, 0)
  BY <1>2, <1>4, <1>5
<1> HIDE DEF staged, loaded
<1>7. Passage(InTurn(staged), 0, 0) /\ Passage(InTurn(loaded), 0, 0)
  BY <1>6, InTurnStays
<1> QED
  BY <1>1, <1>7, Then

LEMMA JumpGoes ==
  ASSUME fn \in Functions, NEW i, Target(i), InstAt(fn, i).op = "jump", NEW c \in Jump(i)
  PROVE  Going(c, 0)
<1> DEFINE t == InstAt(fn, i).to[1]
<1>1. t \in Blocks(fn)
  <2>1. 1 \in DOMAIN InstAt(fn, i).to /\ InstAt(fn, i).op \in Terminators
    BY AtTarget DEF Terminators
  <2> QED
    BY <2>1, AtTarget
<1>2. c = PassBlockArgs(i, fn.params[t]) \o Bind(t) \o Goto(fn.first[t])
  BY Zenon DEF Jump
<1> HIDE DEF t
<1>3. fn.params[t] \in Seq(Value)
  <2>1. fn.params \in Seq(Seq(Value)) /\ DOMAIN fn.params = Blocks(fn)
    BY DEF Functions
  <2> QED
    BY <1>1, <2>1
<1>4. Passage(PassBlockArgs(i, fn.params[t]), 0, 0)
  BY <1>3, PassBlockArgsStays
<1>5. Passage(Bind(t), 0, 0)
  <2> DEFINE x == <<"bind", t>>
  <2>1. x[1] = "bind" /\ x[2] = t
    OBVIOUS
  <2> HIDE DEF x
  <2>2. Quiet(x) /\ 0 + Lift(x) = 0
    BY <1>1, <2>1 DEF Quiet, Lift
  <2>3. Passage(<<x>>, 0, 0)
    BY <2>2, OneStep
  <2> QED
    BY <2>3 DEF Bind, x
<1>6. Passage(PassBlockArgs(i, fn.params[t]) \o Bind(t), 0, 0)
  BY <1>4, <1>5, Then
<1>7. Target(fn.first[t])
  BY <1>1, FirstIsTarget
<1> QED
  BY <1>2, <1>6, <1>7, Zenon DEF Going

LEMMA BranchGoes ==
  ASSUME fn \in Functions, NEW i, Target(i), InstAt(fn, i).op = "branch", NEW c \in Branch(i)
  PROVE  Going(c, 0)
<1> DEFINE v == Arg(i, 1)
           al == UseIn(Candidates, i, v, {}, {})
           to(k) == fn.first[InstAt(fn, i).to[k]]
           steps == Fetch(v, al) \o Use(v, R(al.reg)) \o Write(Outcome, Flags) \o Release(al)
                      \o Use(Outcome, Flags)
<1>1. PICK k \in {1, 2} : c = steps \o Goto(to(k))
  BY Zenon DEF Branch
<1>2. Target(to(k))
  <2>1. k \in DOMAIN InstAt(fn, i).to /\ InstAt(fn, i).op \in Terminators
    BY AtTarget DEF Terminators
  <2>2. InstAt(fn, i).to[k] \in Blocks(fn)
    BY <2>1, AtTarget
  <2> QED
    BY <2>2, FirstIsTarget
<1>3. PICK a \in Nat : Passage(Fetch(v, al), 0, a) /\ Passage(Release(al), a, 0)
  BY FetchLifts, LeaseLifts
<1>4. /\ Passage(Use(v, R(al.reg)), a, a) /\ Passage(Write(Outcome, Flags), a, a)
      /\ Passage(Use(Outcome, Flags), 0, 0)
  BY QuietUse, QuietWrite, NotASlot, Zenon
<1> HIDE DEF al, to
<1>5. Passage(steps, 0, 0)
  BY <1>3, <1>4, Then
<1> HIDE DEF steps
<1> QED
  BY <1>1, <1>2, <1>5, Zenon DEF Going

LEMMA SwitchGoes ==
  ASSUME fn \in Functions, NEW i, Target(i), InstAt(fn, i).op = "switch", NEW c \in Switch(i)
  PROVE  Going(c, 0)
<1> DEFINE v == Arg(i, 1)
           scrutinee == IF asg[v].spilled THEN R(RAX) ELSE Home(v)
           load == IF asg[v].spilled THEN Into(v, RAX) ELSE <<>>
           to(k) == fn.first[InstAt(fn, i).to[k]]
<1>1. PICK k \in DOMAIN InstAt(fn, i).to :
        c = load \o Clobber({R(RCX)}) \o Use(v, scrutinee) \o Goto(to(k))
  BY Zenon DEF Switch
<1>2. Target(to(k))
  <2>1. InstAt(fn, i).op \in Terminators
    BY DEF Terminators
  <2>2. InstAt(fn, i).to[k] \in Blocks(fn)
    BY <2>1, AtTarget
  <2> QED
    BY <2>2, FirstIsTarget
<1>3. Passage(load, 0, 0)
  BY MovesStay, NoSteps
<1>4. Passage(Clobber({R(RCX)}), 0, 0) /\ Passage(Use(v, scrutinee), 0, 0)
  BY QuietClobber, QuietUse, NotASlot
<1> HIDE DEF load, scrutinee, to
<1>5. Passage(load \o Clobber({R(RCX)}) \o Use(v, scrutinee), 0, 0)
  BY <1>3, <1>4, Then
<1> QED
  BY <1>1, <1>2, <1>5, Zenon DEF Going

LEMMA ReturnReturns ==
  ASSUME NEW i, NEW c \in Return(i)
  PROVE  Returning(c, 0)
<1> DEFINE v == Arg(i, 1)
           out == IF IsFloat(v) THEN XMM(0) ELSE RAX
<1>1. c = Epilogue \o Ret \/ c = Into(v, out) \o Epilogue \o Use(v, R(out)) \o Ret
  BY Zenon DEF Return, Epilogue
<1>2. Passage(<<>>, 0, 0) /\ Passage(Into(v, out), 0, 0)
  BY NoSteps, MovesStay
<1>3. Reads(<<>>) /\ Reads(Use(v, R(out)))
  <2>1. Reads(<<>>)
    BY DEF Reads, Elems
  <2> DEFINE x == <<"use", v, R(out)>>
  <2>2. x[1] = "use"
    OBVIOUS
  <2> HIDE DEF x
  <2>3. Reads(<<x>>)
    BY <2>2 DEF Reads, Elems
  <2> QED
    BY <2>1, <2>3 DEF Use, x
<1>4. Epilogue \o Ret = <<>> \o Epilogue \o <<>> \o Ret
  <2> DEFINE x == <<"movs", {<<R(r), CalleeSlot(r)>> : r \in used}>>
             y == <<"ret">>
  <2>1. Epilogue = <<x>> /\ Ret = <<y>>
    BY DEF Epilogue, Movs, Ret
  <2> HIDE DEF x, y
  <2>2. <<x>> \o <<y>> = <<>> \o <<x>> \o <<>> \o <<y>>
    OBVIOUS
  <2> QED
    BY <2>1, <2>2
<1> HIDE DEF out
<1> QED
  BY <1>1, <1>2, <1>3, <1>4, Zenon DEF Returning

\* emit_inst: whatever the instruction, its template passes control on with the stack as it found
\* it, or returns through the epilogue, or traps.
LEMMA TemplateShape ==
  ASSUME fn \in Functions, NEW i, Target(i), NEW c \in Template(i)
  PROVE  Going(c, 0) \/ Returning(c, 0) \/ Trapping(c)
<1> DEFINE op == InstAt(fn, i).op
<1>1. CASE op = "jump"
  BY <1>1, JumpGoes DEF Template
<1>2. CASE op = "branch"
  BY <1>2, BranchGoes DEF Template
<1>3. CASE op = "switch"
  BY <1>3, SwitchGoes DEF Template
<1>4. CASE op = "return"
  BY <1>4, ReturnReturns DEF Template
<1>5. CASE op = "unreachable"
  BY <1>5 DEF Template, Trapping
<1>6. CASE op \notin Terminators
  <2>1. /\ op \in Ops /\ Res(i) \in Nat /\ InstAt(fn, i).args \in Seq(Value) /\ Target(i + 1)
        /\ op = "callind" => InstAt(fn, i).args # <<>>
    BY <1>6, AtTarget
  <2>2. PICK t : /\ c = t \o Goto(i + 1)
                 /\ \/ op = "const" /\ t \in Materialize(i)
                    \/ op = "fconst" /\ t \in MaterializeFloat(i)
                    \/ op \in {"load", "fload"} /\ t \in LoadOp(i)
                    \/ op \in {"store", "fstore"} /\ t \in StoreOp(i)
                    \/ op \in {"alu", "falu"} /\ t \in TwoAddress(i)
                    \/ op = "fneg" /\ t \in FNeg(i)
                    \/ op = "bitcast" /\ t \in Bitcast(i)
                    \/ op = "itof" /\ t \in IntToFloat(i)
                    \/ op = "ftoi" /\ t \in FloatToInt(i)
                    \/ op = "div" /\ t \in Divide(i)
                    \/ op = "shift" /\ t \in Shift(i)
                    \/ op = "stackalloc" /\ t \in StackAlloc(i)
                    \/ op = "icmp" /\ t \in ICmp(i)
                    \/ op = "fcmp" /\ t \in FCmp(i)
                    \/ op = "select" /\ t \in Select(i)
                    \/ op \in {"call", "callind"} /\ t \in Call(i)
                    \/ op = "mem" /\ t \in LibraryCall(i, <<RDI, RSI, RDX>>)
                    \/ op = "frem" /\ t \in LibraryCall(i, <<XMM(0), XMM(1)>>)
                    \/ op = "asm" /\ t \in InlineAsm(i)
    BY <1>6, <2>1, ZenonT(60) DEF Template, Ops, Terminators, Straight, CallLike
  <2>3. Passage(t, 0, 0)
    BY <2>1, <2>2, MaterializeStays, MaterializeFloatStays, LoadOpStays, StoreOpStays,
       TwoAddressStays, FNegStays, BitcastStays, IntToFloatStays, FloatToIntStays, DivideStays,
       ShiftStays, StackAllocStays, ICmpStays, FCmpStays, SelectStays, CallStays,
       LibraryCallStays, InlineAsmStays
  <2> QED
    BY <2>1, <2>2, <2>3, Zenon DEF Going
<1> QED
  BY <1>1, <1>2, <1>3, <1>4, <1>5, <1>6 DEF Terminators

\* The prologue saves first; what is left of it then leads to the entry block.
LEMMA PrologueGoes ==
  ASSUME fn \in Functions
  PROVE  \E rest : /\ Prologue \o Goto(0) = Movs({<<CalleeSlot(r), R(r)>> : r \in used}) \o rest
                   /\ rest \in Seq(Elems(rest)) /\ Going(rest, 0)
<1> DEFINE ps == fn.params[1]
           parkIn(p) == IF asg[p].spilled THEN Home(p) ELSE Staging(p)
           park(k) == IF Incoming(k)[1] = 0 THEN Mov(parkIn(ps[k]), Incoming(k))
                      ELSE Mov(R(RAX), Incoming(k)) \o Mov(parkIn(ps[k]), R(RAX))
           load(k) == IF asg[ps[k]].spilled THEN <<>> ELSE Mov(Home(ps[k]), Staging(ps[k]))
           saves == Movs({<<CalleeSlot(r), R(r)>> : r \in used})
           parked == [k \in DOMAIN ps |-> park(k)]
           loaded == [k \in DOMAIN ps |-> load(k)]
<1>1. Prologue = saves \o InTurn(parked) \o InTurn(loaded)
  BY DEF Prologue
<1>2. PICK n \in Nat : DOMAIN ps = 1 .. n
  <2>1. fn.params \in Seq(Seq(Value)) /\ DOMAIN fn.params = Blocks(fn)
    BY DEF Functions
  <2>2. ps \in Seq(Value)
    BY <2>1, EntryIsTarget
  <2> HIDE DEF ps
  <2> QED
    BY <2>2
<1> HIDE DEF ps
<1>3. ASSUME NEW k PROVE Passage(park(k), 0, 0)
  <2>1. parkIn(ps[k])[1] # 3
    BY NotASlot
  <2> HIDE DEF parkIn
  <2>2. /\ Passage(Mov(parkIn(ps[k]), Incoming(k)), 0, 0) /\ Passage(Mov(R(RAX), Incoming(k)), 0, 0)
        /\ Passage(Mov(parkIn(ps[k]), R(RAX)), 0, 0)
    BY <2>1, QuietMov, NotASlot
  <2>3. Passage(Mov(R(RAX), Incoming(k)) \o Mov(parkIn(ps[k]), R(RAX)), 0, 0)
    BY <2>2, Then
  <2> QED
    BY <2>2, <2>3
<1>4. ASSUME NEW k PROVE Passage(load(k), 0, 0)
  BY QuietMov, NoSteps, NotASlot
<1> HIDE DEF park, load
<1>5. /\ DOMAIN parked = 1 .. n /\ \A k \in 1 .. n : Passage(parked[k], 0, 0)
      /\ DOMAIN loaded = 1 .. n /\ \A k \in 1 .. n : Passage(loaded[k], 0, 0)
  BY <1>2, <1>3, <1>4
<1> HIDE DEF parked, loaded
<1>6. Passage(InTurn(parked), 0, 0) /\ Passage(InTurn(loaded), 0, 0)
  BY <1>5, InTurnStays
<1>7. Passage(InTurn(parked) \o InTurn(loaded), 0, 0)
  BY <1>6, Then
<1> DEFINE rest == InTurn(parked) \o InTurn(loaded) \o Goto(0)
<1>8. Going(rest, 0)
  BY <1>7, EntryIsTarget, Zenon DEF Going
<1>9. Goto(0) \in Seq(Elems(Goto(0)))
  <2> DEFINE x == <<"goto", 0>>
  <2>1. Goto(0) = <<x>>
    BY DEF Goto
  <2> HIDE DEF x
  <2>2. <<x>> \in Seq(Elems(<<x>>))
    BY DEF Elems
  <2> QED
    BY <2>1, <2>2, Zenon
<1>10. rest \in Seq(Elems(rest))
  <2>1. InTurn(parked) \o InTurn(loaded) \in Seq(Elems(InTurn(parked) \o InTurn(loaded)))
    BY <1>7 DEF Passage
  <2> QED
    BY <1>9, <2>1, JoinedElems, Zenon
<1>11. Prologue \o Goto(0) = saves \o rest
  <2> DEFINE x == <<"movs", {<<CalleeSlot(r), R(r)>> : r \in used}>>
             p == InTurn(parked)
             q == InTurn(loaded)
             g == Goto(0)
  <2>1. saves = <<x>>
    BY DEF Movs
  <2>2. p \in Seq(Elems(p)) /\ q \in Seq(Elems(q)) /\ g \in Seq(Elems(g))
    BY <1>6, <1>9 DEF Passage
  <2> DEFINE S == {x} \cup Elems(p) \cup Elems(q) \cup Elems(g)
  <2> HIDE DEF x, p, q, g
  <2>3. p \in Seq(S) /\ q \in Seq(S) /\ g \in Seq(S) /\ <<x>> \in Seq(S)
    BY <2>2
  <2> HIDE DEF S
  <2>4. <<x>> \o p \o q \o g = <<x>> \o (p \o q \o g)
    BY <2>3
  <2> QED
    BY <1>1, <2>1, <2>4, Zenon DEF p, q, g
<1> HIDE DEF rest, saves
<1>12. Prologue \o Goto(0) = saves \o rest /\ rest \in Seq(Elems(rest)) /\ Going(rest, 0)
  BY <1>8, <1>10, <1>11, Zenon
<1> QED
  BY <1>12, Zenon DEF saves

-----------------------------------------------------------------------------
(* The machine takes the first step of the code.                           *)

LEMMA FirstOfPassage ==
  ASSUME NEW s, NEW a, NEW b, Passage(s, a, b), s # <<>>, NEW w, w \in Seq(Elems(w))
  PROVE  /\ s \o w # <<>> /\ (s \o w)[1] = s[1] /\ Quiet(s[1])
         /\ Tail(s \o w) = Tail(s) \o w
         /\ a \in Nat /\ a + Lift(s[1]) \in Nat /\ Passage(Tail(s), a + Lift(s[1]), b)
<1>1. s \in Seq(Elems(s)) /\ Len(s) \in Nat /\ Len(s) >= 1
  <2>1. s \in Seq(Elems(s))
    BY DEF Passage
  <2> QED
    BY <2>1
<1> DEFINE S == Elems(s) \cup Elems(w)
<1>2. s \in Seq(S) /\ w \in Seq(S)
  BY <1>1
<1> HIDE DEF S
<1>3. s \o w # <<>> /\ (s \o w)[1] = s[1] /\ Tail(s \o w) = Tail(s) \o w
  BY <1>1, <1>2
<1>4. s[1] \in Elems(s) /\ Quiet(s[1])
  BY <1>1 DEF Elems, Passage
<1>5. PICK d \in [0 .. Len(s) -> Nat] :
        /\ d[0] = a /\ d[Len(s)] = b
        /\ \A k \in 1 .. Len(s) : d[k] = d[k - 1] + Lift(s[k])
  BY DEF Passage
<1>6. a \in Nat /\ d[1] = a + Lift(s[1]) /\ d[1] \in Nat
  BY <1>1, <1>5
<1> DEFINE t == Tail(s)
           e == [k \in 0 .. Len(s) - 1 |-> d[k + 1]]
<1>7. t \in Seq(Elems(s)) /\ Len(t) = Len(s) - 1 /\ \A k \in 1 .. Len(t) : t[k] = s[k + 1]
  BY <1>1
<1> HIDE DEF t
<1>8. Elems(t) \subseteq Elems(s) /\ t \in Seq(Elems(t))
  <2>1. ASSUME NEW k \in 1 .. Len(t)
        PROVE  t[k] \in Elems(s) /\ t[k] \in Elems(t)
    <3>1. k + 1 \in 1 .. Len(s) /\ t[k] = s[k + 1]
      BY <1>1, <1>7
    <3> QED
      BY <3>1 DEF Elems
  <2>2. Elems(t) \subseteq Elems(s)
    BY <2>1 DEF Elems
  <2> QED
    BY <1>7, <2>1, <2>2
<1>9. e \in [0 .. Len(t) -> Nat] /\ e[0] = d[1] /\ e[Len(t)] = b
  BY <1>1, <1>5, <1>7
<1>10. ASSUME NEW k \in 1 .. Len(t)
       PROVE  e[k] = e[k - 1] + Lift(t[k])
  <2>1. k + 1 \in 1 .. Len(s) /\ t[k] = s[k + 1] /\ k + 1 - 1 = k
    BY <1>1, <1>7
  <2>2. d[k + 1] = d[k] + Lift(s[k + 1])
    BY <1>5, <2>1
  <2>3. e[k] = d[k + 1] /\ e[k - 1] = d[k]
    BY <1>1, <1>7
  <2> QED
    BY <2>1, <2>2, <2>3
<1> HIDE DEF e
<1>11. \A x \in Elems(t) : Quiet(x)
  BY <1>8 DEF Passage
<1>12. Passage(t, d[1], b)
  BY <1>8, <1>9, <1>10, <1>11, Zenon DEF Passage
<1> QED
  BY <1>3, <1>4, <1>6, <1>12 DEF t

-----------------------------------------------------------------------------
(* The inductive invariant.                                                *)

\* The slots hold the caller's contents of the registers the allocation uses; the registers do.
Saved == \A r \in used : <<Caller(r), CalleeSlot(r)>> \in holds
Restored == \A r \in used : <<Caller(r), R(r)>> \in holds

\* What the code being executed still has to do.
Entering ==
  /\ stack = <<>>
  /\ \E rest : /\ code = Movs({<<CalleeSlot(r), R(r)>> : r \in used}) \o rest
               /\ rest \in Seq(Elems(rest)) /\ Going(rest, 0)
  /\ \A r \in CalleeSaved : <<Caller(r), R(r)>> \in holds
Executing == Saved /\ Going(code, Len(stack))
Leaving == Saved /\ Returning(code, Len(stack))
Left == Restored /\ stack = <<>> /\ \E u : Reads(u) /\ code = u \o Ret
Trapped == Trapping(code) /\ stack = <<>>

EmitInv ==
  /\ fn \in Functions
  /\ UsedInv
  /\ stack \in Seq(Elems(stack))
  /\ \/ code = <<>> /\ stack = <<>>
     \/ phase = "done" /\ (Entering \/ Executing \/ Leaving \/ Left \/ Trapped)

LEMMA InitEmit == Init => EmitInv
<1> SUFFICES ASSUME Init PROVE EmitInv
  OBVIOUS
<1>1. fn \in Functions /\ UsedInv
  BY ProgramsAssumption, InitUsed DEF Init, AllocInit
<1>2. code = <<>> /\ stack = <<>> /\ stack \in Seq(Elems(stack))
  BY DEF Init, Elems
<1> QED
  BY <1>1, <1>2 DEF EmitInv

\* The code is never empty once the function is entered, and its first step is that of its shape.
LEMMA GoingFirst ==
  ASSUME NEW a, Going(code, a)
  PROVE  \/ \E i : Target(i) /\ a = 0 /\ code = Goto(i)
         \/ /\ code # <<>> /\ Quiet(code[1]) /\ a \in Nat /\ a + Lift(code[1]) \in Nat
            /\ Going(Tail(code), a + Lift(code[1]))
<1>1. PICK s, i : Passage(s, a, 0) /\ Target(i) /\ code = s \o Goto(i)
  BY DEF Going
<1>2. PICK x : Goto(i) = <<x>>
  BY Zenon DEF Goto
<1>3. Goto(i) \in Seq(Elems(Goto(i)))
  <2>1. <<x>> \in Seq(Elems(<<x>>))
    BY DEF Elems
  <2> QED
    BY <1>2, <2>1
<1>4. CASE s = <<>>
  <2>1. <<>> \o <<x>> = <<x>>
    OBVIOUS
  <2>2. a = 0
    <3>1. PICK d \in [0 .. Len(s) -> Nat] : d[0] = a /\ d[Len(s)] = 0
      BY <1>1 DEF Passage
    <3>2. Len(s) = 0
      BY <1>4
    <3> QED
      BY <3>1, <3>2
  <2> QED
    BY <1>1, <1>2, <1>4, <2>1, <2>2
<1>5. CASE s # <<>>
  <2>1. /\ code # <<>> /\ code[1] = s[1] /\ Quiet(s[1]) /\ Tail(code) = Tail(s) \o Goto(i)
        /\ a \in Nat /\ a + Lift(s[1]) \in Nat /\ Passage(Tail(s), a + Lift(s[1]), 0)
    BY <1>1, <1>3, <1>5, FirstOfPassage
  <2> QED
    BY <1>1, <2>1, Zenon DEF Going
<1> QED
  BY <1>4, <1>5

LEMMA ReturningFirst ==
  ASSUME NEW a, Returning(code, a)
  PROVE  \/ /\ a = 0 /\ code # <<>>
            /\ code[1] = <<"movs", {<<R(r), CalleeSlot(r)>> : r \in used}>>
            /\ \E u : Reads(u) /\ Tail(code) = u \o Ret
         \/ /\ code # <<>> /\ Quiet(code[1]) /\ a \in Nat /\ a + Lift(code[1]) \in Nat
            /\ Returning(Tail(code), a + Lift(code[1]))
<1>1. PICK s, u : Passage(s, a, 0) /\ Reads(u) /\ code = s \o Epilogue \o u \o Ret
  BY Zenon DEF Returning
<1> DEFINE x == <<"movs", {<<R(r), CalleeSlot(r)>> : r \in used}>>
           y == <<"ret">>
<1>2. Epilogue = <<x>> /\ Ret = <<y>>
  BY DEF Epilogue, Movs, Ret
<1> HIDE DEF x, y
<1>3. u \in Seq(Elems(u)) /\ s \in Seq(Elems(s))
  BY <1>1 DEF Reads, Passage
<1> DEFINE S == {x, y} \cup Elems(u) \cup Elems(s)
           w == <<x>> \o u \o <<y>>
<1>4. u \in Seq(S) /\ s \in Seq(S) /\ <<x>> \in Seq(S) /\ <<y>> \in Seq(S)
  BY <1>3
<1> HIDE DEF S
<1>5. code = s \o w
  BY <1>1, <1>2, <1>4
<1>6. /\ w # <<>> /\ w[1] = x /\ Tail(w) = u \o <<y>> /\ w \in Seq(S)
  BY <1>4
<1> HIDE DEF w
<1>7. CASE s = <<>>
  <2>1. code = w
    BY <1>5, <1>6, <1>7
  <2>2. a = 0
    <3>1. PICK d \in [0 .. Len(s) -> Nat] : d[0] = a /\ d[Len(s)] = 0
      BY <1>1 DEF Passage
    <3>2. Len(s) = 0
      BY <1>7
    <3> QED
      BY <3>1, <3>2
  <2> QED
    BY <1>1, <1>2, <1>6, <2>1, <2>2, Zenon DEF x
<1>8. CASE s # <<>>
  <2>1. w \in Seq(Elems(w))
    BY <1>6 DEF Elems
  <2>2. /\ code # <<>> /\ code[1] = s[1] /\ Quiet(s[1]) /\ Tail(code) = Tail(s) \o w
        /\ a \in Nat /\ a + Lift(s[1]) \in Nat /\ Passage(Tail(s), a + Lift(s[1]), 0)
    BY <1>1, <1>5, <1>8, <2>1, FirstOfPassage
  <2>3. Tail(s) \in Seq(S)
    BY <1>4, <1>8
  <2>4. Tail(s) \o w = Tail(s) \o <<x>> \o u \o <<y>>
    BY <1>4, <2>3 DEF w
  <2> QED
    BY <1>1, <1>2, <2>2, <2>4, Zenon DEF Returning
<1> QED
  BY <1>7, <1>8, Zenon

LEMMA LeftFirst ==
  ASSUME NEW u, Reads(u), code = u \o Ret
  PROVE  \/ code # <<>> /\ code[1][1] = "ret"
         \/ code # <<>> /\ code[1][1] = "use" /\ \E t : Reads(t) /\ Tail(code) = t \o Ret
<1> DEFINE y == <<"ret">>
<1>1. Ret = <<y>> /\ y[1] = "ret"
  BY DEF Ret
<1> HIDE DEF y
<1>2. u \in Seq(Elems(u)) /\ \A x \in Elems(u) : x[1] = "use"
  BY DEF Reads
<1> DEFINE S == {y} \cup Elems(u)
<1>3. u \in Seq(S) /\ <<y>> \in Seq(S)
  BY <1>2
<1>4. CASE u = <<>>
  <2>1. code = <<y>>
    BY <1>1, <1>4
  <2> QED
    BY <1>1, <2>1
<1>5. CASE u # <<>>
  <2> HIDE DEF S
  <2>1. code # <<>> /\ code[1] = u[1] /\ Tail(code) = Tail(u) \o <<y>>
    BY <1>1, <1>3, <1>5
  <2>2. Len(u) \in Nat /\ Len(u) >= 1
    BY <1>2, <1>5
  <2>3. u[1] \in Elems(u)
    BY <2>2 DEF Elems
  <2> DEFINE t == Tail(u)
  <2>4. t \in Seq(Elems(u)) /\ Len(t) = Len(u) - 1 /\ \A k \in 1 .. Len(t) : t[k] = u[k + 1]
    BY <1>2, <1>5
  <2> HIDE DEF t
  <2>5. t \in Seq(Elems(t)) /\ Elems(t) \subseteq Elems(u)
    <3>1. \A k \in 1 .. Len(t) : t[k] \in Elems(u) /\ t[k] \in Elems(t)
      BY <2>4 DEF Elems
    <3>2. Elems(t) \subseteq Elems(u)
      BY <3>1 DEF Elems
    <3> QED
      BY <2>4, <3>1, <3>2, SMTT(30)
  <2>6. Reads(t)
    BY <1>2, <2>5 DEF Reads
  <2> QED
    BY <1>1, <1>2, <2>1, <2>3, <2>6, Zenon DEF t
<1> QED
  BY <1>4, <1>5, Zenon

Machine == Move \/ Read \/ Define \/ Overwrite \/ PushVictim \/ PopVictim \/ BindParams

\* A quiet step of the machine leaves the caller's contents in their slots and moves the depth by
\* its lift.
LEMMA QuietStep ==
  ASSUME fn \in Functions, used \subseteq CalleeSaved, stack \in Seq(Elems(stack)), Saved,
         code # <<>>, Quiet(code[1]), Len(stack) + Lift(code[1]) \in Nat, Machine
  PROVE  /\ Saved' /\ stack' \in Seq(Elems(stack))' /\ Len(stack') = Len(stack) + Lift(code[1])
         /\ code' = Tail(code) /\ UNCHANGED allocVars
<1>1. code' = Tail(code) /\ UNCHANGED allocVars
  BY Zenon DEF Machine, Move, Read, Define, Overwrite, PushVictim, PopVictim, BindParams, Continue
<1>2. used' = used /\ fn' = fn
  BY <1>1 DEF allocVars
<1>3. \A r \in used : Caller(r) \in Int /\ Caller(r) \notin Nat /\ Caller(r) # Outcome
  BY DEF CalleeSaved, RBX, R12, R13, R14, R15, Caller, Outcome
<1>4. \A r : CalleeSlot(r)[1] = 3 /\ \A q : CalleeSlot(r) # R(q)
  BY DEF CalleeSlot, R
<1>5. \A r : <<Caller(r), CalleeSlot(r)>>[1] = Caller(r) /\ <<Caller(r), CalleeSlot(r)>>[2] = CalleeSlot(r)
  OBVIOUS
<1>6. Len(stack) \in Nat
  OBVIOUS
<1>7. stack' = stack => stack' \in Seq(Elems(stack))'
  BY DEF Elems
<1>8. CASE Move
  <2>1. code[1][1] = "movs" /\ stack' = stack
    BY <1>8 DEF Move, Running
  <2>2. Lift(code[1]) = 0 /\ \A m \in code[1][2] : m[1][1] # 3
    BY <2>1 DEF Lift, Quiet
  <2>3. \A h \in holds : h[2][1] = 3 => h \in holds'
    BY <1>8, <2>2 DEF Move
  <2>4. Saved'
    BY <1>2, <1>4, <1>5, <2>3 DEF Saved
  <2> QED
    BY <1>1, <1>6, <1>7, <2>1, <2>2, <2>4
<1>9. CASE Read
  <2>1. code[1][1] = "use" /\ stack' = stack /\ holds' = holds
    BY <1>9 DEF Read, Running
  <2>2. Lift(code[1]) = 0 /\ Saved'
    BY <1>2, <2>1 DEF Lift, Saved
  <2> QED
    BY <1>1, <1>6, <1>7, <2>1, <2>2
<1>10. CASE Define
  <2>1. code[1][1] = "def" /\ stack' = stack
    BY <1>10 DEF Define, Running
  <2>2. Lift(code[1]) = 0 /\ code[1][2] \in Nat \cup {Outcome} /\ code[1][3][1] # 3
    BY <2>1 DEF Lift, Quiet
  <2>3. \A h \in holds : h[2][1] = 3 /\ h[1] \notin Nat \cup {Outcome} => h \in holds'
    BY <1>10, <2>2 DEF Define
  <2>4. Saved'
    BY <1>2, <1>3, <1>4, <1>5, <2>3 DEF Saved
  <2> QED
    BY <1>1, <1>6, <1>7, <2>1, <2>2, <2>4
<1>11. CASE Overwrite
  <2>1. code[1][1] = "clobber" /\ stack' = stack
    BY <1>11 DEF Overwrite, Running
  <2>2. Lift(code[1]) = 0 /\ \A l \in code[1][2] : l[1] # 3
    BY <2>1 DEF Lift, Quiet
  <2>3. \A h \in holds : h[2][1] = 3 => h \in holds'
    BY <1>11, <2>2 DEF Overwrite
  <2>4. Saved'
    BY <1>2, <1>4, <1>5, <2>3 DEF Saved
  <2> QED
    BY <1>1, <1>6, <1>7, <2>1, <2>2, <2>4
<1>12. CASE PushVictim
  <2>1. code[1][1] = "push" /\ holds' = holds
    BY <1>12 DEF PushVictim, Running
  <2>2. Lift(code[1]) = 1 /\ Saved'
    BY <1>2, <2>1 DEF Lift, Saved
  <2>3. PICK x : stack' = <<x>> \o stack
    BY <1>12, Zenon DEF PushVictim
  <2>4. <<x>> \in Seq(Elems(<<x>>)) /\ Len(<<x>>) = 1
    BY DEF Elems
  <2>5. stack' \in Seq(Elems(stack)') /\ Len(stack') = Len(stack) + 1
    <3> DEFINE w == <<x>> \o stack
    <3>1. w \in Seq(Elems(w)) /\ Len(w) = Len(stack) + 1
      BY <1>6, <2>4, JoinedElems, SMTT(30)
    <3>2. stack' = w
      BY <2>3
    <3> HIDE DEF w
    <3> QED
      BY <3>1, <3>2 DEF Elems
  <2> QED
    BY <1>1, <2>2, <2>5
<1>13. CASE PopVictim
  <2>1. code[1][1] = "pop" /\ stack' = Tail(stack)
    BY <1>13 DEF PopVictim, Running
  <2>2. Lift(code[1]) = -1
    BY <2>1 DEF Lift
  <2>3. Len(stack) >= 1 /\ stack # <<>>
    BY <1>6, <2>2
  <2>4. \A h \in holds : h[2] # R(code[1][2]) => h \in holds'
    BY <1>13 DEF PopVictim
  <2>5. Saved'
    BY <1>2, <1>4, <1>5, <2>4 DEF Saved
  <2> DEFINE t == Tail(stack)
  <2>6. t \in Seq(Elems(stack)) /\ Len(t) = Len(stack) - 1
    BY <2>3
  <2> HIDE DEF t
  <2>7. t \in Seq(Elems(t))
    BY <2>6, OwnElems
  <2>8. stack' \in Seq(Elems(stack)')
    BY <2>1, <2>7 DEF t, Elems
  <2> QED
    BY <1>1, <1>6, <2>1, <2>2, <2>5, <2>6, <2>8 DEF t
<1>14. CASE BindParams
  <2>1. code[1][1] = "bind" /\ stack' = stack
    BY <1>14 DEF BindParams, Running
  <2>2. Lift(code[1]) = 0 /\ code[1][2] \in Blocks(fn)
    BY <2>1 DEF Lift, Quiet
  <2> DEFINE ps == fn.params[code[1][2]]
  <2>3. ps \in Seq(Value)
    <3>1. fn.params \in Seq(Seq(Value)) /\ DOMAIN fn.params = Blocks(fn)
      BY DEF Functions
    <3> QED
      BY <2>2, <3>1
  <2>4. \A h \in holds : h[1] \notin {ps[k] : k \in DOMAIN ps} => h \in holds'
    BY <1>14, Zenon DEF BindParams
  <2> HIDE DEF ps
  <2>5. \A k \in DOMAIN ps : ps[k] \in Nat
    BY <2>3 DEF Value
  <2>6. \A h \in holds : h[1] \notin Nat => h \in holds'
    BY <2>4, <2>5
  <2>7. Saved'
    BY <1>2, <1>3, <1>5, <2>6 DEF Saved
  <2> QED
    BY <1>1, <1>6, <1>7, <2>1, <2>2, <2>7
<1> QED
  BY <1>8, <1>9, <1>10, <1>11, <1>12, <1>13, <1>14 DEF Machine

\* The shapes of code depend on the function and its allocation only.
LEMMA ShapesKept ==
  ASSUME UNCHANGED allocVars, NEW c, NEW a
  PROVE  (Going(c, a) => Going(c, a)') /\ (Returning(c, a) => Returning(c, a)')
<1>1. fn' = fn /\ used' = used
  BY DEF allocVars
<1>2. \A x : Quiet(x) <=> Quiet(x)'
  BY <1>1 DEF Quiet
<1>3. \A s, b, d : Passage(s, b, d) => Passage(s, b, d)'
  BY <1>2 DEF Passage
<1>4. \A i : Target(i) => Target(i)'
  BY <1>1 DEF Target
<1>5. Epilogue' = Epilogue
  BY <1>1 DEF Epilogue
<1> QED
  BY <1>3, <1>4, <1>5 DEF Going, Returning

\* The first step of each kind of code that is not a jump out of it.
LEMMA EntryStep ==
  ASSUME EmitInv, phase = "done", Entering, Machine
  PROVE  EmitInv'
<1> DEFINE moves == {<<CalleeSlot(r), R(r)>> : r \in used}
           x == <<"movs", moves>>
<1>1. PICK rest : /\ code = <<x>> \o rest
                  /\ rest \in Seq(Elems(rest)) /\ Going(rest, 0)
  BY DEF Entering, Movs
<1>2. x[1] = "movs" /\ x[2] = moves
  OBVIOUS
<1> HIDE DEF x
<1>3. code # <<>> /\ code[1] = x /\ Tail(code) = rest
  <2> DEFINE S == {x} \cup Elems(rest)
  <2>1. rest \in Seq(S) /\ <<x>> \in Seq(S)
    BY <1>1
  <2> HIDE DEF S
  <2> QED
    BY <1>1, <2>1
<1>4. Move
  BY <1>2, <1>3 DEF Machine, Move, Read, Define, Overwrite, PushVictim, PopVictim, BindParams, Running
<1>5. code' = rest /\ stack' = stack /\ stack = <<>> /\ UNCHANGED allocVars
  BY <1>3, <1>4, Zenon DEF Move, Continue, Entering
<1>6. fn' = fn /\ used' = used /\ asg' = asg /\ phase' = phase
  BY <1>5 DEF allocVars
<1>7. Saved'
  <2> SUFFICES ASSUME NEW r \in used PROVE <<Caller(r), CalleeSlot(r)>> \in holds'
    BY <1>6 DEF Saved
  <2> DEFINE m == <<CalleeSlot(r), R(r)>>
             h == <<Caller(r), R(r)>>
  <2>1. m \in moves /\ m[1] = CalleeSlot(r) /\ m[2] = R(r)
    OBVIOUS
  <2>2. h \in holds /\ h[1] = Caller(r) /\ h[2] = R(r)
    BY DEF Entering, EmitInv, UsedInv
  <2> HIDE DEF m, h, moves
  <2>3. holds' = {g \in holds : g[2] \notin {n[1] : n \in moves}}
                   \cup UNION {{<<g[1], n[1]>> : g \in {f \in holds : f[2] = n[2]}} : n \in moves}
    BY <1>2, <1>3, <1>4 DEF Move
  <2>4. <<h[1], m[1]>> \in {<<g[1], m[1]>> : g \in {f \in holds : f[2] = m[2]}}
    BY <2>1, <2>2
  <2>5. <<h[1], m[1]>> \in holds'
    BY <2>1, <2>3, <2>4
  <2> QED
    BY <2>1, <2>2, <2>5
<1>8. Going(rest, 0)'
  BY <1>1, <1>5, ShapesKept
<1>9. Going(code, Len(stack))'
  <2>1. Len(stack') = 0 /\ code' = rest
    BY <1>5
  <2> QED
    BY <1>8, <2>1 DEF Going
<1>10. UsedInv' /\ fn' \in Functions
  BY <1>6 DEF EmitInv, UsedInv
<1>11. stack' \in Seq(Elems(stack))'
  BY <1>5 DEF EmitInv, Elems
<1> QED
  BY <1>6, <1>7, <1>9, <1>10, <1>11 DEF EmitInv, Executing

LEMMA ExecutingStep ==
  ASSUME EmitInv, phase = "done", Executing, Machine
  PROVE  EmitInv'
<1>1. code # <<>> /\ code[1][1] # "goto"
  BY Zenon DEF Machine, Move, Read, Define, Overwrite, PushVictim, PopVictim, BindParams, Running
<1>2. \A i : code # Goto(i)
  BY <1>1 DEF Goto
<1>3. /\ Quiet(code[1]) /\ Len(stack) + Lift(code[1]) \in Nat
      /\ Going(Tail(code), Len(stack) + Lift(code[1]))
  BY <1>2, GoingFirst DEF Executing
<1>4. /\ Saved' /\ stack' \in Seq(Elems(stack))' /\ Len(stack') = Len(stack) + Lift(code[1])
      /\ code' = Tail(code) /\ UNCHANGED allocVars
  BY <1>1, <1>3, QuietStep DEF EmitInv, UsedInv, Executing
<1>5. PICK c, n : c = Tail(code) /\ n = Len(stack) + Lift(code[1]) /\ Going(c, n)
  BY <1>3, Zenon
<1>6. Going(c, n)'
  BY <1>4, <1>5, ShapesKept
<1>7. Going(code, Len(stack))'
  BY <1>4, <1>5, <1>6, Zenon DEF Going
<1>8. fn' = fn /\ used' = used /\ asg' = asg /\ phase' = phase
  BY <1>4 DEF allocVars
<1>9. UsedInv' /\ fn' \in Functions
  BY <1>8 DEF EmitInv, UsedInv
<1> QED
  BY <1>4, <1>7, <1>8, <1>9 DEF EmitInv, Executing

LEMMA LeavingStep ==
  ASSUME EmitInv, phase = "done", Leaving, Machine
  PROVE  EmitInv'
<1> DEFINE moves == {<<R(r), CalleeSlot(r)>> : r \in used}
<1>0. code # <<>> /\ Saved /\ Returning(code, Len(stack))
  BY Zenon DEF Leaving, Machine, Move, Read, Define, Overwrite, PushVictim, PopVictim, BindParams, Running
<1>1. CASE /\ Quiet(code[1]) /\ Len(stack) + Lift(code[1]) \in Nat
           /\ Returning(Tail(code), Len(stack) + Lift(code[1]))
  <2>1. /\ Saved' /\ stack' \in Seq(Elems(stack))' /\ Len(stack') = Len(stack) + Lift(code[1])
        /\ code' = Tail(code) /\ UNCHANGED allocVars
    BY <1>0, <1>1, QuietStep DEF EmitInv, UsedInv
  <2>2. PICK c, n : c = Tail(code) /\ n = Len(stack) + Lift(code[1]) /\ Returning(c, n)
    BY <1>1, Zenon
  <2>3. Returning(c, n)'
    BY <2>1, <2>2, ShapesKept
  <2>4. Returning(code, Len(stack))'
    BY <2>1, <2>2, <2>3, Zenon DEF Returning
  <2>5. fn' = fn /\ used' = used /\ asg' = asg /\ phase' = phase
    BY <2>1 DEF allocVars
  <2>6. UsedInv' /\ fn' \in Functions
    BY <2>5 DEF EmitInv, UsedInv
  <2> QED
    BY <2>1, <2>4, <2>5, <2>6 DEF EmitInv, Leaving
<1>2. CASE /\ Len(stack) = 0 /\ code[1] = <<"movs", moves>>
           /\ \E u : Reads(u) /\ Tail(code) = u \o Ret
  <2>1. code[1][1] = "movs" /\ code[1][2] = moves
    BY <1>2
  <2>2. Move
    BY <2>1 DEF Machine, Move, Read, Define, Overwrite, PushVictim, PopVictim, BindParams, Running
  <2>3. code' = Tail(code) /\ stack' = stack /\ UNCHANGED allocVars
    BY <2>2 DEF Move, Continue
  <2>4. fn' = fn /\ used' = used /\ asg' = asg /\ phase' = phase
    BY <2>3 DEF allocVars
  <2>5. stack' = <<>>
    BY <1>2, <2>3 DEF EmitInv
  <2>6. Restored'
    <3> SUFFICES ASSUME NEW r \in used PROVE <<Caller(r), R(r)>> \in holds'
      BY <2>4 DEF Restored
    <3> DEFINE m == <<R(r), CalleeSlot(r)>>
               h == <<Caller(r), CalleeSlot(r)>>
    <3>1. m \in moves /\ m[1] = R(r) /\ m[2] = CalleeSlot(r)
      OBVIOUS
    <3>2. h \in holds /\ h[1] = Caller(r) /\ h[2] = CalleeSlot(r)
      BY <1>0 DEF Saved
    <3> HIDE DEF m, h, moves
    <3>3. holds' = {g \in holds : g[2] \notin {n[1] : n \in moves}}
                     \cup UNION {{<<g[1], n[1]>> : g \in {f \in holds : f[2] = n[2]}} : n \in moves}
      BY <2>1, <2>2 DEF Move
    <3>4. <<h[1], m[1]>> \in {<<g[1], m[1]>> : g \in {f \in holds : f[2] = m[2]}}
      BY <3>1, <3>2
    <3>5. <<h[1], m[1]>> \in holds'
      BY <3>1, <3>3, <3>4
    <3> QED
      BY <3>1, <3>2, <3>5
  <2>7. Left'
    <3>1. PICK u : Reads(u) /\ code' = u \o Ret
      BY <1>2, <2>3, Zenon
    <3>2. Reads(u)'
      BY <3>1 DEF Reads, Elems
    <3>3. code' = (u \o Ret)'
      BY <3>1 DEF Ret
    <3> QED
      BY <2>5, <2>6, <3>2, <3>3 DEF Left
  <2>8. UsedInv' /\ fn' \in Functions
    BY <2>4 DEF EmitInv, UsedInv
  <2>9. stack' \in Seq(Elems(stack))'
    BY <2>5 DEF Elems
  <2> QED
    BY <2>4, <2>7, <2>8, <2>9 DEF EmitInv
<1> QED
  BY <1>0, <1>1, <1>2, ReturningFirst, Zenon

LEMMA LeftStep ==
  ASSUME EmitInv, phase = "done", Left, Machine
  PROVE  EmitInv'
<1>1. PICK u : Reads(u) /\ code = u \o Ret
  BY DEF Left
<1>2. code[1][1] # "ret"
  BY Zenon DEF Machine, Move, Read, Define, Overwrite, PushVictim, PopVictim, BindParams, Running
<1>3. code[1][1] = "use" /\ \E t : Reads(t) /\ Tail(code) = t \o Ret
  BY <1>1, <1>2, LeftFirst, Zenon
<1>4. Read
  BY <1>3 DEF Machine, Move, Read, Define, Overwrite, PushVictim, PopVictim, BindParams, Running
<1>5. code' = Tail(code) /\ stack' = stack /\ holds' = holds /\ UNCHANGED allocVars
  BY <1>4 DEF Read, Continue
<1>6. fn' = fn /\ used' = used /\ asg' = asg /\ phase' = phase
  BY <1>5 DEF allocVars
<1>7. Restored' /\ stack' = <<>>
  BY <1>5, <1>6 DEF Left, Restored
<1>8. Left'
  <2>1. PICK t : Reads(t) /\ code' = t \o Ret
    BY <1>3, <1>5
  <2>2. Reads(t)'
    BY <2>1 DEF Reads, Elems
  <2>3. code' = (t \o Ret)'
    BY <2>1 DEF Ret
  <2> QED
    BY <1>7, <2>2, <2>3, Zenon DEF Left
<1>9. UsedInv' /\ fn' \in Functions
  BY <1>6 DEF EmitInv, UsedInv
<1>10. stack' \in Seq(Elems(stack))'
  BY <1>7 DEF Elems
<1> QED
  BY <1>6, <1>8, <1>9, <1>10 DEF EmitInv

LEMMA MachineStep ==
  ASSUME EmitInv, Machine
  PROVE  EmitInv'
<1>1. code # <<>> /\ code[1][1] # "trap"
  BY Zenon DEF Machine, Move, Read, Define, Overwrite, PushVictim, PopVictim, BindParams, Running
<1>2. ~ Trapped
  BY <1>1 DEF Trapped, Trapping
<1>3. phase = "done" /\ (Entering \/ Executing \/ Leaving \/ Left)
  BY <1>1, <1>2 DEF EmitInv
<1> QED
  BY <1>3, EntryStep, ExecutingStep, LeavingStep, LeftStep

LEMMA EnteringFirst ==
  ASSUME Entering
  PROVE  code # <<>> /\ code[1] = <<"movs", {<<CalleeSlot(r), R(r)>> : r \in used}>>
<1> DEFINE x == <<"movs", {<<CalleeSlot(r), R(r)>> : r \in used}>>
<1>1. PICK rest : code = <<x>> \o rest /\ rest \in Seq(Elems(rest))
  BY DEF Entering, Movs
<1> HIDE DEF x
<1> DEFINE S == {x} \cup Elems(rest)
<1>2. rest \in Seq(S) /\ <<x>> \in Seq(S)
  BY <1>1
<1> HIDE DEF S
<1>3. code # <<>> /\ code[1] = x
  BY <1>1, <1>2
<1> QED
  BY <1>3 DEF x

\* Control passes to the next instruction only from code whose steps are all done.
LEMMA GoOnStep ==
  ASSUME EmitInv, GoOn
  PROVE  EmitInv'
<1>1. code # <<>> /\ code[1][1] = "goto"
  BY DEF GoOn, Running
<1>2. fn \in Functions /\ used \subseteq CalleeSaved
  BY DEF EmitInv, UsedInv
<1>3. \A x : Quiet(x) => x[1] # "goto"
  BY DEF Quiet
<1>4. ~ Entering
  BY <1>1, EnteringFirst
<1>5. ~ Leaving
  <2> SUFFICES ASSUME Leaving PROVE FALSE
    OBVIOUS
  <2>1. Quiet(code[1]) \/ code[1] = <<"movs", {<<R(r), CalleeSlot(r)>> : r \in used}>>
    BY ReturningFirst DEF Leaving
  <2> QED
    BY <1>1, <1>3, <2>1
<1>6. ~ Left
  BY <1>1, LeftFirst DEF Left
<1>7. ~ Trapped
  BY <1>1 DEF Trapped, Trapping
<1>8. phase = "done" /\ Executing
  BY <1>1, <1>4, <1>5, <1>6, <1>7 DEF EmitInv
<1>9. PICK i : Target(i) /\ Len(stack) = 0 /\ code = Goto(i)
  BY <1>1, <1>3, <1>8, GoingFirst DEF Executing
<1>10. code[1][2] = i
  BY <1>9 DEF Goto
<1>11. code' \in Template(i) /\ UNCHANGED allocVars /\ holds' = holds /\ stack' = stack
  BY <1>10 DEF GoOn
<1>12. fn' = fn /\ used' = used /\ asg' = asg /\ phase' = phase
  BY <1>11 DEF allocVars
<1>13. Saved' /\ stack' = <<>>
  BY <1>8, <1>9, <1>11, <1>12 DEF Executing, Saved, EmitInv
<1>14. PICK c : c = code'
  OBVIOUS
<1>15. Going(c, 0) \/ Returning(c, 0) \/ Trapping(c)
  BY <1>2, <1>9, <1>11, <1>14, TemplateShape
<1>16. Going(c, 0)' \/ Returning(c, 0)' \/ Trapping(c)
  BY <1>11, <1>15, ShapesKept
<1>17. Len(stack') = 0
  BY <1>13
<1>18. Going(code, Len(stack))' \/ Returning(code, Len(stack))' \/ Trapping(code)'
  BY <1>14, <1>16, <1>17, Zenon DEF Going, Returning, Trapping
<1>19. UsedInv' /\ fn' \in Functions
  BY <1>12 DEF EmitInv, UsedInv
<1>20. stack' \in Seq(Elems(stack))'
  BY <1>13 DEF Elems
<1> QED
  BY <1>8, <1>12, <1>13, <1>18, <1>19, <1>20 DEF EmitInv, Executing, Leaving, Trapped

LEMMA NextEmit ==
  ASSUME EmitInv, [Next]_vars
  PROVE  EmitInv'
<1>1. CASE Allocate
  <2>1. AllocNext /\ code' = code /\ stack' = stack
    BY <1>1 DEF Allocate, emitVars
  <2>2. phase # "done" /\ fn' = fn
    BY <2>1, Zenon DEF AllocNext, LivenessBlock, BuildIntervals, Scan, ScanDone, Verify
  <2>3. code = <<>> /\ stack = <<>>
    BY <2>2 DEF EmitInv
  <2>4. UsedInv'
    BY <2>1, NextUsed DEF EmitInv
  <2> QED
    BY <2>1, <2>2, <2>3, <2>4 DEF EmitInv, Elems
<1>2. CASE Enter
  <2>1. code = <<>> /\ phase = "done" /\ UNCHANGED <<allocVars, stack>>
    BY <1>2 DEF Enter
  <2>2. fn' = fn /\ used' = used /\ asg' = asg /\ phase' = phase
    BY <2>1 DEF allocVars
  <2>3. stack = <<>>
    <3>1. ~ Executing
      BY <2>1, GoingFirst DEF Executing, Goto
    <3>2. ~ Leaving
      BY <2>1, ReturningFirst DEF Leaving
    <3>3. ~ Entering
      BY <2>1, EnteringFirst
    <3> QED
      BY <3>1, <3>2, <3>3 DEF EmitInv, Left, Trapped
  <2>4. PICK rest : /\ code' = Movs({<<CalleeSlot(r), R(r)>> : r \in used}) \o rest
                    /\ rest \in Seq(Elems(rest)) /\ Going(rest, 0)
    BY <1>2, PrologueGoes, Zenon DEF Enter, EmitInv
  <2>8. Going(rest, 0)'
    BY <2>1, <2>4, ShapesKept
  <2>9. code' = (Movs({<<CalleeSlot(r), R(r)>> : r \in used}) \o rest)'
    BY <2>2, <2>4 DEF Movs
  <2>10. (rest \in Seq(Elems(rest)))'
    BY <2>4 DEF Elems
  <2>5. \A r \in CalleeSaved : <<Caller(r), R(r)>> \in holds'
    BY <1>2 DEF Enter
  <2>6. Entering'
    BY <2>1, <2>3, <2>8, <2>9, <2>10, <2>5 DEF Entering
  <2>7. UsedInv' /\ fn' \in Functions
    BY <2>2 DEF EmitInv, UsedInv
  <2> QED
    BY <2>1, <2>2, <2>3, <2>6, <2>7 DEF EmitInv, Elems
<1>3. CASE Machine
  BY <1>3, MachineStep
<1>4. CASE GoOn
  BY <1>4, GoOnStep
<1>5. CASE UNCHANGED vars
  <2>1. UNCHANGED <<fn, used, asg, phase, code, stack, holds>> /\ UNCHANGED allocVars
    BY <1>5 DEF vars, allocVars, emitVars
  <2>2. UsedInv' /\ (fn \in Functions)' /\ (stack \in Seq(Elems(stack)))'
    BY <2>1 DEF EmitInv, UsedInv, Elems
  <2>3. PICK c, n : c = code /\ n = Len(stack)
    BY Zenon
  <2>4. (Going(c, n) => Going(c, n)') /\ (Returning(c, n) => Returning(c, n)')
    BY <2>1, ShapesKept
  <2>5. Executing => Executing'
    BY <2>1, <2>3, <2>4, Zenon DEF Executing, Saved, Going
  <2>6. Leaving => Leaving'
    BY <2>1, <2>3, <2>4, Zenon DEF Leaving, Saved, Returning
  <2>7. Entering => Entering'
    <3> SUFFICES ASSUME Entering PROVE Entering'
      OBVIOUS
    <3>1. PICK rest : /\ code = Movs({<<CalleeSlot(r), R(r)>> : r \in used}) \o rest
                      /\ rest \in Seq(Elems(rest)) /\ Going(rest, 0)
      BY DEF Entering
    <3>2. Going(rest, 0)'
      BY <2>1, <3>1, ShapesKept
    <3>3. code' = (Movs({<<CalleeSlot(r), R(r)>> : r \in used}) \o rest)'
      BY <2>1, <3>1 DEF Movs
    <3>4. (rest \in Seq(Elems(rest)))'
      BY <3>1 DEF Elems
    <3> QED
      BY <2>1, <3>2, <3>3, <3>4, Zenon DEF Entering
  <2>8. Left => Left'
    BY <2>1, Zenon DEF Left, Restored, Reads, Elems, Ret
  <2>9. Trapped => Trapped'
    BY <2>1 DEF Trapped, Trapping
  <2> QED
    BY <2>1, <2>2, <2>5, <2>6, <2>7, <2>8, <2>9 DEF EmitInv
<1> QED
  BY <1>1, <1>2, <1>3, <1>4, <1>5 DEF Next, Machine

\* Whatever function the back end is given and whatever path control takes through it, every
\* scratch register a template pushed is popped again before control leaves the template.
THEOREM StackAlwaysBalanced == Spec => []StackBalanced
<1>1. EmitInv => StackBalanced
  <2> SUFFICES ASSUME EmitInv, code # <<>>, code[1][1] \in {"goto", "ret"} PROVE stack = <<>>
    BY DEF StackBalanced, Running
  <2>1. \A x : Quiet(x) => x[1] \notin {"goto", "ret"}
    BY DEF Quiet
  <2>2. CASE Executing
    <3>1. Len(stack) = 0
      BY <2>1, <2>2, GoingFirst DEF Executing
    <3> QED
      BY <3>1 DEF EmitInv
  <2>3. CASE Leaving
    <3>1. Len(stack) = 0
      BY <2>1, <2>3, ReturningFirst DEF Leaving
    <3> QED
      BY <3>1 DEF EmitInv
  <2> QED
    BY <2>2, <2>3 DEF EmitInv, Entering, Left, Trapped
<1> QED
  BY InitEmit, NextEmit, <1>1, PTL DEF Spec

\* Whatever function the back end is given, every callee-saved register that the allocator gave
\* to some value holds the caller's value again when the function returns: used_callee_saved
\* names it, the prologue saves it, no template writes its slot and the epilogue restores it.
THEOREM CalleeSavedAlwaysPreserved == Spec => []AssignedCalleeSavedPreserved
<1>1. EmitInv => AssignedCalleeSavedPreserved
  <2> SUFFICES ASSUME EmitInv, code # <<>>, code[1][1] = "ret",
                      NEW v \in Values(fn), ~ asg[v].spilled, asg[v].reg \in CalleeSaved
               PROVE  <<Caller(asg[v].reg), R(asg[v].reg)>> \in holds
    BY DEF AssignedCalleeSavedPreserved, Running
  <2>1. \A x : Quiet(x) => x[1] # "ret"
    BY DEF Quiet
  <2>2. ~ Executing
    <3> SUFFICES ASSUME Executing PROVE FALSE
      OBVIOUS
    <3>1. Quiet(code[1]) \/ \E i : code = Goto(i)
      BY GoingFirst DEF Executing
    <3> QED
      BY <2>1, <3>1 DEF Goto
  <2>3. ~ Leaving
    <3> SUFFICES ASSUME Leaving PROVE FALSE
      OBVIOUS
    <3>1. Quiet(code[1]) \/ code[1] = <<"movs", {<<R(r), CalleeSlot(r)>> : r \in used}>>
      BY ReturningFirst DEF Leaving
    <3> QED
      BY <2>1, <3>1
  <2>4. ~ Trapped
    BY DEF Trapped, Trapping
  <2>5. ~ Entering
    BY EnteringFirst
  <2>6. Restored
    BY <2>2, <2>3, <2>4, <2>5 DEF EmitInv, Left
  <2>7. asg[v].reg \in used
    BY DEF EmitInv, UsedInv
  <2> QED
    BY <2>6, <2>7 DEF Restored
<1> QED
  BY InitEmit, NextEmit, <1>1, PTL DEF Spec

\* The emitter and the emitted code never touch what the allocator decided: seen through the
\* allocator's state, the back end is the allocator on its own and then stutters.
LEMMA EmitterKeepsAllocation == Spec => AllocSpec
<1>1. Init => AllocInit
  BY DEF Init
<1>2. [Next]_vars => [AllocNext]_allocVars
  <2> SUFFICES ASSUME [Next]_vars PROVE AllocNext \/ UNCHANGED allocVars
    OBVIOUS
  <2>1. CASE Allocate
    BY <2>1 DEF Allocate
  <2>2. CASE UNCHANGED vars
    BY <2>2 DEF vars
  <2> QED
    BY <2>1, <2>2, Zenon DEF Next, Enter, Move, Read, Define, Overwrite, PushVictim, PopVictim,
       BindParams, GoOn, Continue
<1> QED
  BY <1>1, <1>2, PTL DEF Spec, AllocSpec

\* So the code that runs was generated from an assignment the verifier finds nothing wrong with,
\* whichever function the back end was given.
THEOREM EmittedIsVerified == Spec => []VerifierFindsNothing
BY EmitterKeepsAllocation, AllocationIsVerified, PTL

\* And from the exact liveness of its values.
THEOREM EmittedLivenessExact == Spec => []LivenessIsExact
BY EmitterKeepsAllocation, LivenessAlwaysExact, PTL
=============================================================================
