---------------------------- MODULE MC_Pipeline ----------------------------
(***************************************************************************)
(* Programs for Pipeline: families that put every form of the language     *)
(* that MirGen lowers into the positions where its code interacts.         *)
(***************************************************************************)
EXTENDS Pipeline

\* The stages Pipeline runs.  They come in as parameters because TLC's statistics unfold every
\* definition that an action or an invariant reaches, and mutual recursion has no end of unfoldings.
MCCheckBody(p) == LET accepted == check_body(p) IN accepted
MCEmitBody(p) == LET lowered == emit_body(p) IN lowered
MCPromoteIn(m) == LET promoted == promote_function(m) IN promoted
MCPeepholeIn(m) == LET simplified == peephole(m) IN simplified
MCVerifies(m) == LET verified == verify(m) IN verified
MCEmitFunction(m) == LET emitted == W!emit_function(m) IN emitted
MCEmitDispatch(m) == LET emitted == W!FunctionCode(m, TRUE) IN emitted
MCReducible(m) == LET cfg == W!build_cfg(m) IN cfg.reducible
MCMeaningOf(p, oracle) == LET meaning == Meaning(p, p.args, oracle) IN meaning
MCMirRun(m, p, oracle, junk) == LET seen == Behaviour(m, p, p.args, oracle, junk) IN seen
MCWasmRun(m, emitted, p, oracle, junk) ==
    LET seen == WasmBehaviour(m, emitted, p, p.args, oracle, junk) IN seen

U8 == Scalar("u8")
I8 == Scalar("i8")
U32 == Scalar("u32")
I32 == Scalar("i32")
U64 == Scalar("u64")
I64 == Scalar("i64")
Bool == Scalar("bool")
Usize == Scalar("usize")
PtrTo(ty) == [k |-> "ptr", to |-> ty]
SliceOf(ty) == [k |-> "slice", elem |-> ty]
ArrayOf(n, ty) == [k |-> "array", elem |-> ty, count |-> n]
Struct(fields) == [k |-> "struct", packed |-> FALSE, fields |-> fields]
Plain(ty) == [type |-> ty, init |-> <<>>]

Lit(n, ty) == [e |-> "int", n |-> n, ty |-> ty]

\* E is an enum of three, F a union of a struct and nothing; Pt has a default, Box holds one; Sh is
\* a union of all shapes.
E == [k |-> "enum", under |-> I32, count |-> 3]
Flags == [k |-> "bitset", under |-> U8]
Two == Struct(<<Plain(U8), Plain(U32)>>)
F == [k |-> "union", variants |-> <<Two, Void>>]
Pt == Struct(<<Plain(U8), [type |-> U32, init |-> <<Lit(6, U32)>>]>>)
Packed == [Struct(<<Plain(U8), Plain(U32), Plain(U8)>>) EXCEPT !.packed = TRUE]
Box == Struct(<<Plain(Bool), Plain(Pt), Plain(ArrayOf(2, U8))>>)
Sh == [k |-> "union", variants |-> <<Void, U8, Pt, U64>>]
ErrE == [k |-> "error", members |-> <<E>>]
ErrF == [k |-> "error", members |-> <<F>>]
ErrEF == [k |-> "error", members |-> <<E, F>>]
ErrFE == [k |-> "error", members |-> <<E, F, Sh>>]

Fn(params, returns) ==
    [params |-> params, returns |-> returns, defaults |-> <<>>, variadic |-> FALSE, writes |-> FALSE,
     required |-> Len(params)]

MCFunctions ==
    << Fn(<<U8>>, <<>>),                       \* 1 tick
       Fn(<<>>, <<Bool>>),                     \* 2 ask
       Fn(<<>>, <<I8>>),                       \* 3 num
       Fn(<<>>, <<ErrE>>),                     \* 4 fail
       Fn(<<>>, <<ErrEF>>),                    \* 5 fail2
       Fn(<<>>, <<U8, ErrE>>),                 \* 6 pair
       Fn(<<Box>>, <<>>),                      \* 7 show
       [Fn(<<U8, SliceOf(U32)>>, <<>>) EXCEPT !.variadic = TRUE, !.required = 1],  \* 8 sum
       [Fn(<<PtrTo(U8)>>, <<>>) EXCEPT !.writes = TRUE],                    \* 9 bump
       [Fn(<<U8, U32>>, <<U8>>) EXCEPT !.defaults = <<Lit(0, U8), Lit(5, U32)>>, !.required = 1], \* 10 opt
       Fn(<<>>, <<Pt>>),                       \* 11 make
       Fn(<<>>, <<Sh>>),                       \* 12 shape
       Fn(<<SliceOf(U8)>>, <<>>),              \* 13 list
       Fn(<<I64>>, <<>>),                      \* 14 wide
       Fn(<<Sh>>, <<>>),                       \* 15 draw
       Fn(<<>>, <<U8, U32, ErrF>>),            \* 16 triple
       Fn(<<Bool>>, <<>>),                     \* 17 tell
       Fn(<<>>, <<E>>) >>                      \* 18 pick

MCExterns ==
    [n \in 1 .. Len(MCFunctions) + 1 |->
       IF n > Len(MCFunctions) THEN [params |-> <<"ptr">>, result |-> "void", variadic |-> FALSE]
       ELSE signature_for(MCFunctions[n].params, MCFunctions[n].returns) @@ [variadic |-> FALSE]]

(***************************************************************************)
(* Syntax.                                                                 *)
(***************************************************************************)
Id(name, ty) == [e |-> "ident", name |-> name, ty |-> ty]
Bin(op, l, r) == [e |-> "binary", op |-> op, l |-> l, r |-> r,
                  ty |-> IF op \in {"==", "!=", "<", "<=", ">", ">=", "&&", "||", "in"} THEN Bool ELSE l.ty]
Un(op, x, ty) == [e |-> "unary", op |-> op, x |-> x, ty |-> ty]
Addr(x) == Un("addr", x, PtrTo(x.ty))
Deref(x) == Un("deref", x, x.ty.to)
Set(op, l, r) == [e |-> "assign", op |-> op, l |-> l, r |-> r, ty |-> l.ty]
Incr(inc, prefix, x) == [e |-> "incr", inc |-> inc, prefix |-> prefix, x |-> x, ty |-> x.ty]
CallOf(fn, args) ==
    [e |-> "call", fn |-> fn, args |-> args, drop |-> FALSE,
     ty |-> IF MCFunctions[fn].returns = <<>> THEN Void ELSE MCFunctions[fn].returns[1]]
Dropping(fn) == [CallOf(fn, <<>>) EXCEPT !.drop = TRUE]
Try(fn) == [e |-> "try", call |-> CallOf(fn, <<>>),
            ty |-> IF Len(MCFunctions[fn].returns) = 1 THEN Void ELSE MCFunctions[fn].returns[1]]
Field(x, n) == [e |-> "member", obj |-> x, n |-> n,
                ty |-> (IF x.ty.k = "ptr" THEN x.ty.to ELSE x.ty).fields[n].type]
At_(x, i) == [e |-> "index", obj |-> x, idx |-> i, ty |-> IF x.ty.k = "ptr" THEN x.ty.to ELSE x.ty.elem]
Cast(x, ty) == [e |-> "cast", x |-> x, len |-> <<>>, ty |-> ty]
Sub(x, lo, hi) == [e |-> "slice", obj |-> x, lo |-> lo, hi |-> hi, ty |-> SliceOf(x.ty.elem)]
SliceCast(x, n) == [e |-> "cast", x |-> x, len |-> <<Lit(n, Usize)>>, ty |-> SliceOf(U8)]
LenOf(x) == [e |-> "len", x |-> x, ty |-> Usize]
Either(c, x, y) == [e |-> "ternary", c |-> c, x |-> x, y |-> y, ty |-> x.ty]
Braced(ty, items, fill) == [e |-> "braced", ty |-> ty, items |-> items, fill |-> fill]
Item(n, x) == [n |-> n, x |-> x]
VariantOf(ty, n, items) == [e |-> "variant", ty |-> ty, n |-> n, items |-> items]
Variant(n, items) == VariantOf(Sh, n, items)
Wrapped(n, x) == [e |-> "wrapped", ty |-> Sh, n |-> n, x |-> x]
Default(ty) == [e |-> "default", ty |-> ty]
Arm(pat, cap, body) == [pat |-> pat, cap |-> cap, ref |-> FALSE, body |-> body]

Do(x) == [s |-> "expr", x |-> x]
Body(ss) == [s |-> "block", body |-> ss]
Var(name, x) == [s |-> "var", name |-> name, ty |-> x.ty, init |-> <<x>>]
Let(name, ty, init) == [s |-> "var", name |-> name, ty |-> ty, init |-> init]
Defer(s) == [s |-> "defer", body |-> s]
If(c, t) == [s |-> "if", c |-> c, then |-> Body(t), else |-> <<>>]
IfElse(c, t, f) == [s |-> "if", c |-> c, then |-> Body(t), else |-> <<Body(f)>>]
While_(c, b) == [s |-> "while", c |-> c, body |-> Body(b)]
Range_(hi, name, b) == [s |-> "range", lo |-> <<>>, hi |-> hi, index |-> "_", name |-> name, body |-> Body(b)]
For(x, name, ref, b) == [s |-> "for", x |-> x, index |-> "_", name |-> name, ref |-> ref, body |-> Body(b)]
Return_(xs) == [s |-> "return", values |-> xs]
Switch(x, arms) == [s |-> "switch", x |-> x, arms |-> arms]
Break == [s |-> "break"]
Continue == [s |-> "continue"]

Tick(n) == Do(CallOf(1, <<Lit(n, U8)>>))
TickX(x) == Do(CallOf(1, <<x>>))
Wide(x) == Do(CallOf(14, <<x>>))
Ask == CallOf(2, <<>>)
Num == CallOf(3, <<>>)

Fun(returns, ss, oracles) ==
    [names |-> <<>>, params |-> <<>>, returns |-> returns, body |-> Body(ss), args |-> <<>>,
     oracles |-> oracles]

Coins == [1 .. 5 -> {0, 1}]
Flips == [1 .. 4 -> {0, 1}]
\* What num() answers: the edges of a signed byte.
Nums(n) == [1 .. n -> IF n < 3 THEN {0, 1, 7, 8, 15} ELSE IF n = 3 THEN {0, 7, 9} ELSE {1, 14}]

(***************************************************************************)
(* Leaving nests of scopes with deferred statements.                       *)
(***************************************************************************)
Exits == {Break, Continue, Return_(<<>>), Tick(9)}
LoopOf(kind, ss) ==
    CASE kind = "while" -> While_(Ask, ss)
      [] kind = "range" -> Range_(Lit(2, U8), "i", ss)
      [] kind = "for" -> For(Id("xs", ArrayOf(2, U8)), "i", FALSE, ss)

LeavingLoops ==
    {Fun(<<>>, <<Let("xs", ArrayOf(2, U8), <<>>), Defer(Tick(1)),
                 LoopOf(kind, <<Defer(Tick(2)), If(Ask, <<a>>),
                                Body(<<Defer(Tick(3)), If(Ask, <<Defer(Tick(4)), b>>), Tick(5)>>), Tick(6)>>),
                 Tick(7)>>, Coins) : kind \in {"while", "range", "for"}, a \in Exits, b \in Exits}

\* A deferred statement with a loop, an exit and a defer of its own, left from inside a loop.
DeferredLoops ==
    {Fun(<<>>, <<LoopOf(kind, <<Defer(Range_(Lit(2, U8), "j", <<Defer(Tick(2)), If(Ask, <<a>>), Tick(3)>>)),
                                Defer(Tick(4)), If(Ask, <<b>>), Tick(5)>>), Tick(6)>>, Flips) :
       kind \in {"while", "range"}, a \in {Break, Continue}, b \in Exits}

NestedLoops ==
    {Fun(<<>>, <<LoopOf(k1, <<Defer(Tick(1)), LoopOf(k2, <<Defer(Tick(2)), If(Ask, <<a>>), Tick(3)>>),
                              If(Ask, <<b>>), Tick(4)>>)>>, Flips) :
       k1 \in {"while", "range"}, k2 \in {"while", "range"}, a \in Exits, b \in {Break, Continue}}

X == Id("x", U8)
Y == Id("y", U8)
N8 == Cast(Num, U8)

\* What is returned is settled before the deferred statements run.
ReturnedValues ==
    {Fun(<<U8>>, <<Var("x", N8), Defer(Do(Set("+", X, Lit(1, U8)))), Defer(TickX(X)),
                   If(Ask, <<Return_(<<v>>)>>), Do(Set("=", X, Lit(2, U8))), Return_(<<v>>)>>, Nums(3)) :
       v \in {X, Bin("*", X, X), Incr(TRUE, FALSE, X), Either(Ask, X, Lit(3, U8))}}

\* Values that go round a loop, some exchanged in parallel.
LoopValues ==
    {Fun(<<U8, U8>>, <<Var("x", N8), Var("y", Lit(1, U8)),
                       While_(Ask, <<Var("t", X)>> \o step), Return_(<<X, Y>>)>>, Nums(3)) :
       step \in {<<Do(Set("=", X, Y)), Do(Set("=", Y, Id("t", U8)))>>,
                 <<Do(Set("=", X, Y)), Do(Set("+", Y, Id("t", U8)))>>,
                 <<If(Ask, <<Do(Set("=", X, Y)), Continue>>), Do(Set("=", Y, Id("t", U8)))>>,
                 <<If(Ask, <<Do(Set("<<", Y, X)), Break>>), Do(CallOf(9, <<Addr(Y)>>))>>}}

Control == LeavingLoops \cup DeferredLoops \cup NestedLoops \cup ReturnedValues \cup LoopValues

(***************************************************************************)
(* Numbers: every operator at both signednesses, its operands computed,    *)
(* constant or mixed, and every width and sign change.                     *)
(***************************************************************************)
Operators == {"+", "-", "*", "/", "%", "&", "|", "^", "<<", ">>", "==", "!=", "<", "<=", ">", ">="}
Widths == {U8, I8, U32, I64}
Told(x) == IF x.ty = Bool THEN Do(CallOf(17, <<x>>)) ELSE Wide(Cast(x, I64))

ComputedAs(ops, types) ==
    {Fun(<<>>, <<Told(Bin(op, Cast(Num, ty), Cast(Num, ty)))>>, Nums(2)) : op \in ops, ty \in types}
\* Signed bytes are not ordered here: backend_wasm compares their zero-extended forms.
Unordered == Operators \ {"<", "<=", ">", ">="}
Computed == ComputedAs(Operators, Widths \ {I8}) \cup ComputedAs(Unordered, {I8})
Const(n, ty) == IF n < 0 THEN Un("-", Lit(-n, ty), ty) ELSE Lit(n, ty)
ConstantsAs(ops, types, ms, ns) ==
    {Fun(<<>>, [k \in 1 .. 3 |-> Told(Bin(op, Const(ms[k], ty), Const(n, ty)))], {<<>>}) :
       op \in ops, ty \in types, n \in ns}
\* The last of each is out of range for a byte: sema refuses it.
Constants_ == ConstantsAs(Operators, {U8, U32}, <<2, 9, 15>>, {1, 8, 15, 16})
              \cup ConstantsAs(Operators, {I64}, <<-6, 1, 7>>, {-1, 3, -8, -9})
              \cup ConstantsAs(Unordered, {I8}, <<-6, 1, 7>>, {-1, 3, -8, -9})
Identities ==
    {Fun(<<>>, <<Var("x", Cast(Num, ty)), Told(Bin(op, Id("x", ty), Const(n, ty))),
                 Told(Bin(op, Const(n, ty), Id("x", ty)))>>, Nums(1)) :
       op \in Operators, ty \in {U8, I32}, n \in {0, 1, 15, -1}}
Casts == {Fun(<<>>, <<Told(Cast(Cast(Cast(Num, a), b), c))>>, Nums(1)) :
            a \in {U8, I8, I64}, b \in {U8, I32, U32}, c \in {I64, U64, U8, I8}}
Updates ==
    {Fun(<<>>, <<Var("x", Cast(Num, ty)), Told(Set(op, Id("x", ty), Cast(Num, ty))), Told(Id("x", ty)),
                 Told(Incr(inc, prefix, Id("x", ty))), Told(Un("-", Id("x", ty), ty)),
                 Told(Un("~", Id("x", ty), ty))>>, Nums(2)) :
       op \in {"=", "+", "-", "*", "<<", ">>", "/"}, ty \in {I8, I32}, inc \in BOOLEAN, prefix \in BOOLEAN}
Shortcut ==
    {Fun(<<Bool>>, <<Var("b", Bin(o1, Ask, Bin(o2, Bin("<", Lit(0, U8), N8), Un("!", Ask, Bool)))),
                     If(Bin(o2, Id("b", Bool), Ask), <<Tick(1)>>), Return_(<<Id("b", Bool)>>)>>, Coins) :
       o1 \in {"&&", "||"}, o2 \in {"&&", "||"}}
Sets == {Fun(<<>>, <<Var("x", Cast(Cast(Num, U8), Flags)), Told(Cast(Bin(op, Id("x", Flags), Cast(Cast(Num, U8), Flags)), U8)),
                     Told(Bin("in", Cast(Cast(Num, U8), Flags), Id("x", Flags)))>>, [1 .. 3 -> {0, 5, 6, 15}]) :
           op \in {"+", "-"}}

Numbers == Computed \cup Constants_ \cup Identities \cup Casts \cup Updates \cup Shortcut \cup Sets

(***************************************************************************)
(* Memory: literals, defaults, places, pointers, slices, copies.           *)
(***************************************************************************)
A2 == ArrayOf(2, U8)
A3 == ArrayOf(3, U32)
PtX == Id("p", Pt)
BoxX == Id("b", Box)
ArrX == Id("a", A2)
SlX == Id("s", SliceOf(U8))
Show(x) == Do(CallOf(7, <<x>>))
N32 == Cast(Num, U32)
Pts == {Default(Pt), Braced(Pt, <<Item(1, N8)>>, <<>>), Braced(Pt, <<Item(2, N32), Item(1, N8)>>, <<>>),
        CallOf(11, <<>>), Either(Ask, Braced(Pt, <<Item(1, N8)>>, <<>>), CallOf(11, <<>>))}
Boxes == {Braced(Box, <<Item(2, p), Item(1, Ask), Item(3, a)>>, <<>>) :
            p \in Pts, a \in {Default(A2), Braced(A2, <<Item(1, N8)>>, <<>>),
                              Braced(A2, <<Item(1, N8)>>, <<N8>>), Braced(A2, <<>>, <<N8>>)}}
Literals == {Fun(<<Pt>>, <<Var("b", x), Show(BoxX), Return_(<<Field(BoxX, 2)>>)>>, Nums(4)) : x \in Boxes}

\* Each step changes one of two boxes; both are shown after it.
Steps == {<<Do(Set("=", Field(Field(BoxX, 2), 1), N8))>>,
          <<Do(Set("=", At_(Field(BoxX, 3), Bin("&", Cast(Num, Usize), Lit(1, Usize))), Lit(9, U8)))>>,
          <<Do(Set("=", At_(Field(BoxX, 3), Cast(Ask, Usize)), Incr(TRUE, FALSE, Field(Field(BoxX, 2), 1))))>>,
          <<Do(Set("=", Field(BoxX, 2), Field(Id("c", Box), 2)))>>,
          <<Do(Set("=", BoxX, Either(Ask, Id("c", Box), Default(Box))))>>,
          <<Do(CallOf(9, <<Addr(Field(Field(BoxX, 2), 1))>>))>>,
          <<Var("q", Addr(Field(BoxX, 2))), Do(Set("+", Field(Id("q", PtrTo(Pt)), 2), N32))>>,
          <<Var("q", Addr(BoxX)), Do(Set("=", Deref(Id("q", PtrTo(Box))), Id("c", Box)))>>,
          <<For(Field(BoxX, 3), "e", TRUE, <<Do(Set("=", Deref(Id("e", PtrTo(U8))), N8))>>)>>,
          <<Var("q", Addr(At_(Field(BoxX, 3), Lit(0, U8)))), Do(Incr(TRUE, TRUE, Id("q", PtrTo(U8)))),
            Do(Set("=", Deref(Id("q", PtrTo(U8))), Lit(5, U8)))>>}
Copies == {Fun(<<Box>>, <<Var("b", Default(Box)), Var("c", BoxX), Do(Set("=", Field(Id("c", Box), 1), Ask))>> \o s \o
                        <<Show(BoxX), Show(Id("c", Box)), Return_(<<BoxX>>)>>, Nums(3)) : s \in Steps}

List(x) == Do(CallOf(13, <<x>>))
Three == Braced(ArrayOf(3, U8), <<Item(1, N8), Item(2, Lit(2, U8)), Item(3, Lit(3, U8))>>, <<>>)
T3 == Id("t", ArrayOf(3, U8))
Low == Bin("&", Cast(Num, Usize), Lit(1, Usize))
Slices ==
    {Fun(<<>>, <<Var("t", Three), Let("s", SliceOf(U8), <<x>>), List(SlX), Wide(Cast(LenOf(SlX), I64)),
                 For(SlX, "e", FALSE, <<TickX(Id("e", U8))>>), Let("a", A2, <<SlX>>), List(ArrX), TickX(At_(SlX, Lit(0, U8)))>>,
         Nums(3)) :
       x \in {T3, Sub(T3, <<>>, <<>>), Sub(T3, <<Low>>, <<>>), Sub(T3, <<Low>>, <<Lit(2, Usize)>>),
              Sub(Sub(T3, <<Lit(1, Usize)>>, <<>>), <<>>, <<Lit(1, Usize)>>),
              SliceCast(Addr(At_(T3, Low)), 2), SliceCast(T3, 2), SliceCast(T3, 4)}}
Tails == {Fun(<<U8>>, <<Do(CallOf(8, <<N8>> \o xs)), Return_(<<CallOf(10, ys)>>)>>, Nums(3)) :
            xs \in {<<>>, <<N32>>, <<N32, Lit(4, U32)>>}, ys \in {<<N8>>, <<N8, N32>>}}
Sizes == {Fun(<<U64>>, <<Return_(<<Cast([e |-> "sizeof", of |-> ty, ty |-> Usize], U64)>>)>>, {<<>>}) :
            ty \in {Box, Pt, Packed, Sh, ErrE, ErrEF, A3, SliceOf(U8)}}

Memory == Literals \cup Copies \cup Slices \cup Tails \cup Sizes

(***************************************************************************)
(* Unions, errors and the forms that take them apart.                      *)
(***************************************************************************)
Draw(x) == Do(CallOf(15, <<x>>))
ShX == Id("u", Sh)
V == Id("v", U8)
Shapes == {CallOf(12, <<>>), Variant(1, <<>>), Variant(2, <<Item(1, N8)>>), Variant(3, <<Item(1, N8)>>),
           Variant(3, <<Item(2, N32), Item(1, N8)>>), Wrapped(2, N8), Wrapped(3, CallOf(11, <<>>)),
           Either(Ask, Variant(1, <<>>), CallOf(12, <<>>))}
TakeApart ==
    {[s |-> "switch", x |-> ShX,
      arms |-> <<Arm(<<2>>, <<"v">>, Body(<<TickX(V)>>)),
                 Arm(<<3>>, <<"v">>, Body(<<Do(Set("=", ShX, Variant(1, <<>>))), TickX(Field(Id("v", Pt), 1)),
                                            Draw(ShX)>>)),
                 Arm(<<>>, <<>>, Body(<<Tick(9)>>))>>],
     [s |-> "switch", x |-> ShX,
      arms |-> <<[Arm(<<3>>, <<"v">>, Body(<<Do(Set("=", Field(Id("v", PtrTo(Pt)), 1), Lit(3, U8))),
                                             TickX(Field(Id("v", PtrTo(Pt)), 1))>>)) EXCEPT !.ref = TRUE],
                 Arm(<<1>>, <<>>, Body(<<Return_(<<Lit(1, U8)>>)>>))>>],
     Do([e |-> "match", ty |-> Void, x |-> ShX,
         arms |-> <<Arm(<<2>>, <<"v">>, CallOf(1, <<V>>)), Arm(<<>>, <<>>, CallOf(1, <<Lit(9, U8)>>))>>]),
     TickX([e |-> "match", ty |-> U8, x |-> ShX,
            arms |-> <<Arm(<<1>>, <<>>, Lit(4, U8)), Arm(<<2>>, <<"v">>, Bin("+", V, V)),
                       Arm(<<3>>, <<"v">>, Field(Id("v", Pt), 1)), Arm(<<>>, <<>>, N8)>>])}
Unions == {Fun(<<U8>>, <<Var("u", x), Draw(ShX), t, Return_(<<Lit(7, U8)>>)>>, Nums(3)) :
             x \in Shapes, t \in TakeApart}
Enums ==
    {Fun(<<U8>>, <<LoopOf("while", <<Defer(Tick(1)),
                     Switch(CallOf(18, <<>>), <<Arm(<<0>>, <<>>, Body(<<Defer(Tick(2)), a>>)),
                                                Arm(<<2>>, <<>>, Body(<<Tick(3)>>))>> \o others), Tick(4)>>),
                   Return_(<<[e |-> "match", ty |-> U8, x |-> CallOf(18, <<>>),
                              arms |-> <<Arm(<<1>>, <<>>, Lit(5, U8)), Arm(<<>>, <<>>, N8)>>]>>)>>, [1 .. 4 -> 0 .. 2]) :
       a \in {Break, Continue, Return_(<<Lit(6, U8)>>), Tick(9)}, others \in {<<>>, <<Arm(<<>>, <<>>, Body(<<Break>>))>>}}

Err(ty) == Id("err", ty)
Group_(names, fn, mode) == [s |-> "group", names |-> names, call |-> CallOf(fn, <<>>), mode |-> mode]
Fails(x) == [s |-> "return_err", x |-> x]
Oks(xs) == [s |-> "return_ok", values |-> xs]
Failures ==
    {<<Do(Try(4))>>, <<TickX(Try(6))>>, <<Do(Dropping(4))>>, <<TickX(Dropping(6))>>, <<Fails(CallOf(18, <<>>))>>,
     <<Group_(<<"x", "_">>, 6, "all")>>, <<Var("x", Dropping(6))>>, <<Var("x", Try(6))>>,
     <<Var("err", CallOf(4, <<>>)), If(Err(ErrE), <<Fails(Err(ErrE))>>)>>,
     <<Var("err", CallOf(4, <<>>)),
       If(Err(ErrE), <<Switch(Err(ErrE), <<Arm(<<0>>, <<>>, Tick(1)), Arm(<<>>, <<>>, Tick(2))>>)>>)>>}
OpenF == Switch(Id("f", F), <<Arm(<<1>>, <<"g">>, TickX(Field(Id("g", Two), 1))), Arm(<<>>, <<>>, Tick(3))>>)
Sums ==
    {<<Group_(<<"x", "_">>, 16, mode)>> : mode \in {"drop", "try"}} \cup
    {<<Do(Try(5))>>, <<Do(Dropping(5))>>, <<Group_(<<"x", "y", "_">>, 16, "all")>>, <<Fails(VariantOf(F, 1, <<Item(1, N8), Item(2, N32)>>))>>,
     <<Var("err", CallOf(5, <<>>)), If(Err(ErrEF), <<Fails(Err(ErrEF))>>)>>,
     <<Var("err", CallOf(5, <<>>)),
       If(Un("!", Err(ErrEF), Bool), <<Tick(1)>>),
       If(Err(ErrEF), <<Switch(Err(ErrEF), <<Arm(<<1>>, <<"e">>, Wide(Cast(Id("e", E), I64))),
                                             Arm(<<2>>, <<"f">>, OpenF)>>)>>)>>}
Fallible(returns, values, failures) ==
    {Fun(returns, <<Var("x", Lit(2, U8)), Defer(Tick(8)),
                    If(Ask, <<Defer(Tick(9))>> \o f \o <<TickX(X)>>), Oks(values)>>, [1 .. 3 -> {0, 1, 2}]) :
       f \in failures}
Errors ==
    UNION {Fallible(returns, IF Len(returns) = 1 THEN <<>> ELSE <<X>>, Failures) :
             returns \in {<<ErrE>>, <<ErrEF>>, <<U8, ErrE>>, <<U8, ErrEF>>}}
    \cup UNION {Fallible(returns, IF Len(returns) = 1 THEN <<>> ELSE <<X>>, Sums) :
                  returns \in {<<ErrEF>>, <<ErrFE>>, <<U8, ErrEF>>, <<U8, ErrFE>>}}
Forwards ==
    {Fun(<<U8, ErrE>>, <<Defer(Tick(1)), Return_(<<CallOf(6, <<>>)>>)>>, [1 .. 3 -> {0, 1, 2}]),
     Fun(<<U8, U32, ErrF>>, <<Return_(<<CallOf(16, <<>>)>>)>>, [1 .. 4 -> {0, 1, 7}])}

\* The branch of a when is chosen at compile time.
Whens ==
    {Fun(<<U8>>, <<Var("x", N8),
                   [s |-> "when", sel |-> sel, then |-> <<Do(Set("=", X, e)), If(Ask, <<Return_(<<X>>)>>)>>,
                    else |-> other],
                   Return_(<<e>>)>>, Nums(3)) :
       sel \in BOOLEAN, other \in {<<>>, <<TickX(X)>>},
       e \in {[e |-> "when", sel |-> chosen, x |-> N8, y |-> Bin("+", X, Lit(1, U8)), ty |-> U8] : chosen \in BOOLEAN}}

Results == Unions \cup Enums \cup Errors \cup Forwards \cup Whens

(***************************************************************************)
(* Programs nobody checked yet, most of which sema must refuse.            *)
(***************************************************************************)
Fail == CallOf(4, <<>>)
TheErr == Err(ErrE)
NotErr == Un("!", TheErr, Bool)
Use == Switch(TheErr, <<Arm(<<0>>, <<>>, Tick(1)), Arm(<<>>, <<>>, Tick(2))>>)
Renew == Do(Set("=", TheErr, Fail))
Conditions == {TheErr, NotErr, Ask} \cup {Bin(op, x, Ask) : op \in {"&&", "||"}, x \in {TheErr, NotErr}}
              \cup {Bin("&&", TheErr, NotErr)}
Bare(c, s, others) == [s |-> "if", c |-> c, then |-> s, else |-> others]

\* What a branch does to an error, then a use of it: at once, or under another condition.
Branchings ==
    LET acts == {Use, Renew, Return_(<<>>), Tick(3)}
    IN  {If(c, <<a>>) : c \in Conditions, a \in acts}
        \cup {While_(c, <<a, b>>) : c \in Conditions, a \in {Use, Tick(3)}, b \in {Renew, Break, Return_(<<>>)}}
        \cup {IfElse(c, <<a>>, <<b>>) : c \in Conditions, a \in acts, b \in acts}
        \cup {Bare(c, a, <<b>>) : c \in Conditions, a \in acts \ {Use}, b \in acts \ {Use}}
        \cup {Bare(c, a, <<>>) : c \in {NotErr, Ask}, a \in acts}
Later == {Use, If(TheErr, <<Use>>), Bare(NotErr, Return_(<<>>), <<Use>>)}
Typestates == {Fun(<<>>, <<Var("err", Fail), s, u>>, Flips) : s \in Branchings, u \in Later}

\* A way out under three of: a loop, a deferred statement, a condition.
Around(s) == {While_(Ask, <<s>>), Range_(Lit(2, U8), "i", <<s>>), Defer(Body(<<s, Tick(4)>>)),
              If(Ask, <<s, Tick(5)>>)}
Around2(s) == UNION {Around(r) : r \in Around(s)}
Nests ==
    {Fun(<<>>, <<s, Tick(6)>>, Flips) :
       s \in UNION {Around(r) : r \in UNION {Around2(leaf) : leaf \in {Break, Continue, Return_(<<>>), Do(Try(4))}}}}
    \cup {Fun(<<ErrE>>, <<s, Oks(<<>>)>>, Flips) :
            s \in UNION {Around2(leaf) : leaf \in {Do(Try(4)), Fails(CallOf(18, <<>>)), Oks(<<>>)}}}

\* Every way to return against every signature.
Whole(returns) ==
    CASE returns = <<>> -> Return_(<<>>)
      [] returns = <<U8>> -> Return_(<<X>>)
      [] Len(returns) = 1 /\ returns # <<U8>> -> Oks(<<>>)
      [] OTHER -> Oks(<<X>>)
BareE == Lit(1, E)
BareF == VariantOf(F, 1, <<Item(1, N8), Item(2, N32)>>)
Empty(name, ty, form) == Let(name, ty, <<[e |-> form, ty |-> ty]>>)
Leavings ==
    {<<Return_(xs)>> : xs \in {<<>>, <<X>>, <<Fail>>, <<X, Fail>>, <<X, X>>, <<CallOf(6, <<>>)>>, <<CallOf(16, <<>>)>>,
                                <<BareE>>, <<X, BareE>>, <<X, BareF>>, <<X, Either(Ask, BareE, CallOf(18, <<>>))>>,
                                <<X, CallOf(18, <<>>)>>}}
    \cup {<<Empty("y", ty, form)>> : ty \in {Sh, ErrE, Box}, form \in {"default", "undefined"}}
    \cup {<<Oks(xs)>> : xs \in {<<>>, <<X>>, <<X, X>>}}
    \cup {<<Fails(x)>> : x \in {X, CallOf(18, <<>>), BareF}}
    \cup {<<Do(Try(n))>> : n \in {3, 4, 5, 6, 16}} \cup {<<Do(x)>> : x \in {Fail, Dropping(4), CallOf(6, <<>>), Id("z", U8)}}
    \cup {<<Group_(names, n, mode)>> : names \in {<<"y", "z">>, <<"y", "z", "_">>}, n \in {4, 6, 16}, mode \in {"all", "try"}}
    \cup {<<Group_(<<"y", "z">>, 16, "drop")>>}
    \cup {<<Body(<<Var("y", X)>>), TickX(Y)>>, <<Var("y", X), Body(<<Var("y", Lit(7, U8))>>), TickX(Y)>>}
Signatures == {<<>>, <<U8>>, <<ErrE>>, <<ErrEF>>, <<U8, ErrE>>, <<U8, ErrEF>>}
Returnings ==
    {Fun(returns, <<Var("x", Lit(2, U8)), If(Ask, s \o <<Whole(returns)>>), Whole(returns)>>, Flips) :
       returns \in Signatures, s \in Leavings}

\* Every list of two or three arms over a bool, an enum of three, a number.
ArmLists(count, Body_(_)) ==
    {[n \in 1 .. len |-> Arm(pats[n], <<>>, Body_(n))] :
       len \in 2 .. 3, pats \in [1 .. 3 -> {<<>>} \cup {<<n>> : n \in 0 .. count - 1}]}
Matched == {[x |-> Ask, count |-> 2], [x |-> CallOf(18, <<>>), count |-> 3], [x |-> N8, count |-> 2]}
Armed ==
    UNION {{Fun(<<U8>>, <<Return_(<<[e |-> "match", ty |-> U8, x |-> m.x, arms |-> arms]>>)>>, [1 .. 2 -> 0 .. 3]) :
              arms \in ArmLists(m.count, LAMBDA n : Lit(n, U8))} : m \in Matched}
    \cup UNION {{Fun(<<>>, <<Switch(m.x, arms)>>, [1 .. 2 -> 0 .. 3]) : arms \in ArmLists(m.count, LAMBDA n : Tick(n))} :
                m \in Matched}

Wild == Typestates \cup Nests \cup Returnings \cup Armed

\* An error known to have failed that a nested statement gives a new value.
Renewed ==
    {Fun(<<>>, <<Var("err", Fail), If(NotErr, <<Return_(<<>>)>>), s, Use>>, Flips) :
       s \in {Body(<<Renew>>), If(Ask, <<Renew>>), While_(Ask, <<Renew>>), Range_(Lit(1, U8), "i", <<Renew>>),
              Switch(Ask, <<Arm(<<1>>, <<>>, Body(<<Renew>>))>>)}}

MCPrograms == Control \cup Numbers \cup Memory \cup Results \cup Wild
=============================================================================
