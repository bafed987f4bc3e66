-------------------------- MODULE MC_TypeResolver ---------------------------
(***************************************************************************)
(* TypeResolver on small programs.                                         *)
(***************************************************************************)
EXTENDS TypeMeaning

B(b) == T("builtin", <<>>, <<b>>, 0)
N(n) == T("named", <<>>, <<n>>, 0)
Dot(a, n) == T("named", <<>>, <<a, n>>, 0)
App(n, x) == T("named", <<x>>, <<n>>, 0)
App2(n, x, y) == T("named", <<x, y>>, <<n>>, 0)
P(x) == T("pointer", <<x>>, <<>>, 0)
ArOf(n, x) == T("array", <<x>>, <<>>, n)
Ar(x) == ArOf(3, x)
ArQ(x) == T("array", <<x>>, <<"?">>, 0)
Sl(x) == T("slice", <<x>>, <<>>, 0)
Fn(xs, rs) == T("function", xs \o rs, <<>>, Len(xs))
FnV(xs) == T("function", xs, <<"...">>, Len(xs))
St(xs) == T("struct", xs, <<>>, 0)
Pk(xs) == T("struct", xs, <<>>, 1)
Un(xs) == T("union", xs, <<>>, 0)
Tg(xs) == T("union", xs, <<>>, 1)
None == T("nothing", <<>>, <<>>, 0)
Fd(name, init, k) == [name |-> name, init |-> init, k |-> k]
Fds(n) == [i \in 1..n |-> Fd(i, "none", 0)]
En(n) == T("enum", <<>>, Fds(n), 0)
EnOf(n, b) == T("enum", <<B(b)>>, Fds(n), 0)
EnF(fs) == T("enum", <<>>, fs, 0)
Bs(n, xs) == T("bitset", xs, <<n>>, 0)
\* Methods <<name, type>>, and the traits composed.
Tr(ms, cs) == T("trait", [i \in DOMAIN ms |-> ms[i][2]] \o cs, [i \in DOMAIN ms |-> ms[i][1]], Len(ms))
Er(xs) == T("error", xs, <<>>, 0)
Op(x) == T("optional", <<x>>, <<>>, 0)

Ty(x) == [rhs |-> x, pub |-> TRUE, generic |-> FALSE]
Own(x) == [rhs |-> x, pub |-> FALSE, generic |-> FALSE]
Gen(x) == [rhs |-> x, pub |-> TRUE, generic |-> TRUE]
NoImports == [x \in {} |-> x]
\* One module "m" that declares f.
Single(f) == [mods |-> {"m"}, types |-> [d \in {"m"} \X DOMAIN f |-> f[d[2]]], imports |-> NoImports]

Ns == {"A", "B", "C"}
Stored == {N(n) : n \in Ns} \cup {Ar(N(n)) : n \in Ns}
Aside == {P(N(n)) : n \in Ns} \cup {P(Ar(N(n))) : n \in Ns}
\* Structs and unions that hold each other, by value and by reference.
Holders ==
    {Single("A" :> Ty(a) @@ "B" :> Ty(b) @@ "C" :> Ty(c)) :
        a \in {St(<<B("u8"), x, B("u8")>>) : x \in Stored \cup Aside \cup {Sl(N("B")), Fn(<<N("A")>>, <<N("B")>>)}}
              \cup {Pk(<<B("u8"), x>>) : x \in Stored} \cup {Un(<<B("u16"), x>>) : x \in Stored}
              \cup {Tg(<<None, x, B("u16")>>) : x \in Stored \cup {P(N("A"))}},
        b \in {St(<<x>>) : x \in {N("C"), Ar(N("A")), P(N("A")), B("u16")}},
        c \in {St(<<B("u8"), x>>) : x \in {B("u64"), N("A"), P(N("B"))}} \cup {Un(<<B("u32"), B("u8")>>)}}
\* Arrays up to and past the largest size, of elements of some size and of none.
Arrays ==
    {Single("A" :> Ty(St(<<B("u8"), x, y>>)) @@ "C" :> Ty(c)) :
        x \in {ArOf(n, N("C")) : n \in {0, 62, 63, 125, 126, 1001}} \cup {ArQ(N("C"))},
        y \in {B("u8"), Ar(ArOf(41, B("u64"))), Ar(ArOf(42, B("u64"))), Ar(ArOf(0, N("C"))), P(ArOf(126, B("u64")))},
        c \in {St(<<B("u64")>>), St(<<B("u64"), B("u64")>>), St(<<>>)}}
\* Function types that differ in one thing only.
Signatures ==
    {Single("A" :> Ty(St(<<x, y>>)) @@ "B" :> Ty(St(<<x>>))) :
        x \in {Fn(<<N("A"), N("B")>>, <<>>), Fn(<<N("A")>>, <<N("B")>>)},
        y \in {Fn(<<>>, <<N("A"), N("B")>>), FnV(<<N("A"), N("B")>>), Fn(<<N("A"), N("B")>>, <<>>),
               Fn(<<N("B"), N("A")>>, <<>>), P(N("A")), Sl(N("A"))}}

\* Traits: values of two words, composition, composition that closes on itself.
Traits ==
    {Single("R" :> Ty(r) @@ "W" :> Ty(w) @@ "S" :> Ty(s) @@ "A" :> Ty(a)) :
        r \in {Tr(<<<<"a", P(N("A"))>>, <<"b", N("R")>>>>, <<>>), Tr(<<<<"a", B("u8")>>>>, <<N("S")>>),
               Tr(<<>>, <<N("R")>>)},
        w \in {Tr(<<<<"c", Fn(<<N("S")>>, <<>>)>>>>, <<>>), Tr(<<<<"b", P(N("S"))>>>>, <<N("R")>>),
               Tr(<<<<"a", P(N("A"))>>, <<"c", P(N("W"))>>>>, <<>>), Tr(<<>>, <<N("A")>>)},
        s \in {Tr(<<<<n, P(N("W"))>>>>, cs) : n \in {"c", "d"},
               cs \in {<<>>, <<N("W")>>, <<N("R"), N("W")>>, <<N("W"), N("R")>>, <<N("R"), N("R")>>}},
        a \in {St(<<B("u8"), x>>) : x \in {N("S"), P(N("R")), Ar(N("A"))}} \cup {Un(<<N("R"), B("u8")>>)}}

\* Enums, error types in several spellings, and bitsets.
Errors ==
    {Single("E" :> Ty(e) @@ "U" :> Ty(u) @@ "X" :> Ty(x) @@ "Y" :> Ty(y) @@ "A" :> Ty(St(<<B("u8")>> \o fs))) :
        e \in {En(7), EnOf(8, "u8")},
        u \in {Tg(<<None, B("u64")>>), Un(<<B("u64")>>)},
        x \in {Er(<<N("E"), N("U")>>), Er(<<N("E")>>), Op(N("E"))},
        y \in {Er(<<N("U"), N("E")>>), Op(N("X")), N("X"), Er(<<N("E"), N("E")>>)},
        fs \in {<<N("X"), N("Y")>>, <<Op(N("X")), P(Er(<<N("E")>>))>>, <<Op(Er(<<N("U"), N("E")>>)), N("Y")>>,
                <<Er(<<N("X")>>)>>}}
Bitsets ==
    {Single("E" :> Ty(e) @@ "F" :> Ty(Bs(m, st)) @@ "A" :> Ty(St(<<B("u8"), N("F"), B("u8")>>))) :
        e \in {En(7), En(8), En(32), EnF(<<Fd("a", "const", 0 - 1), Fd("b", "none", 0), Fd("c", "const", 6)>>),
               EnF(<<Fd("a", "iota", 5), Fd("b", "none", 0), Fd("c", "none", 0)>>),
               EnF(<<Fd("a", "iota", 5), Fd("b", "const", 0), Fd("c", "none", 0)>>),
               EnF(<<Fd("a", "const", 0 - 2)>>), EnF(<<Fd("a", "none", 0), Fd("a", "none", 0)>>),
               EnF(<<Fd("a", "dynamic", 0), Fd("b", "none", 0)>>)},
        m \in {"E", "A", "F", "Z"}, st \in {<<>>, <<B("u8")>>, <<B("u16")>>, <<B("bool")>>}}

\* Generic types: lists through pointers, by value, through an alias.
Generics ==
    {Single("G" :> Gen(g) @@ "H" :> Gen(h) @@ "A" :> Ty(a) @@ "D" :> Ty(d)) :
        g \in {St(<<P(App("G", N("T"))), B("u8")>>), St(<<N("T"), P(N("G"))>>), St(<<App("G", N("T"))>>),
               Tg(<<None, Ar(N("G"))>>), P(App("G", N("T"))), P(N("T"))},
        h \in {St(<<B("u8"), N("T")>>), Sl(App("G", N("T")))},
        a \in {St(<<App("G", x), P(App("H", x))>>) : x \in {B("u8"), P(N("A")), P(App("H", B("u8")))}},
        d \in {App("H", B("u8")), P(App("G", B("u8"))), N("G"), App2("H", B("u8"), B("u8")),
               St(<<App("H", App("H", B("u8")))>>)}}

\* Modules: x imports y, y imports z, each publicly or not; y may import x back.
Modules ==
    {[mods |-> {"x", "y", "z"},
      types |-> <<"x", "A">> :> Ty(St(<<B("u8"), a>>)) @@ <<"y", "B">> :> Ty(St(<<B("u8"), b>>))
                @@ <<"y", "P">> :> Own(St(<<>>)) @@ <<"z", "C">> :> Ty(c),
      imports |-> <<"x", "y">> :> [to |-> "y", pub |-> FALSE] @@ <<"y", "z">> :> [to |-> "z", pub |-> pub]
                  @@ <<"y", "x">> :> [to |-> "x", pub |-> FALSE]] :
        pub \in BOOLEAN,
        a \in {Dot("y", "B"), Ar(Dot("y", "B")), P(Dot("y", "P")), Dot("y", "Q"), Dot("z", "C"),
               T("named", <<>>, <<"y", "z", "C">>, 0), P(Dot("y", "B"))},
        b \in {Dot("z", "C"), N("P"), P(Dot("x", "Z"))},
        c \in {St(<<B("u64")>>), En(2), P(B("u8"))}}

MCPrograms == Holders \cup Arrays \cup Signatures \cup Traits \cup Errors \cup Bitsets \cup Generics \cup Modules

\* The shapes whose acceptance turns on the order: an alias of a struct stored by value,
\* an array behind a pointer in an inline struct, a generic type that stores its argument,
\* a trait whose method takes what stores the trait, modules that import each other.
Two == St(<<B("u64"), B("u64")>>)
OrderPrograms ==
    {Single("A" :> Ty(St(<<N("B")>>)) @@ "B" :> Ty(N("C")) @@ "C" :> Ty(Two)),
     Single("A" :> Ty(St(<<P(St(<<Ar(N("C"))>>))>>)) @@ "C" :> Ty(Two)),
     Single("A" :> Ty(St(<<App("G", N("C"))>>)) @@ "G" :> Gen(St(<<N("T")>>)) @@ "C" :> Ty(Two)),
     Single("R" :> Ty(Tr(<<<<"a", N("A")>>>>, <<>>)) @@ "A" :> Ty(St(<<N("R")>>))),
     [mods |-> {"x", "y"},
      types |-> <<"x", "A">> :> Ty(St(<<Dot("y", "B")>>)) @@ <<"x", "C">> :> Ty(Two)
                @@ <<"y", "B">> :> Ty(St(<<Dot("x", "C")>>)),
      imports |-> <<"x", "y">> :> [to |-> "y", pub |-> FALSE] @@ <<"y", "x">> :> [to |-> "x", pub |-> FALSE]]}
=============================================================================
