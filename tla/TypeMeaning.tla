---------------------------- MODULE TypeMeaning -----------------------------
(***************************************************************************)
(* What the declared types of a program are, with no order of resolution:  *)
(* a type is a value, and its size follows from its parts.  The results of *)
(* TypeResolver are compared with it.                                      *)
(*                                                                         *)
(* A type value is a builtin, a pointer, slice, array or function type of  *)
(* values, a set of errors, or the type of a declaration: [k, d, arg],     *)
(* with the argument of a generic one.  Bad is no type.                    *)
(***************************************************************************)
EXTENDS TypeResolver

CONSTANT Depth           \* how many names a definition unfolds through

Bad == [k |-> "bad"]
NoArg == [k |-> "none"]
Of(kind, vs, n) == IF \E i \in DOMAIN vs : vs[i] = Bad THEN Bad
                   ELSE [k |-> kind, c |-> vs, n |-> n]
Decl(d, arg) == [k |-> "decl", d |-> d, arg |-> arg]
Inline(x, m, arg) == [k |-> "inline", x |-> x, m |-> m, arg |-> arg]

\* The declaration a path names from module m, <<>> when it names none that is visible.
RECURSIVE Names(_, _, _, _)
Names(p, m, path, abroad) ==
    IF Len(path) = 1
    THEN IF <<m, path[1]>> \in DOMAIN p.types /\ (abroad => p.types[<<m, path[1]>>].pub)
         THEN <<m, path[1]>> ELSE <<>>
    ELSE IF <<m, path[1]>> \in DOMAIN p.imports /\ (abroad => p.imports[<<m, path[1]>>].pub)
         THEN Names(p, p.imports[<<m, path[1]>>].to, Tail(path), TRUE) ELSE <<>>

\* An enum on i32, or a tagged union that is not itself an error type.
IsErrorMember(p, v) ==
    /\ v.k = "decl"
    /\ LET x == p.types[v.d].rhs
       IN \/ x.t = "enum" /\ (x.c = <<>> \/ x.c[1].path = <<"i32">>)
          \/ x.t = "union" /\ x.n = 1

RECURSIVE Denote(_, _, _, _, _)
Denote(p, x, m, arg, fuel) ==
    LET sub == [i \in DOMAIN x.c |-> Denote(p, x.c[i], m, arg, fuel)]
        d == Names(p, m, x.path, FALSE)
        a == IF x.c # <<>> THEN sub[1] ELSE arg
        decl == p.types[d]
        env == IF decl.generic THEN a ELSE NoArg
        errs == Range(sub)
    IN IF x.t = "builtin" THEN Of(x.path[1], <<>>, 0)
       ELSE IF x.t = "named"
       THEN IF Len(x.c) > 1 THEN Bad
            ELSE IF x.path = <<Param>> /\ arg # NoArg THEN arg
            ELSE IF d = <<>> \/ fuel = 0 THEN Bad
            ELSE IF decl.generic /\ a \in {NoArg, Bad} THEN Bad
            ELSE IF decl.rhs.t \in Aggregates THEN Decl(d, env)
            ELSE Denote(p, decl.rhs, d[1], env, fuel - 1)
       ELSE IF x.t = "error"
       THEN IF (\A v \in errs : IsErrorMember(p, v)) /\ Cardinality(errs) = Len(x.c)
            THEN [k |-> "errors", of |-> errs, optional |-> FALSE] ELSE Bad
       ELSE IF x.t = "optional"
       THEN IF sub[1].k = "errors" THEN [sub[1] EXCEPT !.optional = TRUE]
            ELSE IF IsErrorMember(p, sub[1]) THEN [k |-> "errors", of |-> {sub[1]}, optional |-> TRUE]
            ELSE Bad
       ELSE IF x.t \in Aggregates THEN Inline(x, m, arg)
       ELSE IF x.t = "function" THEN Of(IF x.path = <<>> THEN "function" ELSE "variadic", sub, x.n)
       ELSE IF x.t = "array" /\ x.path # <<>> THEN Bad
       ELSE Of(x.t, sub, x.n)

Body(p, v) == IF v.k = "inline" THEN v.x ELSE p.types[v.d].rhs
Home(v) == IF v.k = "inline" THEN v.m ELSE v.d[1]
\* The member types of an aggregate, in order; a variant may have none.
Members(p, v) == [i \in DOMAIN Body(p, v).c |->
                    IF Body(p, v).c[i].t = "nothing" THEN NoArg
                    ELSE Denote(p, Body(p, v).c[i], Home(v), v.arg, Depth)]

-----------------------------------------------------------------------------
(***************************************************************************)
(* Sizes: bytes and alignment, Infinite for a type that contains itself.   *)
(***************************************************************************)
Infinite == [bytes |-> 0 - 1, align |-> 1]
Sized(bytes, align) == [bytes |-> bytes, align |-> align]
Multiple(n, a) == CHOOSE k \in n..(n + a - 1) : k % a = 0

Offsets(zs, packed) ==
    LET At[i \in 0..Len(zs)] ==      \* where the member after the i-th may begin
            IF i = 0 THEN 0
            ELSE (IF packed THEN At[i - 1] ELSE Multiple(At[i - 1], zs[i].align)) + zs[i].bytes
    IN [i \in 1..Len(zs) |-> At[i] - zs[i].bytes]
Greatest(S) == IF S = {} THEN 0 ELSE Max(S)
AlignOf(zs) == Greatest({1} \cup {zs[i].align : i \in DOMAIN zs})
Laid(zs, packed) ==
    LET end == IF zs = <<>> THEN 0 ELSE Offsets(zs, packed)[Len(zs)] + zs[Len(zs)].bytes
    IN IF packed THEN Sized(end, 1) ELSE Sized(Multiple(end, AlignOf(zs)), AlignOf(zs))
Overlaid(zs) == Sized(Multiple(Greatest({zs[i].bytes : i \in DOMAIN zs}), AlignOf(zs)), AlignOf(zs))
\* A 32-bit tag, then room for the largest of the payloads.
WithTag(zs) == Laid(<<Sized(4, 4), Sized(Greatest({zs[i].bytes : i \in DOMAIN zs}), AlignOf(zs))>>, FALSE)

RECURSIVE SizeOf(_, _, _)
SizeOf(p, v, fuel) ==
    LET part(w) == IF w = NoArg THEN Sized(0, 1) ELSE SizeOf(p, w, fuel - 1)
        each(ws) == [i \in DOMAIN ws |-> part(ws[i])]
        mark(x) == IF x.c = <<>> THEN 4 ELSE primitive_size(x.c[1].path[1])
        body == Body(p, v)
        zs == each(Members(p, v))
        es == [i \in 1..Cardinality(v.of) |-> part(SetToSeq(v.of)[i])]
    IN IF fuel = 0 THEN Infinite
       ELSE CASE v.k \in {"pointer", "function", "variadic"} -> Sized(PointerBytes, PointerBytes)
              [] v.k = "slice" -> Sized(2 * PointerBytes, PointerBytes)
              [] v.k = "array" -> (LET z == part(v.c[1]) IN IF z = Infinite THEN z ELSE Sized(v.n * z.bytes, z.align))
              [] v.k = "errors" -> (IF Infinite \in Range(es) THEN Infinite
                                    ELSE IF Len(es) = 1 THEN WithTag(es) ELSE WithTag(<<WithTag(es)>>))
              [] v.k \in {"decl", "inline"} ->
                   (CASE body.t = "trait" -> Sized(2 * PointerBytes, PointerBytes)
                      [] body.t \in {"enum", "bitset"} -> Sized(mark(body), mark(body))
                      [] Infinite \in Range(zs) -> Infinite
                      [] body.t = "struct" -> Laid(zs, body.n = 1)
                      [] body.n = 1 -> WithTag(zs)
                      [] OTHER -> Overlaid(zs))
              [] OTHER -> Sized(primitive_size(v.k), Greatest({1, primitive_size(v.k)}))

-----------------------------------------------------------------------------
(***************************************************************************)
(* Which programs are in order.                                            *)
(***************************************************************************)
NamedType(path) == T("named", <<>>, path, 0)
ValueOf(p, d) == Denote(p, NamedType(<<d[2]>>), d[1], NoArg, Depth)
Plain(p) == {d \in DOMAIN p.types : ~p.types[d].generic}

\* The traits a trait composes, directly and through others.
RECURSIVE Components(_, _, _)
Components(p, v, fuel) ==
    LET x == Body(p, v)
        direct == {Members(p, v)[i] : i \in x.n + 1..Len(x.c)}
        down(w) == IF fuel = 0 \/ w.k # "decl" \/ Body(p, w).t # "trait" THEN {}
                   ELSE Components(p, w, fuel - 1)
    IN direct \cup UNION {down(w) : w \in direct}

\* The methods of a trait in the order of its table: its own, then those each composed
\* trait adds.
RECURSIVE Methods(_, _, _)
Methods(p, v, fuel) ==
    LET x == Body(p, v)
        ms == Members(p, v)
        of(w) == IF fuel = 0 \/ w.k # "decl" \/ Body(p, w).t # "trait" THEN <<>>
                 ELSE Methods(p, w, fuel - 1)
        add(acc, w) == acc \o SelectSeq(of(w), LAMBDA e : \A i \in DOMAIN acc : acc[i][1] # e[1])
    IN FoldLeft(add, [i \in 1..x.n |-> <<x.path[i], ms[i]>>], SubSeq(ms, x.n + 1, Len(ms)))
\* No method name has two signatures among a trait and the traits it composes.
Agree(p, v) ==
    LET traits == {w \in {v} \cup Components(p, v, Depth) : w.k = "decl" /\ Body(p, w).t = "trait"}
        own(w) == {<<Body(p, w).path[i], Members(p, w)[i]>> : i \in 1..Body(p, w).n}
    IN \A a, b \in UNION {own(w) : w \in traits} : a[1] = b[1] => a = b

\* The types one type is made from, whether it stores or only mentions them.
Below(p, v) ==
    CASE v.k \in {"decl", "inline"} ->
           ((Range(Members(p, v)) \ {NoArg})
            \cup (IF Body(p, v).t # "bitset" THEN {}
                  ELSE {Denote(p, NamedType(Body(p, v).path), Home(v), NoArg, Depth)}))
      [] v.k = "errors" -> v.of
      [] v.k \in {"bad", "none"} -> {}
      [] OTHER -> Range(v.c)
RECURSIVE Mentioned(_, _, _)
Mentioned(p, S, fuel) ==
    LET more == S \cup UNION {Below(p, v) : v \in S}
    IN IF fuel = 0 \/ more = S THEN S ELSE Mentioned(p, more, fuel - 1)

InOrder(p, v) ==
    /\ v # Bad
    /\ v.k = "array" => v.n * SizeOf(p, v.c[1], 2 * Depth).bytes <= MaxArrayBytes
    /\ v.k \in {"decl", "inline"} =>
         LET x == Body(p, v)
             ms == Members(p, v)
             member == Denote(p, NamedType(x.path), Home(v), NoArg, Depth)
             storage == IF x.c = <<>> THEN "u32" ELSE ms[1].k
             composed == {ms[i] : i \in x.n + 1..Len(x.c)}
         IN CASE x.t \in {"struct", "union"} -> SizeOf(p, v, 2 * Depth) # Infinite
              [] x.t = "enum" -> /\ \A i, j \in DOMAIN x.path : i # j => x.path[i].name # x.path[j].name
                                 /\ \A i \in DOMAIN x.path : x.path[i].init # "dynamic"
              [] x.t = "bitset" -> /\ member.k = "decl" /\ Body(p, member).t = "enum"
                                   /\ storage \in {"u8", "u16", "u32", "u64"}
                                   /\ LET fs == Body(p, member).path
                                      IN \A i \in DOMAIN fs :
                                           enum_value(fs, i) \in (0 - 1)..8 * primitive_size(storage) - 2
              [] OTHER -> /\ v.k = "decl"
                          /\ \A c \in composed : c.k = "decl" /\ Body(p, c).t = "trait"
                          /\ Cardinality(composed) = Len(x.c) - x.n
                          /\ v \notin Components(p, v, Depth)
                          /\ Agree(p, v)
\* Every name means a type, no type contains itself, and the forms' own rules are kept.
WellFormed(p) == \A v \in Mentioned(p, {ValueOf(p, d) : d \in Plain(p)}, Depth) : InOrder(p, v)

-----------------------------------------------------------------------------
Finished == program.mods = <<>> \/ sema.crashed
Accepted == Finished /\ sema.errs = {} /\ ~sema.crashed

\* The resolver accepts exactly the programs whose types exist and have a finite size,
\* in every order of the tables of modules and of symbols: the guards of ResolveState
\* report every type that contains itself, and nothing else.  It is claimed of types
\* that hold each other directly, in arrays and behind pointers; AcceptedInAnyOrder is
\* about the shapes for which the order decides.
AcceptedIffFinite == Finished => (Accepted <=> WellFormed(program))

\* A program whose types all exist and are finite is accepted whatever order the tables
\* are walked in, as resolve_type_impl means it to be (type_resolver.cpp:1871): layout does
\* not depend on symbol-table iteration order and no 'not yet a complete type' is reported
\* spuriously.
AcceptedInAnyOrder == Finished /\ WellFormed(program) => Accepted

\* Every accepted type has the size, the alignment and the offsets its members imply, and
\* a trait the components and the table of methods its composition implies: none was
\* computed from a member whose own layout was not finished.
LayoutsExact ==
    Accepted /\ WellFormed(program) =>
      \A d \in Plain(program) :
        LET h == sema.resolved[d]
            v == ValueOf(program, d)
            z == SizeOf(program, v, 2 * Depth)
            x == Body(program, v)
            ms == Members(program, v)
            zs == [i \in DOMAIN ms |-> SizeOf(program, ms[i], 2 * Depth)]
            names(seq) == [i \in DOMAIN seq |-> seq[i][1]]
        IN /\ resolved_type_size(sema, h) = z.bytes
           /\ Larger(1, resolved_type_align(sema, h)) = z.align
           /\ v.k = "decl" /\ x.t = "struct" => sema.infos[h.i].offsets = Offsets(zs, x.n = 1)
           /\ v.k = "decl" /\ x.t = "trait" =>
                /\ sema.infos[h.i].parts = {sema.resolved[c.d].i : c \in Components(program, v, Depth)}
                /\ names(sema.infos[h.i].fields) = names(Methods(program, v, Depth))

\* Two handles are equal exactly when they are of one type: an instance of a generic
\* type, an error union and an interned type are built once, however they are spelled,
\* as members and in the signatures of methods.
HandlesAreTypes ==
    Accepted /\ WellFormed(program) =>
      LET info(d) == sema.infos[sema.resolved[d].i].fields
          members(d) == {<<info(d)[i], Members(program, ValueOf(program, d))[i]>> : i \in DOMAIN info(d)}
          methods(d) == {<<info(d)[i][2], Methods(program, ValueOf(program, d), Depth)[i][2]>> : i \in DOMAIN info(d)}
          inside(d) == CASE program.types[d].rhs.t = "struct" -> members(d)
                         [] program.types[d].rhs.t = "trait" -> methods(d)
                         [] OTHER -> {}
          sites == {<<sema.resolved[d], ValueOf(program, d)>> : d \in Plain(program)}
                   \cup UNION {inside(d) : d \in Plain(program)}
      IN \A a, b \in sites : (a[1] = b[1]) = (a[2] = b[2])
=============================================================================
