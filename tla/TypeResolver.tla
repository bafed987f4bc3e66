---------------------------- MODULE TypeResolver ----------------------------
(***************************************************************************)
(* Declared types and their layout: src/compiler/type_resolver.cpp, the    *)
(* declarations of sema_declare.cpp and the cycle guards of                *)
(* sema_resolve_state.hpp.                                                 *)
(*                                                                         *)
(* A program maps a module to the types it declares and the namespaces it  *)
(* imports.  check_program declares the modules, and forces the layout of  *)
(* their types, in the order of unordered maps: any order, the same one    *)
(* whenever a map is walked.                                               *)
(*                                                                         *)
(* A type expression is [t, c, path, n]: its form, its parts, its names,   *)
(* and a number.  n is an array's length, a function type's number of      *)
(* parameters (its results follow them), a trait's number of own methods   *)
(* (the traits it composes follow them), 1 for packed or tagged.  path is  *)
(* a dotted name, the fields of an enum, the names of a trait's methods,   *)
(* <<"?">> for an array without a length and <<"...">> for a variadic      *)
(* function type.  A generic declaration has one type parameter; it is     *)
(* only resolved in its instances, so no type is opaque here.              *)
(*                                                                         *)
(* A resolved type is a handle: "slot" i points into the table of          *)
(* aggregates, which a declaration reserves and layout fills in; the       *)
(* interned kinds are their contents.                                      *)
(***************************************************************************)
EXTENDS Integers, Sequences, FiniteSets, SequencesExt

CONSTANTS Programs,      \* the programs: [mods, types, imports]
          PointerBytes,  \* options.pointer_size
          MaxArrayBytes  \* numeric_limits<uint32_t>::max()

T(form, parts, path, n) == [t |-> form, c |-> parts, path |-> path, n |-> n]
Aggregates == {"struct", "union", "enum", "bitset", "trait"}

-----------------------------------------------------------------------------
(***************************************************************************)
(* Handles, and the resolver's state.                                      *)
(***************************************************************************)
Invalid == [k |-> "invalid"]
Unresolved == [k |-> "unresolved"]
Builtin(b) == [k |-> "builtin", b |-> b]
intern_pointer(h) == [k |-> "pointer", of |-> h]
intern_slice(h) == [k |-> "slice", of |-> h]
intern_array(h, n) == [k |-> "array", of |-> h, len |-> n]
intern_function_type(params, returns, variadic) ==
    [k |-> "function", params |-> params, returns |-> returns, variadic |-> variadic]
Slot(i) == [k |-> "slot", i |-> i]

\* StructInfo, UnionInfo, EnumInfo, BitsetInfo and TraitInfo before layout.
Info(kind) == [kind |-> kind, done |-> FALSE, size |-> 0, align |-> 1, fields |-> <<>>,
               offsets |-> <<>>, tagged |-> FALSE, under |-> "void", errors |-> {},
               is_error |-> FALSE, optional |-> FALSE, parts |-> {}]

\* 'modules' are in Program::modules, 'declared' in modules_declared, 'declaring' in
\* when_module_declaring; 'marks' the five sets of symbols being resolved; 'h' is what
\* the last call returned and 'target' where the last namespace walk led.
NewProgram(symbols) ==
    [modules |-> {}, declared |-> {}, declaring |-> {},
     resolved |-> [d \in symbols |-> Unresolved], infos |-> <<>>,
     marks |-> {}, generic |-> <<>>, instances |-> {}, error_unions |-> {}, composing |-> <<>>,
     errs |-> {}, crashed |-> FALSE, h |-> Invalid, target |-> <<>>]

Return(s, h) == [s EXCEPT !.h = h]
Report(s, why) == [s EXCEPT !.errs = @ \cup {why}]
error(s, why) == Return(Report(s, why), Invalid)
\* std::get of the wrong alternative: the exception ends the compiler.
Crash(s) == [s EXCEPT !.crashed = TRUE, !.h = Invalid]

IsSlot(s, h, kind) == h.k = "slot" /\ s.infos[h.i].kind = kind
NewSlot(s, kind) == LET t == [s EXCEPT !.infos = Append(@, Info(kind))]
                    IN Return(t, Slot(Len(t.infos)))

-----------------------------------------------------------------------------
(***************************************************************************)
(* Sizes.                                                                  *)
(***************************************************************************)
primitive_size(b) == CASE b \in {"u8", "bool"} -> 1 [] b = "u16" -> 2 [] b \in {"u32", "i32"} -> 4
                       [] b = "u64" -> 8 [] b = "anyptr" -> PointerBytes [] OTHER -> 0
Larger(a, b) == IF a > b THEN a ELSE b
RoundUp(n, a) == ((n + a - 1) \div a) * a

\* An array's size is computed anew from its element whenever it is asked for.
RECURSIVE resolved_type_size(_, _)
resolved_type_size(s, h) ==
    CASE h.k = "builtin" -> primitive_size(h.b)
      [] h.k \in {"pointer", "function"} -> PointerBytes
      [] h.k = "slice" -> 2 * PointerBytes
      [] h.k = "array" -> h.len * resolved_type_size(s, h.of)
      [] h.k = "slot" -> (LET i == s.infos[h.i]
                          IN CASE i.kind \in {"struct", "union"} -> i.size
                               [] i.kind \in {"enum", "bitset"} -> primitive_size(i.under)
                               [] OTHER -> 2 * PointerBytes)
      [] OTHER -> 0
RECURSIVE resolved_type_align(_, _)
resolved_type_align(s, h) ==
    CASE h.k = "builtin" -> primitive_size(h.b)
      [] h.k \in {"pointer", "function", "slice"} -> PointerBytes
      [] h.k = "array" -> resolved_type_align(s, h.of)
      [] h.k = "slot" -> (LET i == s.infos[h.i]
                          IN CASE i.kind \in {"struct", "union"} -> i.align
                               [] i.kind \in {"enum", "bitset"} -> primitive_size(i.under)
                               [] OTHER -> PointerBytes)
      [] OTHER -> 0

TAG_BYTES == 4
MutTaggedLayout(size, align) ==
    LET a == Larger(TAG_BYTES, align) IN [size |-> RoundUp(TAG_BYTES + size, a), align |-> align]
\* [tag | padding | payload], the payload as large and as aligned as the largest.
compute_tagged_union_layout(size, align) ==
    LET a == Larger(TAG_BYTES, align)
    IN [size |-> RoundUp(RoundUp(TAG_BYTES, align) + size, a), align |-> a]

\* A struct or union that is still being laid out, directly or in an array.
RECURSIVE incomplete_aggregate(_, _)
incomplete_aggregate(s, h) ==
    CASE h.k = "array" -> incomplete_aggregate(s, h.of)
      [] h.k = "slot" -> s.infos[h.i].kind \in {"struct", "union"} /\ ~s.infos[h.i].done
      [] OTHER -> FALSE
MutRejectMember(s) ==
    IF s.h.k = "slot" /\ incomplete_aggregate(s, s.h) THEN error(s, "incomplete") ELSE s
\* A member stored by value must be complete.
reject_incomplete_member(s) == IF incomplete_aggregate(s, s.h) THEN error(s, "incomplete") ELSE s

-----------------------------------------------------------------------------
(***************************************************************************)
(* Names.  'ctx' is what the Resolver object carries: the binding of the   *)
(* generic parameter in whose instance it works, if any, and whether it is *)
(* under a pointer, a slice or a function type.                            *)
(***************************************************************************)
CONSTANT Param           \* the name of a generic declaration's parameter
Outside == [binding |-> Unresolved, indirect |-> FALSE]
Bound(ctx, x) == x.t = "named" /\ x.path = <<Param>> /\ x.c = <<>> /\ ctx.binding # Unresolved

\* The resolver, by what is asked of it; what the functions below call of each other
\* goes through here.
RECURSIVE Resolve(_, _, _, _, _, _)
resolve_type_impl(s, p, m, x, ctx) == Resolve(s, p, "type", m, x, ctx)
resolve_field_type(s, p, m, x, ctx) == Resolve(s, p, "field", m, x, ctx)
resolve_final_full(s, p, target) == Resolve(s, p, "full", target[1], target, Outside)
resolve_final_shallow(s, p, target) == Resolve(s, p, "shallow", target[1], target, Outside)
ensure_module_declared(s, p, m) == Resolve(s, p, "declare", m, <<>>, Outside)

\* A module that is not in the table yet is declared on demand.
OnDemand(s, p, m) == IF m \in s.modules THEN s ELSE ensure_module_declared(s, p, m)

\* Where a dotted name leads: target <<module, name, crossed>>, or none.
RECURSIVE WalkOn(_, _, _, _, _)
WalkOn(s, p, m, path, crossed) ==
    LET d == OnDemand(s, p, m)
        ns == <<m, Head(path)>>
    IN IF Len(path) = 1 THEN [s EXCEPT !.target = <<m, path[1], crossed>>]
       ELSE IF ns \notin DOMAIN p.imports THEN [error(d, "namespace") EXCEPT !.target = <<>>]
       ELSE IF crossed /\ ~p.imports[ns].pub THEN [error(d, "pub") EXCEPT !.target = <<>>]
       ELSE WalkOn(d, p, p.imports[ns].to, Tail(path), TRUE)
walk_namespace_chain(s, p, m, x) == WalkOn(s, p, m, x.path, FALSE)

IsGeneric(p, target) == <<target[1], target[2]>> \in DOMAIN p.types
                        /\ p.types[<<target[1], target[2]>>].generic

\* The slot an aggregate will fill, published before its contents are resolved.
preallocate_aggregate(s, x) == IF x.t \in Aggregates \ {"trait"} THEN NewSlot(s, x.t)
                               ELSE Return(s, Unresolved)

Layout(s, p, m, x, ctx, i) == Resolve([s EXCEPT !.h = Slot(i)], p, "layout", m, x, ctx)

\* An instance: the one there is, the one in progress, or a new one.
instantiate_generic_type(s, p, d, arg) ==
    LET key == <<d, arg>>
        known == {e \in s.instances : e[1] = key}
        open == SelectSeq(s.generic, LAMBDA e : e.key = key)
        x == p.types[d].rhs
        ctx == [binding |-> arg, indirect |-> FALSE]
        a == preallocate_aggregate(s, x)
        b == [a EXCEPT !.generic = Append(@, [key |-> key, slot |-> a.h])]
        r == IF a.h = Unresolved THEN resolve_type_impl(b, p, d[1], x, ctx)
             ELSE Return(Layout(b, p, d[1], x, ctx, a.h.i), a.h)
    IN IF known # {} THEN Return(s, (CHOOSE e \in known : TRUE)[2])
       ELSE IF open # <<>> THEN IF open[1].slot # Unresolved THEN Return(s, open[1].slot)
                                ELSE error(s, "instance_cycle")
       ELSE [r EXCEPT !.generic = s.generic, !.instances = @ \cup {<<key, r.h>>}]

\* 'List[T]', or 'List' alone inside a generic declaration's instance.
resolve_generic_named_type(s, p, m, x, ctx, target) ==
    LET a == resolve_type_impl(s, p, m, x.c[1], ctx)
        d == <<target[1], target[2]>>
    IN IF Len(x.c) > 1 THEN error(s, "generic_arity")
       ELSE IF x.c # <<>> THEN instantiate_generic_type(a, p, d, a.h)
       ELSE IF ctx.binding # Unresolved THEN instantiate_generic_type(s, p, d, ctx.binding)
       ELSE error(s, "generic_arguments")

resolve_named_type_shallow(s, p, m, x, ctx) ==
    LET w == walk_namespace_chain(s, p, m, x)
        d == OnDemand(w, p, w.target[1])
    IN IF Bound(ctx, x) THEN Return(s, ctx.binding)
       ELSE IF w.target = <<>> THEN Return(w, Invalid)
       ELSE IF IsGeneric(p, w.target) THEN resolve_generic_named_type(d, p, m, x, ctx, w.target)
       ELSE resolve_final_shallow(d, p, w.target)

\* A member's type, laid out where that is possible.
FieldType(s, p, m, x, ctx) ==
    LET w == walk_namespace_chain(s, p, m, x)
        d == OnDemand(w, p, w.target[1])
    IN IF x.t # "named" \/ x.c # <<>> THEN resolve_type_impl(s, p, m, x, ctx)
       ELSE IF Bound(ctx, x) THEN Return(s, ctx.binding)
       ELSE IF w.target = <<>> THEN Return(w, Invalid)
       ELSE IF IsGeneric(p, w.target) THEN resolve_type_impl(d, p, m, x, ctx)
       ELSE resolve_final_full(d, p, w.target)

\* What both lookups by name begin with.
Lookup(s, p, target) ==
    LET d == <<target[1], target[2]>>
    IN IF d \notin DOMAIN p.types THEN error(s, "unknown")
       ELSE IF target[3] /\ ~p.types[d].pub THEN error(s, "pub")
       ELSE Return(s, s.resolved[d])

Marked(s, p, kind, d, x, i) ==
    LET r == Layout([s EXCEPT !.marks = @ \cup {<<kind, d>>}], p, d[1], x, Outside, i)
    IN [r EXCEPT !.marks = s.marks, !.h = Slot(i)]

FinalShallow(s, p, target) ==
    LET d == <<target[1], target[2]>>
        l == Lookup(OnDemand(s, p, target[1]), p, target)
        r == resolve_type_impl([l EXCEPT !.marks = @ \cup {<<"alias", d>>}], p, d[1],
                               p.types[d].rhs, Outside)
    IN IF l.h # Unresolved THEN l
       ELSE IF p.types[d].generic THEN error(l, "generic_arguments")
       ELSE IF <<"alias", d>> \in l.marks THEN error(l, "alias_cycle")
       ELSE [r EXCEPT !.resolved[d] = r.h, !.marks = l.marks]

\* The handle, laid out.  An alias has its aggregate's handle once it is resolved, and
\* a declaration that is not of the aggregate's form.
FinalFull(s, p, target) ==
    LET d == <<target[1], target[2]>>
        l == Lookup(OnDemand(s, p, target[1]), p, target)
        i == l.infos[l.h.i]
        x == p.types[d].rhs
        mark == <<i.kind, d>>
    IN IF l.h.k # "slot" THEN resolve_final_shallow(l, p, target)
       ELSE IF i.done THEN l
       ELSE IF mark \in l.marks THEN IF i.kind = "trait" THEN l ELSE error(l, "cycle")
       ELSE IF x.t # i.kind THEN Crash(l)
       ELSE Marked(l, p, i.kind, d, x, l.h.i)

-----------------------------------------------------------------------------
(***************************************************************************)
(* Layout.  The slot to fill is s.h; the finished record replaces it as    *)
(* the last thing a layout does.                                           *)
(***************************************************************************)
Fill(s, i, info) == [s EXCEPT !.infos[i] = [info EXCEPT !.done = TRUE]]

RECURSIVE StructFields(_, _, _, _, _, _, _)
StructFields(s, p, m, xs, ctx, packed, info) ==
    LET f == reject_incomplete_member(resolve_field_type(s, p, m, Head(xs), ctx))
        a == IF packed THEN 1 ELSE resolved_type_align(f, f.h)
        o == IF packed \/ a = 0 THEN info.size ELSE RoundUp(info.size, a)
    IN IF xs = <<>> THEN [s EXCEPT !.h = [info EXCEPT !.size = IF packed THEN @ ELSE RoundUp(@, info.align)]]
       ELSE StructFields(f, p, m, Tail(xs), ctx, packed,
                         [info EXCEPT !.fields = Append(@, f.h), !.offsets = Append(@, o),
                                      !.size = o + resolved_type_size(f, f.h),
                                      !.align = Larger(@, a)])
layout_struct(s, p, m, x, ctx) ==
    LET r == StructFields(s, p, m, x.c, ctx, x.n = 1, Info("struct")) IN Fill(r, s.h.i, r.h)

\* The payload convention: a struct as it is, anything else as the only field of one.
wrap_payload_in_struct(s, h) ==
    LET n == NewSlot(s, "struct")
    IN IF IsSlot(s, h, "struct") THEN Return(s, h)
       ELSE Fill(n, n.h.i, [Info("struct") EXCEPT !.fields = <<h>>, !.offsets = <<0>>,
                                !.size = resolved_type_size(s, h), !.align = resolved_type_align(s, h)])

\* Members lie over each other.  A variant's payload is laid out as a struct.
Over(info, s, h) == [info EXCEPT !.fields = Append(@, h),
                                 !.size = Larger(@, resolved_type_size(s, h)),
                                 !.align = Larger(@, resolved_type_align(s, h))]
RECURSIVE UnionMembers(_, _, _, _, _, _)
UnionMembers(s, p, m, xs, ctx, info) ==
    LET f == reject_incomplete_member(resolve_field_type(s, p, m, Head(xs), ctx))
        w == IF info.tagged THEN wrap_payload_in_struct(f, f.h) ELSE f
        z == compute_tagged_union_layout(info.size, info.align)
    IN IF xs = <<>>
       THEN [s EXCEPT !.h = IF info.tagged THEN [info EXCEPT !.size = z.size, !.align = z.align]
                            ELSE [info EXCEPT !.size = RoundUp(@, info.align)]]
       ELSE IF Head(xs).t = "nothing"
       THEN UnionMembers(s, p, m, Tail(xs), ctx, [info EXCEPT !.fields = Append(@, Unresolved)])
       ELSE UnionMembers(w, p, m, Tail(xs), ctx, Over(info, w, w.h))
layout_union(s, p, m, x, ctx) ==
    LET r == UnionMembers(s, p, m, x.c, ctx, [Info("union") EXCEPT !.tagged = x.n = 1])
    IN Fill(r, s.h.i, r.h)

\* The i-th field of an enum, counted from iota = 0: its own initializer's value, else
\* that of the last initializer before it if that one is in terms of iota, else iota.
enum_value(fields, i) ==
    LET j == Max({0} \cup {k \in 1..i : fields[k].init # "none"})
    IN IF j > 0 /\ fields[j].init = "iota" THEN fields[j].k + (i - 1)
       ELSE IF j = i /\ fields[j].init = "const" THEN fields[j].k
       ELSE i - 1
\* On i32 unless it says otherwise.
layout_enum(s, p, m, x, ctx) ==
    LET u == IF x.c = <<>> THEN Return(s, Builtin("i32")) ELSE resolve_type_impl(s, p, m, x.c[1], ctx)
        dynamic == \E i \in DOMAIN x.path : x.path[i].init = "dynamic"
        twice == \E i, j \in DOMAIN x.path : i # j /\ x.path[i].name = x.path[j].name
        v == IF dynamic THEN Report(u, "enum_constant") ELSE u
    IN Fill(IF twice THEN Report(v, "enum_duplicate") ELSE v, s.h.i,
            [Info("enum") EXCEPT !.under = IF u.h.k = "builtin" THEN u.h.b ELSE "void",
                                 !.fields = [i \in DOMAIN x.path |-> enum_value(x.path, i)]])

\* The bit of a variant is its value plus one, and must lie within the storage.
layout_bitset(s, p, m, x, ctx) ==
    LET w == walk_namespace_chain(s, p, m, x)
        e == resolve_final_full(w, p, w.target)
        u == IF x.c = <<>> THEN Return(e, Builtin("u32")) ELSE resolve_type_impl(e, p, m, x.c[1], ctx)
        ok == u.h.k = "builtin" /\ u.h.b \in {"u8", "u16", "u32", "u64"}
        under == IF ok THEN u.h.b ELSE "u32"
        r == IF ok THEN u ELSE Report(u, "storage")
        values == e.infos[e.h.i].fields
        q == IF \A i \in DOMAIN values : values[i] + 1 \in 0..8 * primitive_size(under) - 1 THEN r
             ELSE Report(r, "bits")
    IN IF w.target = <<>> THEN Fill(w, s.h.i, Info("bitset"))
       ELSE IF ~IsSlot(e, e.h, "enum") THEN Fill(Report(e, "member_enum"), s.h.i, Info("bitset"))
       ELSE Fill(q, s.h.i, [Info("bitset") EXCEPT !.under = under, !.fields = <<e.h>>])

\* A trait's own methods, then the traits it composes: their methods are merged in by
\* name, and their components become its own.  A method is <<name, signature>>, the
\* signature as one type.
RECURSIVE OwnMethods(_, _, _, _, _, _, _)
OwnMethods(s, p, m, names, xs, ctx, acc) ==
    LET f == resolve_field_type(s, p, m, Head(xs), ctx)
    IN IF xs = <<>> THEN Return(s, acc)
       ELSE OwnMethods(f, p, m, Tail(names), Tail(xs), ctx, Append(acc, <<Head(names), f.h>>))
\* A method of the same name and signature is one method; another signature is an error.
RECURSIVE MergeMethods(_, _, _)
MergeMethods(s, methods, more) ==
    LET new == Head(more)
        existing == SelectSeq(methods, LAMBDA e : e[1] = new[1])
    IN IF more = <<>> THEN Return(s, methods)
       ELSE IF existing = <<>> THEN MergeMethods(s, Append(methods, new), Tail(more))
       ELSE MergeMethods(IF existing[1][2] = new[2] THEN s ELSE Report(s, "signatures"),
                         methods, Tail(more))
RECURSIVE Compose(_, _, _, _, _)
Compose(s, p, m, xs, info) ==
    LET w == walk_namespace_chain(s, p, m, Head(xs))
        r == resolve_final_full(w, p, w.target)
        c == r.infos[r.h.i]
        merged == MergeMethods(r, info.fields, c.fields)
    IN IF xs = <<>> THEN Return(s, info)
       ELSE IF w.target = <<>> THEN Compose(w, p, m, Tail(xs), info)
       ELSE IF r.h = Invalid THEN Compose(r, p, m, Tail(xs), info)
       ELSE IF ~IsSlot(r, r.h, "trait") THEN Compose(Report(r, "not_a_trait"), p, m, Tail(xs), info)
       ELSE IF \E i \in DOMAIN s.composing : s.composing[i] = r.h.i
       THEN Compose(Report(r, "composition_cycle"), p, m, Tail(xs), info)
       ELSE IF r.h.i \in info.errors THEN Compose(Report(r, "composed_twice"), p, m, Tail(xs), info)
       ELSE Compose(merged, p, m, Tail(xs),
                    [info EXCEPT !.errors = @ \cup {r.h.i}, !.fields = merged.h,
                                 !.parts = @ \cup c.parts \cup {r.h.i}])
layout_trait(s, p, m, x, ctx) ==
    LET i == s.h.i
        t == OwnMethods(s, p, m, x.path, SubSeq(x.c, 1, x.n), ctx, <<>>)
        r == Compose([t EXCEPT !.composing = Append(@, i)], p, m, SubSeq(x.c, x.n + 1, Len(x.c)),
                     [Info("trait") EXCEPT !.fields = t.h])
    IN Fill([r EXCEPT !.composing = s.composing], i, [r.h EXCEPT !.errors = {}])

-----------------------------------------------------------------------------
(***************************************************************************)
(* Error unions.  They are interned by the set of their members and '?'.   *)
(***************************************************************************)
is_valid_error_member(s, h) ==
    \/ IsSlot(s, h, "enum") /\ s.infos[h.i].under = "i32"
    \/ IsSlot(s, h, "union") /\ s.infos[h.i].tagged /\ ~s.infos[h.i].is_error

Tagged(s, hs, members, optional) ==
    LET RECURSIVE Payloads(_, _, _)
        Payloads(t, rest, info) ==
            LET w == wrap_payload_in_struct(t, Head(rest))
            IN IF rest = <<>> THEN Return(t, info)
               ELSE Payloads(w, Tail(rest), Over(info, w, w.h))
        r == Payloads(s, hs, Info("union"))
        z == compute_tagged_union_layout(r.h.size, r.h.align)
    IN [r EXCEPT !.h = [@ EXCEPT !.tagged = TRUE, !.is_error = TRUE, !.errors = members,
                                 !.optional = optional, !.size = z.size, !.align = z.align]]
\* Ok, and Failed with the member itself or, for several, an inner union of them.
synthesize_error_union(s, members, optional) ==
    LET list == SetToSeq(members)
        n == NewSlot(s, "union")
        t == Tagged(n, list, members, FALSE)
        inner == Return(Fill(t, n.h.i, t.h), n.h)
        from == IF Len(list) = 1 THEN Return(s, list[1]) ELSE inner
    IN Tagged(from, <<from.h>>, members, optional)

MutInternErrorUnion(s, members, optional) ==
    LET n == NewSlot(s, "union")
        r == synthesize_error_union(n, Range(members), optional)
        q == IF Cardinality(Range(members)) < Len(members) THEN Report(r, "members_distinct") ELSE r
    IN Return(Fill(q, n.h.i, r.h), n.h)
intern_error_union(s, members, optional) ==
    LET key == <<Range(members), optional>>
        d == IF Cardinality(Range(members)) < Len(members) THEN Report(s, "members_distinct") ELSE s
        known == {e \in s.error_unions : e[1] = key}
        n == NewSlot(d, "union")
        r == synthesize_error_union(n, Range(members), optional)
    IN IF known # {} THEN Return(d, (CHOOSE e \in known : TRUE)[2])
       ELSE [Fill(r, n.h.i, r.h) EXCEPT !.h = n.h, !.error_unions = @ \cup {<<key, n.h>>}]

RECURSIVE ErrorMembers(_, _, _, _, _)
ErrorMembers(s, p, m, xs, acc) ==
    LET w == walk_namespace_chain(s, p, m, Head(xs))
        f == resolve_final_full(w, p, w.target)
        r == IF is_valid_error_member(f, f.h) THEN f ELSE Report(f, "error_member")
    IN IF xs = <<>> THEN Return(s, acc)
       ELSE IF w.target = <<>> THEN ErrorMembers(w, p, m, Tail(xs), Append(acc, Invalid))
       ELSE ErrorMembers(r, p, m, Tail(xs), Append(acc, f.h))
resolve_error_type(s, p, m, x) ==
    LET r == ErrorMembers(s, p, m, x.c, <<>>) IN intern_error_union(r, r.h, FALSE)

\* '?E' for an error type, an alias of one, or a single member.
resolve_optional_error_type(s, p, m, x, ctx) ==
    LET y == x.c[1]
        w == walk_namespace_chain(s, p, m, y)
        i == IF y.t # "named" THEN resolve_type_impl(s, p, m, y, ctx)
             ELSE IF w.target = <<>> THEN Return(w, Invalid)
             ELSE resolve_final_full(w, p, w.target)
        u == i.infos[i.h.i]
    IN IF i.h = Invalid THEN i
       ELSE IF IsSlot(i, i.h, "union") /\ u.is_error
       THEN IF u.optional THEN i ELSE intern_error_union(i, SetToSeq(u.errors), TRUE)
       ELSE IF ~is_valid_error_member(i, i.h) THEN error(i, "optional")
       ELSE intern_error_union(i, <<i.h>>, TRUE)

-----------------------------------------------------------------------------
RECURSIVE TypeList(_, _, _, _, _, _)
TypeList(s, p, m, xs, ctx, acc) ==
    LET f == resolve_type_impl(s, p, m, Head(xs), ctx)
    IN IF xs = <<>> THEN Return(s, acc) ELSE TypeList(f, p, m, Tail(xs), ctx, Append(acc, f.h))

\* An array type: its element is laid out first, unless the array is only pointed at.
ArrayType(s, p, m, x, ctx) ==
    LET el == IF ctx.indirect THEN resolve_type_impl(s, p, m, x.c[1], ctx)
                              ELSE resolve_field_type(s, p, m, x.c[1], ctx)
        size == resolved_type_size(el, el.h)
    IN IF x.path = <<"?">> THEN error(s, "array_length")
       ELSE IF size > 0 /\ x.n > MaxArrayBytes \div size THEN error(el, "array_too_large")
       ELSE Return(el, intern_array(el.h, x.n))

TypeExpr(s, p, m, x, ctx) ==
    LET under == [ctx EXCEPT !.indirect = TRUE]
        ind == resolve_type_impl(s, p, m, x.c[1], under)
        sig == TypeList(s, p, m, x.c, under, <<>>)
        new == NewSlot(s, x.t)
    IN CASE x.t = "builtin" -> Return(s, Builtin(x.path[1]))
         [] x.t = "named" -> resolve_named_type_shallow(s, p, m, x, ctx)
         [] x.t = "pointer" -> Return(ind, intern_pointer(ind.h))
         [] x.t = "slice" -> Return(ind, intern_slice(ind.h))
         [] x.t = "array" -> ArrayType(s, p, m, x, ctx)
         [] x.t = "function" -> Return(sig, intern_function_type(SubSeq(sig.h, 1, x.n),
                                                SubSeq(sig.h, x.n + 1, Len(sig.h)), x.path # <<>>))
         [] x.t = "error" -> resolve_error_type(s, p, m, x)
         [] x.t = "optional" -> resolve_optional_error_type(s, p, m, x, ctx)
         [] x.t = "trait" -> error(s, "anonymous_trait")
         [] OTHER -> Return(Layout(new, p, m, x, ctx, new.h.i), new.h)

LayoutOf(s, p, m, x, ctx) ==
    CASE x.t = "struct" -> layout_struct(s, p, m, x, ctx)
      [] x.t = "union" -> layout_union(s, p, m, x, ctx)
      [] x.t = "enum" -> layout_enum(s, p, m, x, ctx)
      [] x.t = "bitset" -> layout_bitset(s, p, m, x, ctx)
      [] OTHER -> layout_trait(s, p, m, x, ctx)

\* declare_type: an aggregate's slot is reserved with its name.
RECURSIVE DeclareTypes(_, _, _)
DeclareTypes(s, p, ds) ==
    LET x == p.types[Head(ds)]
        n == NewSlot(s, x.rhs.t)
    IN IF ds = <<>> THEN s
       ELSE DeclareTypes(IF x.generic \/ x.rhs.t \notin Aggregates THEN s
                         ELSE [n EXCEPT !.resolved[Head(ds)] = n.h], p, Tail(ds))
SymbolsOf(p, m) == SelectSeq(p.order, LAMBDA d : d[1] = m)
build_symbol_table_for_module(s, p, m) ==
    DeclareTypes([s EXCEPT !.modules = @ \cup {m}, !.declaring = @ \cup {m}], p, SymbolsOf(p, m))
\* The layout of one declared type, in the walk over a module's symbols.
ForceLayout(s, p, d) == IF p.types[d].generic THEN s ELSE resolve_final_full(s, p, <<d[1], d[2], FALSE>>)
RECURSIVE ForceAll(_, _, _)
ForceAll(s, p, ds) == IF ds = <<>> THEN s ELSE ForceAll(ForceLayout(s, p, Head(ds)), p, Tail(ds))
ModuleDone(s, m) == [s EXCEPT !.declaring = @ \ {m}, !.declared = @ \cup {m}]
DeclareModule(s, p, m) ==
    IF m \in s.declared THEN s
    ELSE IF m \in s.declaring THEN Report(s, "module_cycle")
    ELSE ModuleDone(ForceAll(build_symbol_table_for_module(s, p, m), p, SymbolsOf(p, m)), m)

Resolve(s, p, what, m, x, ctx) ==
    CASE what = "type" -> TypeExpr(s, p, m, x, ctx)
      [] what = "field" -> FieldType(s, p, m, x, ctx)
      [] what = "full" -> FinalFull(s, p, x)
      [] what = "shallow" -> FinalShallow(s, p, x)
      [] what = "declare" -> DeclareModule(s, p, m)
      [] what = "layout" -> LayoutOf(s, p, m, x, ctx)

-----------------------------------------------------------------------------
VARIABLES program,     \* the program, with the order its maps are walked in
          sema,        \* the resolver's state
          todo         \* the symbols still to force, of the module being declared
vars == <<program, sema, todo>>

Orders(S) == {f \in [1..Cardinality(S) -> S] : \A i, j \in DOMAIN f : i # j => f[i] # f[j]}
Init == /\ \E p \in Programs : \E o \in Orders(DOMAIN p.types), ms \in Orders(p.mods) :
               program = [mods |-> ms, types |-> p.types, imports |-> p.imports, order |-> o]
        /\ sema = NewProgram(DOMAIN program.types)
        /\ todo = <<>>

Current == program.mods[1]
\* check_program takes up the next module, unless that one is declared by now.
EnterModule == /\ program.mods # <<>> /\ todo = <<>> /\ ~sema.crashed
               /\ Current \notin sema.declaring \cup sema.declared
               /\ sema' = build_symbol_table_for_module(sema, program, Current)
               /\ todo' = SymbolsOf(program, Current)
               /\ UNCHANGED program
ForceSymbol == /\ todo # <<>> /\ ~sema.crashed
               /\ sema' = ForceLayout(sema, program, Head(todo))
               /\ todo' = Tail(todo)
               /\ UNCHANGED program
LeaveModule == /\ program.mods # <<>> /\ todo = <<>> /\ ~sema.crashed
               /\ Current \in sema.declaring \cup sema.declared
               /\ sema' = ModuleDone(sema, Current)
               /\ program' = [program EXCEPT !.mods = Tail(@)]
               /\ UNCHANGED todo
Next == EnterModule \/ ForceSymbol \/ LeaveModule
Spec == Init /\ [][Next]_vars
=============================================================================
