----------------------------- MODULE SemaCheck -----------------------------
(***************************************************************************)
(* The check of a function body (compiler/sema_check.cpp): error           *)
(* typestate, where control may leave from, what is returned, which arms   *)
(* a match may have, which names are in scope.                             *)
(*                                                                         *)
(* Expressions carry the type inference gives them; a call's "drop" says   *)
(* that its callee's last result is an optional error its context drops;   *)
(* error(E) and ?error(E), assignable to one another, are one type here.   *)
(* "sc" is what check_stmt threads through a body: locals, the LocalScope  *)
(* (name -> [ty, state]), and ok, FALSE once an error was reported.  "cx"  *)
(* is what it passes down: loop_depth, defer_loop_base and the returns.    *)
(* Mutability and warnings are left out.                                   *)
(***************************************************************************)
EXTENDS MirGen
LOCAL SS == INSTANCE SequencesExt

InDefer(cx) == cx.base >= 0
fn_error_type(cx) == IF cx.returns = <<>> THEN Void ELSE SS!Last(cx.returns)
Fallible_(cx) == is_error_union(fn_error_type(cx))

Require(sc, holds) == [sc EXCEPT !.ok = @ /\ holds]
\* A scope copied for a nested construct and thrown away after it: only its errors remain.
Scoped(sc, inner) == Require(sc, inner.ok)

Declare_(sc, name, ty, state) ==
    IF name = "_" THEN sc ELSE [sc EXCEPT !.locals = (name :> [ty |-> ty, state |-> state]) @@ @]
Tracked(sc, name, ty) ==
    Declare_(sc, name, ty, IF is_error_union(ty) THEN "Unknown" ELSE "NotApplicable")
Untracked(sc, name, ty) == Declare_(sc, name, ty, "NotApplicable")

find_error_local(sc, x) ==
    x.e = "ident" /\ x.name \in DOMAIN sc.locals /\ is_error_union(sc.locals[x.name].ty)

\* Assigning to a tracked local, or taking its address, forgets its state.
Forget(sc, x) ==
    IF x.e = "ident" /\ x.name \in DOMAIN sc.locals /\ sc.locals[x.name].state # "NotApplicable"
    THEN [sc EXCEPT !.locals[x.name].state = "Unknown"] ELSE sc

(***************************************************************************)
(* Types.                                                                  *)
(***************************************************************************)
assignable(from, to) ==
    \/ from = to
    \/ from.k = "array" /\ to.k = "ptr" /\ from.elem = to.to
    \/ from.k = "bitset" /\ from.under = to
    \/ from.k = "anyptr" /\ to.k \in {"ptr", "slice"}
    \/ from.k \in {"ptr", "slice"} /\ to.k = "anyptr"
    \/ from.k \in {"array", "slice"} /\ to.k \in {"array", "slice"} /\ from.k # to.k /\ from.elem = to.elem
    \/ from.k = "slice" /\ to.k = "ptr" /\ from.elem = to.to

error_union_is_subset(callee, caller) ==
    is_error_union(caller) /\ SS!ToSet(callee.members) \subseteq SS!ToSet(caller.members)

(***************************************************************************)
(* What a condition tells about error locals.                              *)
(***************************************************************************)
\* <<name, negated>> of err and !err, <<>> of anything else.
match_error_operand(sc, x) ==
    CASE find_error_local(sc, x) -> <<x.name, FALSE>>
      [] x.e = "unary" /\ x.op = "!" /\ find_error_local(sc, x.x) -> <<x.x.name, TRUE>>
      [] OTHER -> <<>>

RECURSIVE flatten_logical_chain(_, _)
flatten_logical_chain(x, op) ==
    IF x.e = "binary" /\ x.op = op THEN flatten_logical_chain(x.l, op) \o flatten_logical_chain(x.r, op)
    ELSE <<x>>

\* The state each error local of a condition has where it holds ("then") or fails.
compute_condition_narrowing(sc, c, then) ==
    LET chain == c.e = "binary" /\ c.op \in {"&&", "||"}
        operands == IF chain THEN flatten_logical_chain(c, c.op) ELSE <<c>>
        found == SS!ToSet([n \in DOMAIN operands |-> match_error_operand(sc, operands[n])]) \ {<<>>}
        telling == ~chain \/ then = (c.op = "&&")
        states(name) == {IF m[2] = then THEN "Ok" ELSE "Failed" : m \in {f \in found : f[1] = name}}
    IN  [name \in {m[1] : m \in found} |->
           IF telling /\ \E st \in states(name) : states(name) = {st} THEN CHOOSE st \in states(name) : TRUE
           ELSE "Unknown"]

apply_condition_narrowing(sc, c, then) ==
    LET told == compute_condition_narrowing(sc, c, then)
    IN  [sc EXCEPT !.locals = [name \in DOMAIN @ |->
                                 IF name \in DOMAIN told THEN [@[name] EXCEPT !.state = told[name]]
                                 ELSE @[name]]]

\* The state at the end of the second way, whatever the first one did.
MutMerge_error_states(sc, a, b) ==
    [sc EXCEPT !.locals = [name \in DOMAIN @ |-> IF @[name].state = "NotApplicable" THEN @[name]
                                                ELSE [@[name] EXCEPT !.state = b.locals[name].state]]]

\* Two ways to the same point: a state survives where both agree on it.
merge_error_states(sc, a, b) ==
    LET state(s, name) == IF name \in DOMAIN s.locals THEN s.locals[name].state ELSE "Unknown"
        merged(name) == IF state(a, name) = state(b, name) THEN state(a, name) ELSE "Unknown"
    IN  [sc EXCEPT !.locals = [name \in DOMAIN @ |->
                                 IF @[name].state = "NotApplicable" THEN @[name]
                                 ELSE [@[name] EXCEPT !.state = merged(name)]]]

RECURSIVE stmt_always_exits(_)
stmt_always_exits(s) ==
    CASE s.s = "block" -> s.body # <<>> /\ stmt_always_exits(SS!Last(s.body))
      [] s.s = "if" -> s.else # <<>> /\ stmt_always_exits(s.then) /\ stmt_always_exits(s.else[1])
      [] s.s = "switch" -> /\ \A n \in DOMAIN s.arms : stmt_always_exits(s.arms[n].body)
                           /\ \E n \in DOMAIN s.arms : s.arms[n].pat = <<>>
      [] OTHER -> s.s \in {"return", "return_err", "return_ok", "break", "continue"}

(***************************************************************************)
(* What the operators ask of their operands' types.                        *)
(***************************************************************************)
is_integer(ty) == ty.k \in {"u8", "i8", "u32", "i32", "u64", "i64", "usize"}
is_scalar_type(ty) == is_integer(ty) \/ pointer_like(ty) \/ ty = Scalar("bool")
Invalid == [k |-> "invalid"]
Comparing == {"==", "!=", "<", "<=", ">", ">="}

bitset_binary_op_result(op, l, r) ==
    CASE l # r -> Invalid
      [] l = r /\ op \in {"+", "-", "&", "^", "|"} -> l
      [] l = r /\ op \in {"==", "!="} -> Scalar("bool")
      [] OTHER -> Invalid

binary_op_result(op, l, r) ==
    LET boolean(ty) == ty = Scalar("bool") \/ is_error_union(ty)
        aggregate(ty) == ty.k \in {"struct", "array", "union", "error", "slice"}
        only(holds, ty) == IF holds THEN ty ELSE Invalid
    IN  CASE op = "in" -> only(l = r /\ r.k = "bitset", Scalar("bool"))
          [] op # "in" /\ "bitset" \in {l.k, r.k} -> bitset_binary_op_result(op, l, r)
          [] op \in {"&&", "||"} -> only(boolean(l) /\ boolean(r), Scalar("bool"))
          [] op \in Comparing -> only(~aggregate(l) /\ ~aggregate(r) /\ (assignable(l, r) \/ assignable(r, l)),
                                      Scalar("bool"))
          [] op \in {"+", "-"} /\ pointer_like(l) /\ is_integer(r) -> l
          [] op \in {"+", "-"} /\ pointer_like(r) /\ is_integer(l) -> r
          [] OTHER -> only(l = r /\ is_integer(l), l)

integer_bit_width(ty) == type_bits(IF ty.k = "usize" THEN "i64" ELSE scalar_type(ty))
integer_literal_fits(magnitude, negative, ty) ==
    LET half == 2^(integer_bit_width(ty) - 1)
    IN  CASE ~is_integer(ty) -> TRUE
          [] is_integer(ty) /\ signed_type(ty) -> magnitude < half \/ (negative /\ magnitude = half)
          [] OTHER -> ~negative /\ magnitude < 2 * half

is_cast_legal(from, to) ==
    \/ to.k = "slice" /\ from.k \in {"ptr", "anyptr", "array", "slice"}
    \/ from.k \in {"array", "slice"} /\ pointer_like(to)
    \/ from.k = "enum" /\ is_integer(to)
    \/ is_integer(from) /\ to.k = "enum"
    \/ from.k = "bitset" /\ (from = to \/ is_integer(to))
    \/ is_integer(from) /\ to.k = "bitset"
    \/ is_scalar_type(from) /\ is_scalar_type(to)

\* What evaluate_integer_constant makes of a literal; nothing else folds here.
folded(x) ==
    CASE x.e = "int" -> <<x.n>>
      [] x.e = "unary" /\ x.op = "-" /\ x.x.e = "int" -> <<-x.x.n>>
      [] OTHER -> <<>>

\* The elements agree; a pointer is made a slice with a length, only a slice has one, and an
\* array's must fit where it is constant.
check_cast(x) ==
    LET from == x.x.ty
        to == x.ty
    IN  /\ is_cast_legal(from, to)
        /\ to.k = "slice" /\ from.k \in {"array", "slice"} => from.elem = to.elem
        /\ x.len # <<>> => to.k = "slice" /\ is_integer(x.len[1].ty)
        /\ x.len # <<>> /\ from.k = "array" =>
             \A n \in SS!ToSet(folded(x.len[1])) : n \in 0 .. from.count
        /\ to.k = "slice" /\ x.len = <<>> => from.k \in {"array", "slice"}

\* A struct literal names each field once and leaves out only those with a default.
StructLiteral(ty, items) ==
    LET named == [n \in DOMAIN items |-> items[n].n]
    IN  /\ SS!IsInjective(named)
        /\ \A n \in DOMAIN items : items[n].n \in DOMAIN ty.fields /\ assignable(items[n].x.ty, ty.fields[items[n].n].type)
        /\ \A f \in DOMAIN ty.fields : ty.fields[f].init = <<>> => f \in SS!ToSet(named)
check_braced_initializer(x) ==
    IF x.ty.k = "struct" THEN x.items # <<>> => StructLiteral(x.ty, x.items)
    ELSE /\ x.ty.k = "array" /\ Len(x.items) + Len(x.fill) <= x.ty.count
         /\ \A n \in DOMAIN x.items : assignable(x.items[n].x.ty, x.ty.elem)
         /\ \A n \in DOMAIN x.fill : assignable(x.fill[n].ty, x.ty.elem)
\* A payload that is no struct is the single field of one.
check_tagged_variant(x) ==
    LET payload == x.ty.variants[x.n]
    IN  CASE payload = Void -> x.items = <<>>
          [] payload.k = "struct" -> StructLiteral(payload, x.items)
          [] OTHER -> Len(x.items) = 1 /\ assignable(x.items[1].x.ty, payload)

\* The rule for one expression, its operands being of the types they carry.
WellTyped(x) ==
    CASE x.e = "int" -> integer_literal_fits(x.n, FALSE, x.ty)
      [] x.e = "binary" -> binary_op_result(x.op, x.l.ty, x.r.ty) = x.ty
      [] x.e = "unary" /\ x.op = "-" ->
           IF x.x.e = "int" THEN integer_literal_fits(x.x.n, TRUE, x.ty) ELSE is_integer(x.x.ty)
      [] x.e = "unary" /\ x.op = "~" -> is_integer(x.x.ty) \/ x.x.ty.k = "bitset"
      [] x.e = "unary" /\ x.op = "deref" -> x.x.ty.k = "ptr"
      [] x.e = "assign" /\ x.op = "=" -> assignable(x.r.ty, x.l.ty)
      [] x.e = "assign" /\ x.op # "=" ->
           /\ binary_op_result(x.op, x.l.ty, x.r.ty) = x.l.ty
           /\ x.l.ty.k = "bitset" => x.op \in {"+", "-", "^"}
      [] x.e = "incr" -> is_integer(x.x.ty) \/ pointer_like(x.x.ty)
      [] x.e = "index" -> x.obj.ty.k \in {"ptr", "array", "slice"} /\ is_integer(x.idx.ty)
      [] x.e = "slice" -> /\ x.obj.ty.k \in {"array", "slice"}
                          /\ \A n \in DOMAIN (x.lo \o x.hi) : is_integer((x.lo \o x.hi)[n].ty)
      [] x.e = "len" -> x.x.ty.k \in {"array", "slice"}
      [] x.e = "cast" -> check_cast(x)
      [] x.e \in {"ternary", "when"} -> x.x.ty = x.y.ty
      [] x.e \in {"default", "undefined"} -> x.ty.k \notin {"union", "error"}
      [] x.e = "braced" -> check_braced_initializer(x)
      [] x.e = "variant" -> check_tagged_variant(x)
      [] x.e = "wrapped" -> {n \in DOMAIN x.ty.variants : x.ty.variants[n] = x.x.ty} = {x.n}
      [] OTHER -> TRUE

(***************************************************************************)
(* Expressions.                                                            *)
(***************************************************************************)
RECURSIVE check_expr(_, _, _), check_stmt(_, _, _), check_exprs(_, _, _), check_stmts(_, _, _)

\* In order, up to the first error.
check_exprs(sc, xs, cx) ==
    IF xs = <<>> \/ ~sc.ok THEN sc ELSE check_exprs(check_expr(sc, Head(xs), cx), Tail(xs), cx)

check_call_args(sc, fn, args, cx) ==
    LET fixed == IF fn.variadic THEN Len(fn.params) - 1 ELSE Len(fn.params)
        type(n) == IF n <= fixed THEN fn.params[n] ELSE fn.params[fixed + 1].elem
        counted == Len(args) >= fn.required /\ (fn.variadic \/ Len(args) <= fixed)
    IN  IF ~counted THEN Require(sc, FALSE)
        ELSE Require(check_exprs(sc, args, cx), \A n \in DOMAIN args : assignable(args[n].ty, type(n)))
check_group_call_returns(sc, x, cx) == check_call_args(sc, Functions[x.fn], x.args, cx)

\* One value is wanted: a lone result, or the first of two when the second is dropped.
check_call_expr(sc, x, cx) ==
    LET n == Len(Functions[x.fn].returns)
    IN  Require(check_group_call_returns(sc, x, cx), n < 2 \/ (n = 2 /\ x.drop))

\* A callee that returns nothing passes: there is nothing to propagate.
check_try(sc, x, cx) ==
    LET returns == Functions[x.fn].returns
        called == check_group_call_returns(sc, x, cx)
    IN  IF InDefer(cx) \/ ~Fallible_(cx) THEN Require(sc, FALSE)
        ELSE IF returns = <<>> THEN called
        ELSE Require(called, is_error_union(SS!Last(returns))
                             /\ error_union_is_subset(SS!Last(returns), fn_error_type(cx)))

is_lvalue(x) == x.e \in {"ident", "member", "index"} \/ (x.e = "unary" /\ x.op = "deref")
resolve_lvalue(sc, x, cx) == Require(check_expr(sc, x, cx), is_lvalue(x))

\* A negated literal is checked as a whole.
check_unary_expr(sc, x, cx) ==
    CASE x.op = "addr" -> Forget(resolve_lvalue(sc, x.x, cx), x.x)
      [] x.op = "-" /\ x.x.e = "int" -> sc
      [] OTHER -> check_expr(sc, x.x, cx)

\* The value is checked before its target forgets its state.
check_assign_expr(sc, x, cx) == Forget(check_expr(resolve_lvalue(sc, x.l, cx), x.r, cx), x.l)

\* Each branch is checked with what the condition says of it; neither is merged back.
check_condition_branch_types(sc, x, cx) ==
    LET cond == check_expr(sc, x.c, cx)
        then == check_expr(apply_condition_narrowing(cond, x.c, TRUE), x.x, cx)
        else == check_expr(apply_condition_narrowing(cond, x.c, FALSE), x.y, cx)
    IN  Scoped(Scoped(cond, then), else)
\* The condition of a when is a constant: it names no local.
check_when_branches(sc, x, cx) == Scoped(Scoped(sc, check_expr(sc, x.x, cx)), check_expr(sc, x.y, cx))

(***************************************************************************)
(* Arms.                                                                   *)
(***************************************************************************)
EffectiveType(ty) == IF is_error_union(ty) THEN FailedPayload(ty) ELSE ty
Cases(ty) == CASE ty.k = "union" -> DOMAIN ty.variants
               [] ty.k = "enum" -> 0 .. ty.count - 1
               [] ty = Scalar("bool") -> {0, 1}
               [] OTHER -> {}
Defaults(arms) == {n \in DOMAIN arms : arms[n].pat = <<>>}
Covered(arms) == {arms[n].pat[1] : n \in DOMAIN arms \ Defaults(arms)}
Exhaustive(ty, arms) == Cases(ty) # {} /\ Cases(ty) \subseteq Covered(arms)

\* An error is matched only where it is a local known to have failed.
check_match_operand(sc, x, arms, cx) ==
    LET operand == check_expr(sc, x, cx)
    IN  Require(operand,
                /\ is_error_union(x.ty) => find_error_local(operand, x) /\ operand.locals[x.name].state = "Failed"
                /\ Defaults(arms) \subseteq {Len(arms)}
                /\ Cases(EffectiveType(x.ty)) # {} \/ is_integer(x.ty))

\* No pattern twice, none the type does not have, a capture only of a payload, no default that
\* nothing reaches.
check_arms(sc, ty, arms) ==
    Require(sc, /\ Cardinality(Covered(arms)) = Cardinality(DOMAIN arms \ Defaults(arms))
                /\ ty.k \in {"union", "enum"} => Covered(arms) \subseteq Cases(ty)
                /\ \A n \in DOMAIN arms : arms[n].cap # <<>> =>
                     ty.k = "union" /\ arms[n].pat # <<>> /\ ty.variants[arms[n].pat[1]] # Void
                /\ Exhaustive(ty, arms) => Defaults(arms) = {})

ArmScope(sc, ty, arm) ==
    LET payload == ty.variants[arm.pat[1]]
    IN  IF arm.cap = <<>> THEN sc
        ELSE Untracked(sc, arm.cap[1], IF arm.ref THEN [k |-> "ptr", to |-> payload] ELSE payload)

\* Every arm of a match or a switch starts from the scope after the operand, and none is merged
\* back.  A match has a value: some arm is always chosen, and all have one type.
check_match_expr(sc, x, cx) ==
    LET ty == EffectiveType(x.x.ty)
        arms == check_arms(check_match_operand(sc, x.x, x.arms, cx), ty, x.arms)
    IN  Require(arms,
                /\ \A n \in DOMAIN x.arms : check_expr(ArmScope(arms, ty, x.arms[n]), x.arms[n].body, cx).ok
                /\ Defaults(x.arms) # {} \/ Exhaustive(ty, x.arms)
                /\ \A n \in DOMAIN x.arms : x.arms[n].body.ty = x.arms[1].body.ty)

check_switch_stmt(sc, s, cx) ==
    LET ty == EffectiveType(s.x.ty)
        arms == check_arms(check_match_operand(sc, s.x, s.arms, cx), ty, s.arms)
    IN  Require(arms, \A n \in DOMAIN s.arms :
                           check_stmt(ArmScope(arms, ty, s.arms[n]), s.arms[n].body, cx).ok)

check_expr(sc, x, cx) ==
    LET operands ==
          CASE x.e \in {"int", "nil", "default", "undefined", "sizeof"} -> <<>>
            [] x.e = "binary" -> <<x.l, x.r>>
            [] x.e = "member" -> <<x.obj>>
            [] x.e = "index" -> <<x.obj, x.idx>>
            [] x.e = "slice" -> <<x.obj>> \o x.lo \o x.hi
            [] x.e = "cast" -> <<x.x>> \o x.len
            [] x.e \in {"len", "wrapped"} -> <<x.x>>
            [] x.e = "variant" -> [n \in DOMAIN x.items |-> x.items[n].x]
            [] x.e = "braced" -> [n \in DOMAIN x.items |-> x.items[n].x] \o x.fill
        checked ==
          CASE x.e = "ident" -> Require(sc, x.name \in DOMAIN sc.locals)
            [] x.e = "unary" -> check_unary_expr(sc, x, cx)
            [] x.e = "assign" -> check_assign_expr(sc, x, cx)
            [] x.e = "incr" -> resolve_lvalue(sc, x.x, cx)
            [] x.e = "call" -> check_call_expr(sc, x, cx)
            [] x.e = "try" -> Require(check_try(sc, x.call, cx), Len(Functions[x.call.fn].returns) <= 2)
            [] x.e = "ternary" -> check_condition_branch_types(sc, x, cx)
            [] x.e = "when" -> check_when_branches(sc, x, cx)
            [] x.e = "match" -> check_match_expr(sc, x, cx)
            [] OTHER -> check_exprs(sc, operands, cx)
    IN  Require(checked, WellTyped(x))

(***************************************************************************)
(* Statements.                                                             *)
(***************************************************************************)
check_stmts(sc, stmts, cx) ==
    IF stmts = <<>> \/ ~sc.ok THEN sc ELSE check_stmts(check_stmt(sc, Head(stmts), cx), Tail(stmts), cx)
check_block(sc, stmts, cx) == Scoped(sc, check_stmts(sc, stmts, cx))

\* The early return: after "if !err" whose body always leaves, err has failed.
check_if(sc, s, cx) ==
    LET cond == check_expr(sc, s.c, cx)
        then == check_stmt(apply_condition_narrowing(cond, s.c, TRUE), s.then, cx)
        else == check_stmts(apply_condition_narrowing(cond, s.c, FALSE), s.else, cx)
        operand == match_error_operand(cond, s.c)
        early == operand # <<>> /\ operand[2] /\ s.else = <<>> /\ stmt_always_exits(s.then)
    IN  Require(IF early THEN [cond EXCEPT !.locals[operand[1]].state = "Failed"]
                ELSE merge_error_states(cond, then, else),
                then.ok /\ else.ok)

\* The body is checked once, from the state before the loop.
check_while(sc, s, cx) ==
    LET cond == check_expr(sc, s.c, cx)
        body == check_stmt(apply_condition_narrowing(cond, s.c, TRUE), s.body, [cx EXCEPT !.loop = @ + 1])
    IN  Require(merge_error_states(cond, cond, body), body.ok)

check_for_in_stmt(sc, s, cx) ==
    LET over == check_exprs(sc, IF s.s = "range" THEN <<s.hi>> \o s.lo ELSE <<s.x>>, cx)
        legal == IF s.s = "range" THEN is_integer(s.hi.ty) /\ (s.lo # <<>> => s.lo[1].ty = s.hi.ty)
                 ELSE s.x.ty.k \in {"array", "slice"}
        element == CASE s.s = "range" -> s.hi.ty
                     [] s.s = "for" -> IF s.ref THEN [k |-> "ptr", to |-> s.x.ty.elem] ELSE s.x.ty.elem
        inner == Untracked(Untracked(over, s.index, Scalar("usize")), s.name, element)
    IN  IF ~legal THEN Require(over, FALSE)
        ELSE Scoped(over, check_stmt(inner, s.body, [cx EXCEPT !.loop = @ + 1]))

check_expr_stmt(sc, x, cx) ==
    Require(check_expr(sc, x, cx),
            is_error_union(x.ty) /\ x.e \notin {"try", "assign"} => x.e = "call" /\ x.drop)

check_var_decl(sc, s, cx) ==
    Tracked(Require(check_exprs(sc, s.init, cx), s.init # <<>> => assignable(s.init[1].ty, s.ty)), s.name, s.ty)

check_var_decl_group_stmt(sc, s, cx) ==
    LET returns == Functions[s.call.fn].returns
        called == IF s.mode = "try" THEN check_try(sc, s.call, cx) ELSE check_group_call_returns(sc, s.call, cx)
        left == IF s.mode = "all" THEN returns ELSE SS!Front(returns)
        bind(acc, n) == Tracked(acc, s.names[n], left[n])
    IN  IF returns = <<>> THEN called
        ELSE IF Len(left) # Len(s.names) THEN Require(called, FALSE)
        ELSE SS!FoldLeft(bind, called, [n \in DOMAIN left |-> n])

check_values(sc, xs, types, cx) ==
    Require(check_exprs(sc, xs, cx),
            Len(xs) = Len(types) /\ \A n \in DOMAIN xs : assignable(xs[n].ty, types[n]))

\* .Variant, alone or as what a match, a ternary or a when yields.
RECURSIVE find_bare_return_err_variant_name(_)
find_bare_return_err_variant_name(x) ==
    CASE x.e = "match" -> \E n \in DOMAIN x.arms : find_bare_return_err_variant_name(x.arms[n].body)
      [] x.e \in {"ternary", "when"} -> find_bare_return_err_variant_name(x.x) \/ find_bare_return_err_variant_name(x.y)
      [] OTHER -> x.e = "variant" \/ (x.e = "int" /\ x.ty.k = "enum")
resolve_return_err_member_type(x, error) ==
    is_error_union(error) /\ find_bare_return_err_variant_name(x) /\ x.ty \in SS!ToSet(error.members)

\* The last value of a fallible function may be a variant of one of its errors.
check_return_values(sc, xs, cx) ==
    Require(check_exprs(sc, xs, cx),
            /\ Len(xs) = Len(cx.returns)
            /\ \A n \in DOMAIN xs : \/ assignable(xs[n].ty, cx.returns[n])
                                    \/ n = Len(xs) /\ resolve_return_err_member_type(xs[n], cx.returns[n]))

check_return_stmt(sc, s, cx) ==
    LET x == s.values[1]
        returns == Functions[x.fn].returns
        left == IF x.drop THEN SS!Front(returns) ELSE returns
        forwards == Len(s.values) = 1 /\ Len(cx.returns) > 1 /\ x.e = "call"
        fits == Len(left) = Len(cx.returns) /\ \A n \in DOMAIN left : assignable(left[n], cx.returns[n])
    IN  CASE InDefer(cx) -> Require(sc, FALSE)
          [] ~InDefer(cx) /\ forwards -> Require(check_group_call_returns(sc, x, cx), fits)
          [] OTHER -> check_return_values(sc, s.values, cx)

check_return_err_stmt(sc, s, cx) ==
    LET error == fn_error_type(cx)
    IN  IF InDefer(cx) \/ ~Fallible_(cx) THEN Require(sc, FALSE)
        ELSE Require(check_expr(sc, s.x, cx),
                     IF is_error_union(s.x.ty) THEN error_union_is_subset(s.x.ty, error)
                     ELSE s.x.ty \in SS!ToSet(error.members))

check_return_ok(sc, s, cx) ==
    IF InDefer(cx) \/ ~Fallible_(cx) THEN Require(sc, FALSE)
    ELSE check_values(sc, s.values, SS!Front(cx.returns), cx)

\* break and continue need a loop, of the deferred statement they are in if any.
check_loop_exit(sc, cx) == Require(sc, cx.loop > 0 /\ ~(InDefer(cx) /\ cx.loop <= cx.base))

check_when_stmt(sc, s, cx) == Scoped(check_block(sc, s.then, cx), check_block(sc, s.else, cx))

check_stmt(sc, s, cx) ==
    CASE s.s = "block" -> check_block(sc, s.body, cx)
      [] s.s = "if" -> check_if(sc, s, cx)
      [] s.s = "while" -> check_while(sc, s, cx)
      [] s.s \in {"for", "range"} -> check_for_in_stmt(sc, s, cx)
      [] s.s = "expr" -> check_expr_stmt(sc, s.x, cx)
      [] s.s = "var" -> check_var_decl(sc, s, cx)
      [] s.s = "group" -> check_var_decl_group_stmt(sc, s, cx)
      [] s.s = "switch" -> check_switch_stmt(sc, s, cx)
      [] s.s \in {"break", "continue"} -> check_loop_exit(sc, cx)
      [] s.s = "return" -> check_return_stmt(sc, s, cx)
      [] s.s = "return_err" -> check_return_err_stmt(sc, s, cx)
      [] s.s = "return_ok" -> check_return_ok(sc, s, cx)
      [] s.s = "defer" -> check_stmt(sc, s.body, [cx EXCEPT !.base = cx.loop])
      [] s.s = "when" -> check_when_stmt(sc, s, cx)

\* A function body: the parameters in scope, no loop and no deferred statement around it.
check_body(fn) ==
    LET params == SS!FoldLeft(LAMBDA acc, n : Untracked(acc, fn.names[n], fn.params[n]),
                              [locals |-> <<>>, ok |-> TRUE], [n \in DOMAIN fn.names |-> n])
    IN  check_stmt(params, fn.body, [loop |-> 0, base |-> -1, returns |-> fn.returns]).ok
=============================================================================
