------------------------------ MODULE MirGen ------------------------------
(***************************************************************************)
(* The lowering of a checked function body to MIR (compiler/mirgen.cpp).   *)
(*                                                                         *)
(* Expressions and statements are records tagged "e" and "s"; an           *)
(* expression carries the type "ty" sema recorded for it.  "g" is the      *)
(* builder's function of MirFunc with the lowering's own state:            *)
(*   locals, ltypes   the slot and the type of each name in scope          *)
(*   defers           the defer scopes, each [stmts, loop]                 *)
(*   loops            the enclosing loops, each [header, exit]             *)
(*   nextLoop         next_block_is_loop_body_                             *)
(*   sret, returns    the hidden result pointer and the return types       *)
(*   esc              slots_escaping_                                      *)
(* An aggregate's value is its address.  Constructs the code reports as    *)
(* unsupported do not occur in a checked program of these forms.           *)
(***************************************************************************)
EXTENDS TypeLayout, TLC
LOCAL SX == INSTANCE SequencesExt

CONSTANTS
    Functions  \* what a body may call: [params, returns, defaults, variadic, writes]

expr_type(x) == x.ty
\* What is emitted once g has been; there always is a block to emit into.
After(g, rest) == IF g.cur = 0 THEN g ELSE rest
Value(g, v) == [g EXCEPT !.v = v]

zero_fill(g, dest, n) ==
    LET byte == const_int(g, "i8", 0)
        count == const_int(byte, usize_ty, n)
    IN  mem_set(count, dest, byte.v, count.v)

copy_bytes(g, dest, source, n) ==
    LET count == const_int(g, usize_ty, n) IN mem_copy(count, dest, source, count.v)

\* Both words of a slice header at "base".
store_header(g, base, data, count) ==
    LET len == ptr_add_const(store(g, base, data), base, PointerBytes) IN store(len, len.v, count)

new_slot(g, shape) == LET h == add_slot(g, shape) IN slot_addr(h, LastSlot(h))

\* A fresh slot's address holding a slice header.
new_header(g, data, count) ==
    LET h == new_slot(g, Words(2)) IN Value(store_header(h, h.v, data, count), h.v)

(***************************************************************************)
(* Coercions.                                                              *)
(***************************************************************************)
coerce_to(g, value, target, source_is_signed) ==
    LET from == g.types[value]
    IN  CASE from = target \/ target = "void" -> Value(g, value)
          [] IsInteger(from) /\ IsInteger(target) ->
               IF type_bits(target) < type_bits(from) THEN convert(g, "trunc", target, value)
               ELSE convert(g, IF source_is_signed /\ from # "i1" THEN "sext" ELSE "zext",
                            target, value)
          [] target = "ptr" -> convert(g, "inttoptr", target, value)
          [] OTHER -> convert(g, "ptrtoint", target, value)

coerce(g, value, target, source) ==
    IF is_scalar(target) THEN coerce_to(g, value, scalar_type(target), signed_type(source))
    ELSE Value(g, value)

coerce_arg(g, value, param, arg) ==
    IF param.k = "slice" /\ arg.k = "array"
    THEN LET count == const_int(g, usize_ty, arg.count) IN new_header(count, value, count.v)
    ELSE IF param.k \in {"ptr", "anyptr"} /\ arg.k = "slice" THEN load(g, "ptr", value)
    ELSE Value(g, value)

is_const_null(g, value) ==
    \E b \in DOMAIN g.blocks : \E i \in DOMAIN g.blocks[b].insts :
      g.blocks[b].insts[i].res = value /\ g.blocks[b].insts[i].op = "constnull"

\* slice -> array: min(len, count) elements, then a zero tail.
store_prefix(g, dest, target, source) ==
    LET data == load(g, "ptr", source)
        at == ptr_add_const(data, source, PointerBytes)
        len == load(at, usize_ty, at.v)
        count == const_int(len, usize_ty, target.count)
        short == compare(count, "ult", len.v, count.v)
        n == select(short, short.v, len.v, count.v, usize_ty)
        stride == SlotSizeOf(target.elem)
        scale == const_int(n, usize_ty, stride)
        bytes == IF stride = 1 THEN n ELSE binary(scale, "mul", usize_ty, n.v, scale.v)
        total == const_int(bytes, usize_ty, size_of(target))
        copied == mem_copy(total, dest, data.v, bytes.v)
        tail == ptr_add(copied, dest, bytes.v)
        byte == const_int(tail, "i8", 0)
        rest == binary(byte, "sub", usize_ty, total.v, bytes.v)
    IN  mem_set(rest, tail.v, byte.v, rest.v)

store_aggregate_value(g, dest, target, source, source_type) ==
    IF is_const_null(g, source) THEN zero_fill(g, dest, SlotSizeOf(target))
    ELSE IF target.k = "array" /\ source_type.k = "slice"
    THEN store_prefix(g, dest, target, source)
    ELSE IF target.k = "slice" /\ source_type.k = "array"
    THEN LET count == const_int(g, usize_ty, source_type.count)
         IN  store_header(count, dest, source, count.v)
    ELSE copy_bytes(g, dest, source, SlotSizeOf(target))

\* What every store of a value of one type to a place of another does.
store_value(g, dest, target, value, source) ==
    IF is_scalar(target) THEN LET c == coerce(g, value, target, source) IN store(c, dest, c.v)
    ELSE store_aggregate_value(g, dest, target, value, source)

RECURSIVE emit_expr(_, _), emit_stmt(_, _), emit_stmts(_, _), emit_address(_, _),
          emit_field_defaults(_, _, _, _), emit_try_propagation(_, _, _), emit_call(_, _)

emit_stmts(g, stmts) ==
    IF g.cur = 0 \/ stmts = <<>> THEN g ELSE emit_stmts(emit_stmt(g, Head(stmts)), Tail(stmts))

\* The declared field defaults over a zeroed region; "supplied" fields keep what was written.
\* A default expression sees none of the body's locals.
emit_field_defaults(g, base, ty, supplied) ==
    LET field(h, n) ==
          LET f == ty.fields[n]
              at == ptr_add_const(h, base, field_offset(ty, n))
              x == f.init[1]
              bare == emit_expr([at EXCEPT !.locals = <<>>, !.ltypes = <<>>], x)
              stored == store_value(bare, at.v, f.type, bare.v, expr_type(x))
          IN  IF h.cur = 0 \/ n \in supplied THEN h
              ELSE IF f.init # <<>>
              THEN [stored EXCEPT !.locals = g.locals, !.ltypes = g.ltypes]
              ELSE IF type_has_field_defaults(f.type)
              THEN emit_field_defaults(at, at.v, f.type, {})
              ELSE at
        element(h, n) == LET at == ptr_add_const(h, base, (n - 1) * SlotSizeOf(ty.elem))
                         IN  emit_field_defaults(at, at.v, ty.elem, {})
    IN  IF ty.k = "struct" THEN SX!FoldLeft(field, g, [n \in DOMAIN ty.fields |-> n])
        ELSE IF ty.k = "array" /\ type_has_field_defaults(ty.elem)
        THEN SX!FoldLeft(element, g, [n \in 1 .. ty.count |-> n])
        ELSE g

\* Zeros and declared defaults at an address.
default_fill(g, base, ty) ==
    LET zeroed == zero_fill(g, base, SlotSizeOf(ty))
    IN  IF type_has_field_defaults(ty) THEN emit_field_defaults(zeroed, base, ty, {}) ELSE zeroed

zero_of(g, ty) == IF ty = "ptr" THEN const_null(g) ELSE const_int(g, ty, 0)

zero_slot(g, slot, ty) ==
    LET at == slot_addr(g, slot)
        zero == zero_of(at, scalar_type(ty))
    IN  IF is_scalar(ty) THEN store(zero, at.v, zero.v) ELSE default_fill(at, at.v, ty)

(***************************************************************************)
(* Places.                                                                 *)
(***************************************************************************)
emit_index_address(g, x) ==
    LET obj == expr_type(x.obj)
        lvalue == emit_address(g, x.obj)
        header == IF lvalue.v = NoValue THEN emit_expr(g, x.obj) ELSE lvalue
        base == CASE obj.k = "array" -> lvalue
                  [] obj.k = "ptr" -> emit_expr(g, x.obj)
                  [] obj.k = "slice" -> load(header, "ptr", header.v)
        raw == emit_expr(base, x.idx)
        idx == coerce_to(raw, raw.v, usize_ty, signed_type(expr_type(x.idx)))
        size == const_int(idx, usize_ty, size_of(expr_type(x)))
        scaled == binary(size, "mul", usize_ty, idx.v, size.v)
    IN  ptr_add(scaled, base.v, scaled.v)

emit_member_address(g, x) ==
    LET obj == expr_type(x.obj)
        lvalue == emit_address(g, x.obj)
        base == IF obj.k = "ptr" \/ lvalue.v = NoValue THEN emit_expr(g, x.obj) ELSE lvalue
    IN  ptr_add_const(base, base.v, field_offset(IF obj.k = "ptr" THEN obj.to ELSE obj, x.n))

\* The address of an expression, NoValue for a temporary.
emit_address(g, x) ==
    CASE x.e = "ident" -> slot_addr(g, g.locals[x.name])
      [] x.e = "member" -> emit_member_address(g, x)
      [] x.e = "index" -> emit_index_address(g, x)
      [] x.e = "unary" /\ x.op = "deref" -> emit_expr(g, x.x)
      [] OTHER -> Value(g, NoValue)

emit_load_from_address(g, x) ==
    LET at == emit_address(g, x)
    IN  IF is_scalar(expr_type(x)) THEN load(at, scalar_type(expr_type(x)), at.v) ELSE at

RECURSIVE root_of(_)
root_of(x) == IF x.e \in {"member", "index"} THEN root_of(x.obj) ELSE x

mark_root_slot_escaping(g, x) ==
    LET root == root_of(x)
    IN  IF root.e = "ident" THEN [g EXCEPT !.esc = @ \cup {g.locals[root.name]}] ELSE g

(***************************************************************************)
(* Expressions.                                                            *)
(***************************************************************************)
emit_ident(g, x) ==
    LET at == slot_addr(g, g.locals[x.name])
        ty == g.ltypes[x.name]
    IN  IF is_scalar(ty) THEN load(at, scalar_type(ty), at.v) ELSE at

\* A condition is an i1: an error value's tag, a number or a pointer compared with zero.
emit_condition(g, x) ==
    LET value == emit_expr(g, x)
        ty == IF is_error_union(expr_type(x)) THEN "i32" ELSE value.types[value.v]
        tested == IF is_error_union(expr_type(x)) THEN load(value, "i32", value.v) ELSE value
        zero == zero_of(tested, ty)
    IN  After(value, IF ty = "i1" THEN value ELSE compare(zero, "ne", tested.v, zero.v))

\* && and ||: the right operand has a block of its own and the join a parameter.
emit_logical(g, x) ==
    LET lhs == emit_condition(g, x.l)
        rhs_block == LastBlock(lhs) + 1
        join == rhs_block + 1
        shortcut == join + 1
        made == create_block(add_block_param(create_blocks(lhs, 2), join, "i1"))
        merged == LastInst(made.blocks[join].params)
        split == IF x.op = "&&" THEN branch(made, lhs.v, rhs_block, shortcut)
                 ELSE branch(made, lhs.v, shortcut, rhs_block)
        known == const_int(set_insert_point(split, shortcut), "i1", IF x.op = "&&" THEN 0 ELSE 1)
        rhs == emit_condition(set_insert_point(jump(known, join, <<known.v>>), rhs_block), x.r)
    IN  Value(set_insert_point(jump(rhs, join, <<rhs.v>>), join), merged)

\* p + n, p - n: n scaled by the pointee's size.
emit_pointer_offset(g, ptr, amount, ptr_type, amount_type, subtract) ==
    LET wide == coerce_to(g, amount, usize_ty, signed_type(amount_type))
        step == IF ptr_type.k = "ptr" THEN SlotSizeOf(ptr_type.to) ELSE 1
        size == const_int(wide, usize_ty, step)
        scaled == IF step = 1 THEN wide ELSE binary(size, "mul", usize_ty, wide.v, size.v)
        moved == IF subtract THEN unary(scaled, "neg", usize_ty, scaled.v) ELSE scaled
    IN  ptr_add(moved, ptr, moved.v)

\* The instruction an operator is, by the signedness of its left operand.
MirOp(op, is_signed) ==
    CASE op = "+" -> "add" [] op = "-" -> "sub" [] op = "*" -> "mul"
      [] op = "&" -> "and" [] op = "|" -> "or"  [] op = "^" -> "xor" [] op = "<<" -> "shl"
      [] op = "/" -> IF is_signed THEN "sdiv" ELSE "udiv"
      [] op = "%" -> IF is_signed THEN "srem" ELSE "urem"
      [] op = ">>" -> IF is_signed THEN "ashr" ELSE "lshr"
      [] op = "==" -> "eq" [] op = "!=" -> "ne"
      [] op = "<" -> IF is_signed THEN "slt" ELSE "ult"
      [] op = "<=" -> IF is_signed THEN "sle" ELSE "ule"
      [] op = ">" -> IF is_signed THEN "sgt" ELSE "ugt"
      [] op = ">=" -> IF is_signed THEN "sge" ELSE "uge"

pointer_like(ty) == ty.k \in {"ptr", "anyptr"}

\* Bitset operators are set operators: union, difference, subset.
set_operation(g, op, ty, x, y) ==
    LET inverse == unary(g, "not", ty, y)
        masked == binary(g, "and", ty, y, x)
    IN  CASE op = "+" -> binary(g, "or", ty, x, y)
          [] op = "-" -> binary(inverse, "and", ty, x, inverse.v)
          [] op = "in" -> compare(masked, "eq", masked.v, x)

emit_binary(g, x) ==
    LET lhs == emit_expr(g, x.l)
        rhs == emit_expr(lhs, x.r)
        lt == expr_type(x.l)
        rt == expr_type(x.r)
        ty == rhs.types[lhs.v]
        op == MirOp(x.op, signed_type(lt))
    IN  CASE x.op \in {"&&", "||"} -> emit_logical(g, x)
          [] x.op \in {"+", "-"} /\ pointer_like(lt) ->
               emit_pointer_offset(rhs, lhs.v, rhs.v, lt, rt, x.op = "-")
          [] x.op = "+" /\ pointer_like(rt) ->
               emit_pointer_offset(rhs, rhs.v, lhs.v, rt, lt, FALSE)
          [] x.op \in {"+", "-", "in"} /\ "bitset" \in {lt.k, rt.k} ->
               set_operation(rhs, x.op, ty, lhs.v, rhs.v)
          [] op \in Comparisons -> compare(rhs, op, lhs.v, rhs.v)
          [] OTHER -> binary(rhs, op, ty, lhs.v, rhs.v)

emit_unary(g, x) ==
    LET operand == emit_expr(g, x.x)
        cond == emit_condition(g, x.x)
    IN  CASE x.op = "addr" -> emit_address(mark_root_slot_escaping(g, x.x), x.x)
          [] x.op = "deref" -> IF is_scalar(expr_type(x))
                               THEN load(operand, scalar_type(expr_type(x)), operand.v)
                               ELSE operand
          [] x.op = "!" -> unary(cond, "not", "i1", cond.v)
          [] x.op = "-" -> unary(operand, "neg", operand.types[operand.v], operand.v)
          [] x.op = "~" -> unary(operand, "not", operand.types[operand.v], operand.v)

\* target OP= value: the old value is read after the right side has run.
compound_assign_value(g, x, address, value, target) ==
    LET ty == scalar_type(target)
        old == load(g, ty, address)
        rhs == coerce_to(old, value, ty, signed_type(expr_type(x.r)))
    IN  IF pointer_like(target) /\ x.op \in {"+", "-"}
        THEN emit_pointer_offset(old, old.v, value, target, expr_type(x.r), x.op = "-")
        ELSE IF target.k = "bitset" /\ x.op \in {"+", "-"}
        THEN set_operation(rhs, x.op, ty, old.v, rhs.v)
        ELSE binary(rhs, MirOp(x.op, signed_type(target)), ty, old.v, rhs.v)

\* The target's place comes before the value.
emit_assign(g, x) ==
    LET target == expr_type(x.l)
        at == emit_address(g, x.l)
        value == emit_expr(at, x.r)
        result == IF x.op = "=" THEN coerce(value, value.v, target, expr_type(x.r))
                  ELSE compound_assign_value(value, x, at.v, value.v, target)
    IN  IF is_scalar(target) THEN Value(store(result, at.v, result.v), result.v)
        ELSE Value(store_aggregate_value(value, at.v, target, value.v, expr_type(x.r)), at.v)

emit_incr_decr(g, x) ==
    LET ty == expr_type(x.x)
        at == emit_address(g, x.x)
        old == load(at, scalar_type(ty), at.v)
        one == const_int(old, scalar_type(ty), 1)
        step == IF ty.k = "ptr" THEN SlotSizeOf(ty.to) ELSE 1
        new == IF pointer_like(ty) THEN ptr_add_const(old, old.v, IF x.inc THEN step ELSE -step)
               ELSE binary(one, IF x.inc THEN "add" ELSE "sub", scalar_type(ty), old.v, one.v)
    IN  Value(store(new, at.v, new.v), IF x.prefix THEN new.v ELSE old.v)

\* One element of an initializer: "undefined" leaves it, "default" is the zero fill around it
\* and the declared defaults.
store_element(g, base, offset, ty, x) ==
    LET at == ptr_add_const(g, base, offset)
        value == emit_expr(at, x)
    IN  CASE x.e = "undefined" -> g
          [] x.e = "default" -> IF type_has_field_defaults(ty)
                                THEN emit_field_defaults(at, at.v, ty, {}) ELSE g
          [] OTHER -> After(at, store_value(value, at.v, ty, value.v, expr_type(x)))

\* The arguments past the fixed ones, in an array behind a slice header.
emit_variadic_tail(g, args, elem) ==
    LET n == Len(args)
        header == new_slot(g, Words(2))
        zero == const_int(const_null(header), usize_ty, 0)
        room == new_slot(header, [SlotOf(elem) EXCEPT !.size = n * @])
        put(h, k) == store_element(h, room.v, (k - 1) * SlotSizeOf(elem), elem, args[k])
        stored == SX!FoldLeft(put, room, [k \in 1 .. n |-> k])
        count == const_int(stored, usize_ty, n)
    IN  IF n = 0 THEN Value(store_header(zero, header.v, zero.v - 1, zero.v), header.v)
        ELSE Value(store_header(count, header.v, room.v, count.v), header.v)

\* A direct call: the result slot, the arguments in order, the variadic tail, the defaults the
\* caller left out (evaluated without the caller's locals).  "r" is where the result is.
emit_call(g, x) ==
    LET fn == Functions[x.fn]
        via_sret == returns_via_sret(fn.returns)
        fixed == IF fn.variadic THEN Len(fn.params) - 1 ELSE Len(fn.params)
        start == IF via_sret THEN new_slot(g, multi_return_layout(fn.returns)) ELSE g
        param(n) == IF is_scalar(fn.params[n]) THEN scalar_type(fn.params[n]) ELSE "ptr"
        given(acc, n) ==
          LET arg == IF n <= Len(x.args) THEN x.args[n] ELSE fn.defaults[n]
              value == emit_expr(IF n <= Len(x.args) THEN acc.g
                                 ELSE [acc.g EXCEPT !.locals = <<>>, !.ltypes = <<>>], arg)
              fit == coerce_arg(value, value.v, fn.params[n], expr_type(arg))
              done == coerce_to(fit, fit.v, param(n), signed_type(expr_type(arg)))
          IN  [g |-> [done EXCEPT !.locals = g.locals, !.ltypes = g.ltypes],
               args |-> Append(acc.args, done.v)]
        passed == SX!FoldLeft(given, [g |-> start, args |-> IF via_sret THEN <<start.v>> ELSE <<>>],
                              [n \in 1 .. fixed |-> n])
        tail == emit_variadic_tail(passed.g, SubSeq(x.args, fixed + 1, Len(x.args)),
                                   fn.params[fixed + 1].elem)
        all == IF fn.variadic THEN [g |-> tail, args |-> Append(passed.args, tail.v)] ELSE passed
        called == call(all.g, x.fn, signature_for(fn.params, fn.returns).result, all.args)
    IN  After(start, After(passed.g, IF via_sret THEN Value(called, start.v) ELSE called))

\* The trap a dropped error value takes when it is Failed; PanicHelper is panic_helper's function.
PanicHelper == Len(Functions) + 1

emit_unhandled_error_check(g, err) ==
    LET panic == LastBlock(g) + 1
        ok == panic + 1
        tag == load(create_blocks(g, 2), "i32", err)
        zero == const_int(tag, "i32", 0)
        failed == compare(zero, "ne", tag.v, zero.v)
        split == set_insert_point(branch(failed, failed.v, panic, ok), panic)
    IN  set_insert_point(unreachable(call(split, PanicHelper, "void", <<err>>)), ok)

\* A call whose trailing error the caller left unbound yields what survives the check.
apply_dropped_error(g, x, result) ==
    LET returns == Functions[x.fn].returns
        n == Len(returns)
        err == ptr_add_const(g, result, multi_return_layout(returns).offsets[n])
        checked == emit_unhandled_error_check(err, err.v)
    IN  CASE g.cur = 0 \/ ~x.drop -> Value(g, result)
          [] x.drop /\ n = 1 -> const_int(checked, "i8", 0)
          [] x.drop /\ n > 2 -> Value(checked, result)
          [] OTHER -> IF is_scalar(returns[1]) THEN load(checked, scalar_type(returns[1]), result)
                      ELSE Value(checked, result)

emit_cast(g, x) ==
    LET target == expr_type(x)
        from == expr_type(x.x)
        source == emit_expr(g, x.x)
        raw == emit_expr(source, x.len[1])
        len == CASE x.len # <<>> -> coerce_to(raw, raw.v, usize_ty, signed_type(expr_type(x.len[1])))
                 [] from.k = "array" -> const_int(source, usize_ty, from.count)
                 [] OTHER -> const_int(source, usize_ty, 0)
        data == IF from.k = "slice" THEN load(len, "ptr", source.v) ELSE Value(len, source.v)
    IN  CASE target.k = "slice" /\ from.k = "slice" /\ x.len = <<>> -> source
          [] target.k = "slice" -> new_header(data, data.v, len.v)
          [] scalar_type(target) = "ptr" /\ from.k \in {"slice", "array"} ->
               coerce_arg(source, source.v, target, from)
          [] OTHER -> coerce_to(source, source.v, scalar_type(target), signed_type(from))

\* The header of a slice: its place, or the value of a temporary.
slice_header(g, x) ==
    LET at == emit_address(g, x) IN IF at.v = NoValue THEN emit_expr(g, x) ELSE at

emit_len(g, x) ==
    LET at == slice_header(g, x.x)
        len == ptr_add_const(at, at.v, PointerBytes)
    IN  IF expr_type(x.x).k = "array" THEN const_int(g, usize_ty, expr_type(x.x).count)
        ELSE load(len, usize_ty, len.v)
emit_slice_expr(g, x) ==
    LET obj == expr_type(x.obj)
        at == slice_header(g, x.obj)
        data == IF obj.k = "array" THEN emit_address(g, x.obj) ELSE load(at, "ptr", at.v)
        len == ptr_add_const(data, at.v, PointerBytes)
        total == IF obj.k = "array" THEN const_int(data, usize_ty, obj.count)
                 ELSE load(len, usize_ty, len.v)
        bound(h, y) == LET raw == emit_expr(h, y)
                       IN  coerce_to(raw, raw.v, usize_ty, signed_type(expr_type(y)))
        zero == const_int(total, usize_ty, 0)
        start == IF x.lo = <<>> THEN zero ELSE bound(zero, x.lo[1])
        end == IF x.hi = <<>> THEN Value(start, total.v) ELSE bound(start, x.hi[1])
        stride == const_int(end, usize_ty, size_of(obj.elem))
        base == new_slot(stride, Words(2))
        offset == binary(base, "mul", usize_ty, start.v, stride.v)
        first == ptr_add(offset, data.v, offset.v)
        stored == store(first, base.v, first.v)
        at_len == ptr_add_const(stored, base.v, PointerBytes)
        length == binary(at_len, "sub", usize_ty, end.v, start.v)
    IN  Value(store(length, at_len.v, length.v), base.v)

\* c ? x : y: a join with a parameter for a scalar, a result slot for an aggregate.
emit_ternary_shape(g, x) ==
    LET ty == expr_type(x)
        cond == emit_condition(g, x.c)
        then == LastBlock(cond) + 1
        join == then + 2
        made == create_blocks(cond, 3)
        result == IF is_scalar(ty) THEN add_block_param(made, join, scalar_type(ty))
                  ELSE new_slot(made, SlotOf(ty))
        side(h, b, y) ==
          LET value == emit_expr(set_insert_point(h, b), y)
              fit == coerce(value, value.v, ty, expr_type(y))
          IN  IF is_scalar(ty) THEN jump(fit, join, <<fit.v>>)
              ELSE jump(store_aggregate_value(value, result.v, ty, value.v, expr_type(y)), join, <<>>)
        sides == side(side(branch(result, cond.v, then, then + 1), then, x.x), then + 1, x.y)
    IN  Value(set_insert_point(sides, join), result.v)

\* Only the side sema selected is emitted.
emit_when_expr(g, x) ==
    LET side == IF x.sel THEN x.x ELSE x.y
        value == emit_expr(g, side)
    IN  IF is_scalar(expr_type(x)) THEN coerce(value, value.v, expr_type(x), expr_type(side))
        ELSE coerce_arg(value, value.v, expr_type(x), expr_type(side))

zeroed_slot(g, ty) ==
    LET base == new_slot(g, SlotOf(ty)) IN Value(zero_fill(base, base.v, size_of(ty)), base.v)

\* Fields of a struct literal, each [n, x], over a zeroed base; the rest take their defaults.
store_struct_fields(g, base, ty, items) ==
    LET put(h, item) == store_element(h, base, field_offset(ty, item.n), ty.fields[item.n].type, item.x)
        stored == SX!FoldLeft(put, g, items)
    IN  After(stored, IF type_has_field_defaults(ty)
                      THEN emit_field_defaults(stored, base, ty, {items[k].n : k \in DOMAIN items})
                      ELSE stored)

\* Elements of an array literal; a trailing fill is evaluated once.
store_array_elements(g, base, ty, items, fill) ==
    LET stride == size_of(ty.elem)
        n == Len(items)
        put(h, k) == store_element(h, base, (k - 1) * stride, ty.elem, items[k].x)
        plain == SX!FoldLeft(put, g, [k \in 1 .. n |-> k])
        emitted == emit_expr(plain, fill[1])
        value == coerce(emitted, emitted.v, ty.elem, expr_type(fill[1]))
        repeat(h, k) == LET at == ptr_add_const(h, base, (n + k - 1) * stride)
                        IN  IF is_scalar(ty.elem) THEN store(at, at.v, value.v)
                            ELSE copy_bytes(at, at.v, value.v, stride)
    IN  IF fill = <<>> \/ fill[1].e \in {"default", "undefined"} THEN plain
        ELSE SX!FoldLeft(repeat, value, [k \in 1 .. ty.count - n |-> k])

emit_braced_initializer(g, x) ==
    LET ty == expr_type(x)
        base == zeroed_slot(g, ty)
        filled == IF ty.k = "array" THEN store_array_elements(base, base.v, ty, x.items, x.fill)
                  ELSE store_struct_fields(base, base.v, ty, x.items)
    IN  After(base, After(filled, Value(filled, base.v)))

\* The tag and, over zeros, the payload's fields; emit_tag_only_variant is the case without.
emit_tagged_variant(g, x) ==
    LET ty == expr_type(x)
        payload == ty.variants[x.n]
        base == zeroed_slot(g, ty)
        tag == const_int(base, "i32", x.n - 1)
        tagged == store(tag, base.v, tag.v)
        at == ptr_add_const(tagged, base.v, payload_offset(ty))
    IN  Value(CASE payload = Void -> tagged
                [] payload.k = "struct" -> store_struct_fields(at, at.v, payload, x.items)
                [] OTHER -> store_element(at, at.v, 0, payload, x.items[1].x), base.v)

\* A value used where a union with it as the n-th variant is expected.
emit_variant_coercion(g, x) ==
    LET ty == expr_type(x)
        value == emit_expr(g, x.x)
        base == zeroed_slot(value, ty)
        tag == const_int(base, "i32", x.n - 1)
        at == ptr_add_const(store(tag, base.v, tag.v), base.v, payload_offset(ty))
    IN  Value(IF is_scalar(expr_type(x.x)) THEN store(at, at.v, value.v)
              ELSE copy_bytes(at, at.v, value.v, size_of(expr_type(x.x))), base.v)

(***************************************************************************)
(* Error values: tag 0 is Ok, tag 1 Failed; with two or more members the   *)
(* payload of Failed is a union of them with a tag of its own.             *)
(***************************************************************************)
IndexIn(seq, x) == CHOOSE n \in DOMAIN seq : seq[n] = x

\* Offset of a member's bytes within an error value.
member_offset(error) ==
    payload_offset(error)
    + (IF Len(error.members) = 1 THEN 0 ELSE payload_offset(FailedPayload(error)))

write_member(g, dest, caller, member, src, at) ==
    LET inner == ptr_add_const(g, dest, payload_offset(caller))
        tag == const_int(inner, "i32", IndexIn(caller.members, member) - 1)
        to == ptr_add_const(store(tag, inner.v, tag.v), dest, member_offset(caller))
        from == ptr_add_const(to, src, at)
    IN  After(to, copy_bytes(from, to.v, from.v, SlotSizeOf(member)))

\* Re-tags a Failed value of a strict subset: its inner tag is translated at run time unless the
\* callee has a single member.
emit_error_retag(g, dest, caller, src, callee) ==
    LET one == const_int(zero_fill(g, dest, size_of(caller)), "i32", 1)
        failed == store(one, dest, one.v)
        at == ptr_add_const(failed, src, payload_offset(callee))
        tag == load(at, "i32", at.v)
        merge == LastBlock(tag) + 1
        n == Len(callee.members)
        split == switch_on(create_blocks(tag, n + 2), tag.v, merge + 1,
                           [k \in 1 .. n |-> <<k - 1, merge + 1 + k>>])
        dead == unreachable(set_insert_point(split, merge + 1))
        arm(h, k) == jump(write_member(set_insert_point(h, merge + 1 + k), dest, caller,
                                       callee.members[k], src, member_offset(callee)), merge, <<>>)
    IN  IF failed.cur # 0 /\ n = 1
        THEN write_member(failed, dest, caller, callee.members[1], src, payload_offset(callee))
        ELSE After(dead, set_insert_point(SX!FoldLeft(arm, dead, [k \in 1 .. n |-> k]), merge))

\* Writes an error value: a whole error value is copied or re-tagged, a member becomes Failed.
emit_error_value_into(g, dest, error, x) ==
    LET zeroed == zero_fill(g, dest, size_of(error))
        ty == expr_type(x)
        whole == emit_expr(zeroed, x)
        one == const_int(zeroed, "i32", 1)
        failed == store(one, dest, one.v)
        inner == ptr_add_const(failed, dest, payload_offset(error))
        tag == const_int(inner, "i32", IndexIn(error.members, ty) - 1)
        tagged == IF Len(error.members) = 1 THEN failed ELSE store(tag, inner.v, tag.v)
        member == emit_expr(tagged, x)
        at == ptr_add_const(member, dest, member_offset(error))
    IN  CASE zeroed.cur = 0 -> zeroed
          [] is_error_union(ty) /\ ty.members = error.members ->
               copy_bytes(whole, dest, whole.v, size_of(ty))
          [] is_error_union(ty) /\ ty.members # error.members ->
               After(whole, emit_error_retag(whole, dest, error, whole.v, ty))
          [] OTHER -> IF is_scalar(ty) THEN store(at, at.v, member.v)
                      ELSE copy_bytes(at, at.v, member.v, size_of(ty))

(***************************************************************************)
(* Deferred statements.                                                    *)
(***************************************************************************)
emit_defers_in_scope(g, scope) == emit_stmts(g, SX!Reverse(scope.stmts))

RECURSIVE emit_defer_scopes(_, _)
emit_defer_scopes(g, scopes) ==
    IF g.cur = 0 \/ scopes = <<>> THEN g
    ELSE emit_defer_scopes(emit_defers_in_scope(g, SX!Last(scopes)), SX!Front(scopes))

\* Every open scope, innermost first; the list is the one at the return, whatever the deferred
\* statements push and pop.
emit_defers_for_return(g) == emit_defer_scopes(g, g.defers)

\* The scopes up to the innermost loop body.
MutEmit_defers_for_loop_exit(g) == emit_defers_in_scope(g, g.defers[Len(g.defers)])

emit_defers_for_loop_exit(g) ==
    LET n == Len(g.defers)
        inside == {k \in 1 .. n : \A j \in k + 1 .. n : ~g.defers[j].loop}
        first == CHOOSE k \in inside : \A j \in inside : k <= j
    IN  emit_defer_scopes(g, SubSeq(g.defers, first, n))

(***************************************************************************)
(* try.                                                                    *)
(***************************************************************************)
\* On Failed: the error goes to the caller's last return slot, the deferred statements run and
\* the function returns; the insertion point is left where the call succeeded.
emit_try_propagation(g, err, callee) ==
    LET caller == SX!Last(g.returns)
        at == SX!Last(multi_return_layout(g.returns).offsets)
        propagate == LastBlock(g) + 1
        tag == load(create_blocks(g, 2), "i32", err)
        zero == const_int(tag, "i32", 0)
        failed == compare(zero, "ne", tag.v, zero.v)
        split == set_insert_point(branch(failed, failed.v, propagate, propagate + 1), propagate)
        cleared == IF at > 0 THEN zero_fill(split, g.sret, at) ELSE split
        dest == ptr_add_const(cleared, g.sret, at)
        moved == IF callee.members = caller.members
                 THEN copy_bytes(dest, dest.v, err, size_of(caller))
                 ELSE emit_error_retag(dest, dest.v, caller, err, callee)
    IN  After(split, After(moved, set_insert_point(ret(emit_defers_for_return(moved), <<>>), propagate + 1)))

emit_try(g, x) ==
    LET returns == Functions[x.call.fn].returns
        blob == emit_expr(g, x.call)
        err == ptr_add_const(blob, blob.v, SX!Last(multi_return_layout(returns).offsets))
        ok == emit_try_propagation(err, err.v, SX!Last(returns))
    IN  After(blob, After(ok,
          CASE Len(returns) = 1 -> const_int(ok, "i8", 0)
            [] Len(returns) > 1 /\ is_scalar(returns[1]) -> load(ok, scalar_type(returns[1]), blob.v)
            [] OTHER -> Value(ok, blob.v)))

(***************************************************************************)
(* match and switch.                                                       *)
(***************************************************************************)
Bind(g, name, slot, ty) ==
    [g EXCEPT !.locals = (name :> slot) @@ @, !.ltypes = (name :> ty) @@ @]
RestoreLocals(g, saved) == [g EXCEPT !.locals = saved.locals, !.ltypes = saved.ltypes]

\* A fresh local with a copy of the value at an address.
bind_copy(g, name, ty, source) ==
    LET made == new_slot(g, SlotOf(ty))
        value == load(made, scalar_type(ty), source)
    IN  Bind(IF is_scalar(ty) THEN store(value, made.v, value.v)
             ELSE copy_bytes(made, made.v, source, size_of(ty)), name, LastSlot(made), ty)

\* .Variant(v) binds a copy of the payload, .Variant(&v) a pointer into the dispatched copy.
bind_variant_capture(g, base, union, arm) ==
    LET payload == union.variants[arm.pat[1]]
        at == ptr_add_const(g, base, payload_offset(union))
        made == new_slot(at, Words(1))
    IN  IF arm.ref
        THEN Bind(store(made, made.v, at.v), arm.cap[1], LastSlot(made), [k |-> "ptr", to |-> payload])
        ELSE bind_copy(at, arm.cap[1], payload, at.v)

has_default(arms) == \E n \in DOMAIN arms : arms[n].pat = <<>>
jump_if_open(g, target) == After(g, IF block_is_terminated(g) THEN g ELSE jump(g, target, <<>>))

\* What an arm's body is lowered to.  A switch's arm is a statement; a match's yields its value, if
\* it has one, to the join: as the parameter of "end", or as a copy to the result slot.
emit_arm(g, body, join) ==
    LET value == emit_expr(g, body)
        fit == coerce(value, value.v, join.ty, expr_type(body))
    IN  IF join.stmt THEN jump_if_open(emit_stmt(g, body), join.end)
        ELSE IF join.ty = Void THEN jump(value, join.end, <<>>)
        ELSE IF is_scalar(join.ty) THEN jump(fit, join.end, <<fit.v>>)
        ELSE jump(copy_bytes(value, join.result, value.v, size_of(join.ty)), join.end, <<>>)

\* Blocks and cases for the arms in order, then each arm's code from the locals of the dispatch,
\* the default's last.  A union is dispatched on a copy; an error value on its Failed payload.
emit_arm_dispatch(g, operand, arms, default_block, join) ==
    LET wrapper == expr_type(operand)
        ty == IF is_error_union(wrapper) THEN FailedPayload(wrapper) ELSE wrapper
        whole == emit_expr(g, operand)
        inner == IF is_error_union(wrapper) THEN ptr_add_const(whole, whole.v, payload_offset(wrapper))
                 ELSE whole
        copy == new_slot(inner, SlotOf(ty))
        copied == [copy_bytes(copy, copy.v, inner.v, SlotSizeOf(ty)) EXCEPT !.esc = @ \cup {LastSlot(copy)}]
        scrutinee == CASE ty.k = "union" -> load(copied, "i32", copy.v)
                       [] is_error_union(wrapper) /\ is_scalar(ty) -> load(inner, scalar_type(ty), inner.v)
                       [] OTHER -> whole
        cased == SelectSeq(arms, LAMBDA arm : arm.pat # <<>>)
        others == SelectSeq(arms, LAMBDA arm : arm.pat = <<>>)
        first == LastBlock(scrutinee)
        split == switch_on(create_blocks(scrutinee, Len(cased)), scrutinee.v, default_block,
                           [n \in DOMAIN cased |->
                              <<cased[n].pat[1] - (IF ty.k = "union" THEN 1 ELSE 0), first + n>>])
        arm_code(h, n) ==
          LET at == RestoreLocals(set_insert_point(h, first + n), g)
          IN  emit_arm(IF cased[n].cap # <<>> THEN bind_variant_capture(at, copy.v, ty, cased[n])
                       ELSE at, cased[n].body, join)
        done == SX!FoldLeft(arm_code, split, [n \in DOMAIN cased |-> n])
        default == RestoreLocals(set_insert_point(done, default_block), g)
    IN  After(split, After(done, RestoreLocals(IF others = <<>> THEN done ELSE emit_arm(default, others[1].body, join), g)))

emit_switch(g, s) ==
    LET end == LastBlock(g) + 1
        made == create_blocks(g, IF has_default(s.arms) THEN 2 ELSE 1)
        join == [stmt |-> TRUE, end |-> end, ty |-> Void, result |-> NoValue]
    IN  set_insert_point(emit_arm_dispatch(made, s.x, s.arms, LastBlock(made), join), end)

\* Every arm of a match yields its value: a parameter of the join, or a copy to a result slot; of
\* a match of nothing the value is a throwaway constant.
emit_match(g, x) ==
    LET ty == expr_type(x)
        end == LastBlock(g) + 1
        joined == create_block(g)
        result == CASE ty = Void -> joined
                    [] ty # Void /\ is_scalar(ty) -> add_block_param(joined, end, scalar_type(ty))
                    [] OTHER -> new_slot(joined, SlotOf(ty))
        made == create_block(result)
        join == [stmt |-> FALSE, end |-> end, ty |-> ty, result |-> result.v]
        done == emit_arm_dispatch(made, x.x, x.arms, LastBlock(made), join)
        sealed == IF has_default(x.arms) THEN done
                  ELSE unreachable(set_insert_point(done, LastBlock(made)))
        after == set_insert_point(sealed, end)
    IN  After(done, IF ty = Void THEN const_int(after, "i32", 0) ELSE Value(after, result.v))

\* emit_expr_natural: one case per form.
emit_expr(g, x) ==
    LET ty == expr_type(x)
    IN  After(g,
          CASE x.e = "int" -> const_int(g, scalar_type(ty), x.n)
          [] x.e = "nil" -> const_null(g)
          [] x.e = "ident" -> emit_ident(g, x)
          [] x.e = "binary" -> emit_binary(g, x)
          [] x.e = "unary" -> emit_unary(g, x)
          [] x.e = "assign" -> emit_assign(g, x)
          [] x.e = "incr" -> emit_incr_decr(g, x)
          [] x.e = "call" -> LET made == emit_call(g, x) IN apply_dropped_error(made, x, made.v)
          [] x.e = "try" -> emit_try(g, x)
          [] x.e \in {"member", "index"} -> emit_load_from_address(g, x)
          [] x.e = "cast" -> emit_cast(g, x)
          [] x.e = "len" -> emit_len(g, x)
          [] x.e = "slice" -> emit_slice_expr(g, x)
          [] x.e = "sizeof" -> const_int(g, usize_ty, size_of(x.of))
          [] x.e = "ternary" -> emit_ternary_shape(g, x)
          [] x.e = "when" -> emit_when_expr(g, x)
          [] x.e = "braced" -> emit_braced_initializer(g, x)
          [] x.e = "variant" -> emit_tagged_variant(g, x)
          [] x.e = "wrapped" -> emit_variant_coercion(g, x)
          [] x.e = "match" -> emit_match(g, x)
          [] x.e = "default" -> IF is_scalar(ty) THEN zero_of(g, scalar_type(ty))
                                ELSE LET made == new_slot(g, SlotOf(ty))
                                     IN  Value(default_fill(made, made.v, ty), made.v))

(***************************************************************************)
(* Statements.                                                             *)
(***************************************************************************)
\* The name is bound before its initializer is lowered.
emit_var_decl(g, s) ==
    LET made == add_slot(g, SlotOf(s.ty))
        slot == LastSlot(made)
        bound == Bind(made, s.name, slot, s.ty)
        x == s.init[1]
        value == emit_expr(bound, x)
        at == slot_addr(value, slot)
    IN  CASE s.init = <<>> -> zero_slot(bound, slot, s.ty)
          [] s.init # <<>> /\ x.e = "undefined" -> bound
          [] s.init # <<>> /\ x.e = "default" /\ ~is_scalar(s.ty) -> zero_slot(bound, slot, s.ty)
          [] OTHER -> store_value(at, at.v, s.ty, value.v, expr_type(x))

\* const a, b = f(): "_" binds nothing; the last error may be checked or propagated instead.
emit_var_decl_group(g, s) ==
    LET returns == Functions[s.call.fn].returns
        offsets == multi_return_layout(returns).offsets
        blob == emit_call(g, s.call)
        err == ptr_add_const(blob, blob.v, SX!Last(offsets))
        settled == CASE s.mode = "all" -> blob
                     [] s.mode = "drop" -> emit_unhandled_error_check(err, err.v)
                     [] s.mode = "try" -> emit_try_propagation(err, err.v, SX!Last(returns))
        bind(h, n) == LET at == ptr_add_const(h, blob.v, offsets[n])
                      IN  IF s.names[n] = "_" THEN h ELSE bind_copy(at, s.names[n], returns[n], at.v)
    IN  SX!FoldLeft(bind, settled, [n \in DOMAIN s.names |-> n])

\* One slot of a return list; the last of a fallible function takes an error member as well.
store_return_slot(g, dest, ty, x, is_last) ==
    LET value == emit_expr(g, x)
    IN  IF is_last /\ is_error_union(ty) THEN emit_error_value_into(g, dest, ty, x)
        ELSE store_value(value, dest, ty, value.v, expr_type(x))

\* return f() for a return list: the callee's blob, copied or rebuilt slot by slot.
forward_returns(g, x) ==
    LET callee == Functions[x.fn].returns
        from == multi_return_layout(callee).offsets
        to == multi_return_layout(g.returns)
        blob == emit_expr(g, x)
        slot(h, n) ==
          LET source == ptr_add_const(h, blob.v, from[n])
              dest == ptr_add_const(source, g.sret, to.offsets[n])
              value == IF is_scalar(callee[n]) THEN load(dest, scalar_type(callee[n]), source.v)
                       ELSE Value(dest, source.v)
              fit == IF is_scalar(g.returns[n]) THEN coerce_arg(value, value.v, g.returns[n], callee[n])
                     ELSE value
          IN  store_value(fit, dest.v, g.returns[n], fit.v, callee[n])
    IN  IF callee = g.returns THEN copy_bytes(blob, g.sret, blob.v, to.size)
        ELSE SX!FoldLeft(slot, blob, [n \in DOMAIN g.returns |-> n])

store_returns(g, values, n_last) ==
    LET offsets == multi_return_layout(g.returns).offsets
        put(h, n) == LET dest == ptr_add_const(h, g.sret, offsets[n])
                     IN  store_return_slot(dest, dest.v, g.returns[n], values[n], n = n_last)
    IN  SX!FoldLeft(put, g, [n \in DOMAIN values |-> n])

\* The values are settled before the deferred statements run.
emit_return(g, s) ==
    LET n == Len(g.returns)
        value == emit_expr(g, s.values[1])
        fit == coerce(value, value.v, g.returns[1], expr_type(s.values[1]))
    IN  CASE s.values = <<>> -> ret(emit_defers_for_return(g), <<>>)
          [] n > 1 /\ Len(s.values) = 1 ->
               ret(emit_defers_for_return(forward_returns(g, s.values[1])), <<>>)
          [] returns_via_sret(g.returns) /\ Len(s.values) = n ->
               ret(emit_defers_for_return(store_returns(g, s.values, n)), <<>>)
          [] OTHER -> ret(emit_defers_for_return(fit), <<fit.v>>)

emit_return_ok(g, s) ==
    LET zeroed == zero_fill(g, g.sret, multi_return_layout(g.returns).size)
        stored == store_returns(zeroed, s.values, 0)
    IN  After(stored, ret(emit_defers_for_return(stored), <<>>))

emit_return_err(g, s) ==
    LET at == SX!Last(multi_return_layout(g.returns).offsets)
        zeroed == IF at > 0 THEN zero_fill(g, g.sret, at) ELSE g
        dest == ptr_add_const(zeroed, g.sret, at)
        moved == emit_error_value_into(dest, dest.v, SX!Last(g.returns), s.x)
    IN  After(moved, ret(emit_defers_for_return(moved), <<>>))

emit_if(g, s) ==
    LET cond == emit_condition(g, s.c)
        then == LastBlock(cond) + 1
        end == IF s.else = <<>> THEN then + 1 ELSE then + 2
        split == branch(create_blocks(cond, end - then + 1), cond.v, then, then + 1)
        first == jump_if_open(emit_stmt(set_insert_point(split, then), s.then), end)
        both == IF s.else = <<>> THEN first
                ELSE jump_if_open(emit_stmt(set_insert_point(first, then + 1), s.else[1]), end)
    IN  After(cond, After(first, set_insert_point(both, end)))

\* A loop body: its block is the next scope a break or continue stops at.
emit_loop_body(g, body, header, exit) ==
    LET inside == emit_stmt([g EXCEPT !.loops = Append(@, [header |-> header, exit |-> exit]),
                                      !.nextLoop = TRUE], body)
    IN  After(inside, jump_if_open([inside EXCEPT !.loops = g.loops], header))

emit_while(g, s) ==
    LET header == LastBlock(g) + 1
        cond == emit_condition(set_insert_point(jump(create_blocks(g, 3), header, <<>>), header), s.c)
        split == set_insert_point(branch(cond, cond.v, header + 1, header + 2), header + 1)
    IN  After(split, set_insert_point(emit_loop_body(split, s.body, header, header + 2), header + 2))

\* The counted loop both for forms share: header, body, step, exit; "continue" goes to the step.
\* The names of an iteration are bound between its two halves.
enter_counted_loop(g, index, limit, less) ==
    LET header == LastBlock(g) + 1
        at == slot_addr(set_insert_point(jump(create_blocks(g, 4), header, <<>>), header), index)
        i == load(at, usize_ty, at.v)
        more == compare(i, less, i.v, limit)
    IN  set_insert_point(branch(more, more.v, header + 1, header + 3), header + 1)

emit_counted_loop(g, entered, index, body) ==
    LET header == LastBlock(g) + 1
        looped == RestoreLocals(emit_loop_body(entered, body, header + 2, header + 3), g)
        from == slot_addr(set_insert_point(looped, header + 2), index)
        old == load(from, usize_ty, from.v)
        one == const_int(old, usize_ty, 1)
        new == binary(one, "add", usize_ty, old.v, one.v)
        to == slot_addr(new, index)
    IN  After(looped, set_insert_point(jump(store(to, to.v, new.v), header, <<>>), header + 3))

bind_index(g, name, index) == IF name = "_" THEN g ELSE Bind(g, name, index, Scalar("usize"))

\* for i, x in xs: the data pointer and the count are read once, before the loop.
emit_for_in(g, s) ==
    LET over == expr_type(s.x)
        header == slice_header(g, s.x)
        data == IF over.k = "array" THEN emit_address(g, s.x) ELSE load(header, "ptr", header.v)
        len == ptr_add_const(data, header.v, PointerBytes)
        count == IF over.k = "array" THEN const_int(data, usize_ty, over.count)
                 ELSE load(len, usize_ty, len.v)
        base == new_slot(count, Words(1))
        index == LastSlot(base)
        zero == const_int(base, usize_ty, 0)
        ready == add_slot(store(zero, base.v, zero.v), IF s.ref THEN Words(1) ELSE SlotOf(over.elem))
        slot == index + 1
        element(h) ==
          LET from == slot_addr(h, index)
              i == load(from, usize_ty, from.v)
              size == const_int(i, usize_ty, size_of(over.elem))
              offset == binary(size, "mul", usize_ty, i.v, size.v)
              at == ptr_add(offset, data.v, offset.v)
              value == IF ~s.ref /\ is_scalar(over.elem) THEN load(at, scalar_type(over.elem), at.v) ELSE at
              to == slot_addr(value, slot)
          IN  Bind(bind_index(IF s.ref \/ is_scalar(over.elem) THEN store(to, to.v, value.v)
                              ELSE copy_bytes(to, to.v, at.v, size_of(over.elem)), s.index, index),
                   s.name, slot, IF s.ref THEN [k |-> "ptr", to |-> over.elem] ELSE over.elem)
        entered == element(enter_counted_loop(ready, index, count.v, "ult"))
    IN  After(ready, emit_counted_loop(ready, entered, index, s.body))

\* for i, x in a..b: the counter has the width of usize, the element the range's type.
emit_for_in_range(g, s) ==
    LET ty == expr_type(s.hi)
        sign == signed_type(ty)
        made == add_slot(g, Words(1))
        index == LastSlot(made)
        low == IF s.lo = <<>> THEN const_int(made, scalar_type(ty), 0) ELSE emit_expr(made, s.lo[1])
        wide == coerce_to(low, low.v, usize_ty, sign)
        base == slot_addr(wide, index)
        high == emit_expr(store(base, base.v, wide.v), s.hi)
        limit == coerce_to(high, high.v, usize_ty, sign)
        ready == IF s.name = "_" THEN limit ELSE add_slot(limit, SlotOf(ty))
        slot == LastSlot(ready)
        element(h) ==
          LET from == slot_addr(h, index)
              i == load(from, usize_ty, from.v)
              value == coerce_to(i, i.v, scalar_type(ty), sign)
              to == slot_addr(value, slot)
          IN  IF s.name = "_" THEN bind_index(h, s.index, index)
              ELSE Bind(bind_index(store(to, to.v, value.v), s.index, index), s.name, slot, ty)
        entered == element(enter_counted_loop(ready, index, limit.v, IF sign THEN "slt" ELSE "ult"))
    IN  After(ready, emit_counted_loop(ready, entered, index, s.body))

\* A block: a scope of names and of deferred statements, which run when its end is reached.
emit_block(g, s) ==
    LET inside == emit_stmts([g EXCEPT !.nextLoop = FALSE,
                                       !.defers = Append(@, [stmts |-> <<>>, loop |-> g.nextLoop])], s.body)
        closed == IF block_is_terminated(inside) THEN inside
                  ELSE emit_defers_in_scope(inside, SX!Last(inside.defers))
    IN  After(inside, RestoreLocals([closed EXCEPT !.defers = g.defers], g))

emit_stmt(g, s) ==
    LET top == Len(g.defers)
        loop == SX!Last(g.loops)
    IN  IF g.cur = 0 \/ block_is_terminated(g) THEN g
        ELSE CASE s.s = "block" -> emit_block(g, s)
               [] s.s = "var" -> emit_var_decl(g, s)
               [] s.s = "group" -> emit_var_decl_group(g, s)
               [] s.s = "expr" -> emit_expr(g, s.x)
               [] s.s = "return" -> emit_return(g, s)
               [] s.s = "return_ok" -> emit_return_ok(g, s)
               [] s.s = "return_err" -> emit_return_err(g, s)
               [] s.s = "if" -> emit_if(g, s)
               [] s.s = "while" -> emit_while(g, s)
               [] s.s = "for" -> emit_for_in(g, s)
               [] s.s = "range" -> emit_for_in_range(g, s)
               [] s.s = "break" -> jump(emit_defers_for_loop_exit(g), loop.exit, <<>>)
               [] s.s = "continue" -> jump(emit_defers_for_loop_exit(g), loop.header, <<>>)
               [] s.s = "defer" -> [g EXCEPT !.defers[top].stmts = Append(@, s.body)]
               [] s.s = "switch" -> emit_switch(g, s)
               [] s.s = "when" -> emit_stmts(g, IF s.sel THEN s.then ELSE s.else)

\* Binds a parameter to a slot of its own: a scalar is stored, an aggregate copied in.
bind_param(g, name, ty, value) ==
    LET at == new_slot(g, SlotOf(ty))
    IN  Bind(IF is_scalar(ty) THEN store(at, at.v, value)
             ELSE copy_bytes(at, at.v, value, size_of(ty)), name, LastSlot(at), ty)

\* fn: [names, params, returns, body].  The result is the function of MirFunc.
emit_body(fn) ==
    LET sig == signature_for(fn.params, fn.returns)
        via_sret == returns_via_sret(fn.returns)
        entry == [create_block([blocks |-> <<>>, types |-> <<>>, slots |-> <<>>, result |-> sig.result,
                                cur |-> 1, v |-> NoValue, locals |-> <<>>, ltypes |-> <<>>,
                                defers |-> <<>>, loops |-> <<>>, nextLoop |-> FALSE, sret |-> NoValue,
                                returns |-> fn.returns, esc |-> {}]) EXCEPT !.cur = 1]
        hidden == IF via_sret THEN add_block_param(entry, 1, "ptr") ELSE entry
        param(h, n) == LET p == add_block_param(h, 1, IF is_scalar(fn.params[n])
                                                      THEN scalar_type(fn.params[n]) ELSE "ptr")
                       IN  bind_param(p, fn.names[n], fn.params[n], p.v)
        bound == SX!FoldLeft(param, [hidden EXCEPT !.sret = hidden.v], [n \in DOMAIN fn.params |-> n])
        lowered == emit_stmt(bound, fn.body)
        sealed == CASE block_is_terminated(lowered) -> lowered
                    [] ~block_is_terminated(lowered) /\ fn.returns = <<>> -> ret(lowered, <<>>)
                    [] OTHER -> unreachable(lowered)
    IN  [blocks |-> sealed.blocks, types |-> sealed.types, result |-> sealed.result,
         slots |-> [n \in DOMAIN sealed.slots |-> [sealed.slots[n] EXCEPT !.esc = n \in sealed.esc]]]
=============================================================================
