------------------------------ MODULE WasmEmit ------------------------------
(***************************************************************************)
(* The instructions compiler/backend_wasm.cpp emits for one function: its  *)
(* frame, its locals and the code of every MIR instruction.  Code is       *)
(* written folded, the way WebAssembly's text format nests it: what the    *)
(* backend pushes for an operand is the operand.                           *)
(*                                                                         *)
(* An expression is [o, ...]: "local", "const", "sp" (the stack pointer    *)
(* global), "top" (what a call left on the operand stack), "load",         *)
(* "select", a conversion or an operator with its class "c", i32 or i64.   *)
(* A statement is [w, ...].  Locals count from 0; the context "c" holds    *)
(* the function and where its values live.  C variadic calls, floats, asm  *)
(* and the relocations of object files are left out.                       *)
(***************************************************************************)
EXTENDS MirFunc, TLC
LOCAL SX == INSTANCE SequencesExt

is_i64_class(ty) == ty = "i64"
val_type(ty) == IF is_i64_class(ty) THEN "i64" ELSE "i32"

\* I1 is kept at the width of a byte.
narrow_mask(ty) == IF ty \in {"i1", "i8"} THEN 2^ByteBits - 1 ELSE 0

\* Every slot at the next offset of its alignment.
layout_frame(f) ==
    LET up(n, align) == ((n + align - 1) \div align) * align
        place(acc, s) == LET at == up(acc.end, s.align)
                         IN  [offset |-> Append(acc.offset, at), end |-> at + s.size]
        laid == SX!FoldLeft(place, [offset |-> <<>>, end |-> 0], f.slots)
    IN  [offset |-> laid.offset, size |-> up(laid.end, 16)]

\* Parameters are the first locals; then the frame's two, the dispatch state, one local for every
\* other value and a staging local for every block parameter.
assign_locals(f, needs_frame, use_dispatch) ==
    LET params == f.blocks[1].params
        values == SelectSeq([v \in DOMAIN f.types |-> v], LAMBDA v : ~SX!Contains(params, v))
        staged == SX!FlattenSeq([b \in 1 .. Len(f.blocks) - 1 |-> f.blocks[b + 1].params])
        state == Len(params) + (IF needs_frame THEN 2 ELSE 0)
        next == state + (IF use_dispatch THEN 1 ELSE 0)
        place(s, v) == SX!IndexFirstSubSeq(<<v>>, s) - 1
    IN  [saved |-> Len(params), frame |-> Len(params) + 1, state |-> state,
         value |-> [v \in DOMAIN f.types |->
                      IF SX!Contains(params, v) THEN place(params, v) ELSE next + place(values, v)],
         staging |-> [v \in SX!ToSet(staged) |-> next + Len(values) + place(staged, v)]]

Const(class, n) == [o |-> "const", c |-> class, n |-> n]
Local(n) == [o |-> "local", n |-> n]
Op1(o, x) == [o |-> o, x |-> x]
Op2(o, class, x, y) == [o |-> o, c |-> class, x |-> x, y |-> y]
SetLocal(n, x) == [w |-> "set", to |-> n, x |-> x]
SetSp(x) == [w |-> "setsp", x |-> x]
Sp == [o |-> "sp"]
Top == [o |-> "top"]

get(c, v) == Local(c.at.value[v])
set(c, v, x) == <<SetLocal(c.at.value[v], x)>>
ty_of(c, v) == c.f.types[v]

mask_narrow(ty, x) ==
    IF narrow_mask(ty) = 0 THEN x ELSE Op2("and", "i32", x, Const("i32", narrow_mask(ty)))

wrap(x) == Op1("wrap", x)
push_signed64(c, v) ==
    CASE ty_of(c, v) \in {"i1", "i8"} -> Op1("extend_s", Op1("extend8_s", get(c, v)))
      [] is_i64_class(ty_of(c, v)) -> get(c, v)
      [] OTHER -> Op1("extend_s", get(c, v))
push_unsigned64(c, v) ==
    IF is_i64_class(ty_of(c, v)) THEN get(c, v) ELSE Op1("extend_u", get(c, v))
push_address(c, v) == IF is_i64_class(ty_of(c, v)) THEN wrap(get(c, v)) ELSE get(c, v)

\* A value of one class where the other is declared.
coerce_class(from, to, x) ==
    CASE is_i64_class(from) /\ ~is_i64_class(to) -> wrap(x)
      [] ~is_i64_class(from) /\ is_i64_class(to) -> Op1("extend_u", x)
      [] OTHER -> x

\* Compared as they lie in their locals: a narrow operand is zero-extended there.
emit_icmp(c, inst) ==
    set(c, inst.res, Op2(inst.op, val_type(ty_of(c, inst.a)), get(c, inst.a), get(c, inst.b)))

\* What a call returns is made canonical before it is kept.
emit_call(c, inst) ==
    LET sig == Externs[inst.a]
        arg(k) == coerce_class(ty_of(c, inst.args[k]),
                               IF k \in DOMAIN sig.params THEN sig.params[k] ELSE ty_of(c, inst.args[k]),
                               get(c, inst.args[k]))
        called == [w |-> "call", inst |-> inst, args |-> [k \in DOMAIN inst.args |-> arg(k)]]
        result == mask_narrow(inst.ty, coerce_class(sig.result, inst.ty, Top))
    IN  IF inst.res # NoValue THEN <<called>> \o set(c, inst.res, result)
        ELSE IF sig.result # "void" THEN <<called, [w |-> "drop"]>> ELSE <<called>>

\* Add, Sub and Mul can leave a narrow width, And, Or and Xor of canonical operands cannot.
emit_arithmetic(c, inst) ==
    LET x == Op2(inst.op, val_type(inst.ty), get(c, inst.a), get(c, inst.b))
    IN  set(c, inst.res, IF inst.op \in {"add", "sub", "mul"} THEN mask_narrow(inst.ty, x) ELSE x)

\* Signed division is done at 64 bits, so that the least number over -1 wraps.
emit_division(c, inst) ==
    LET wide == Op2(inst.op, "i64", push_signed64(c, inst.a), push_signed64(c, inst.b))
    IN  CASE inst.op \in {"udiv", "urem"} ->
               set(c, inst.res, Op2(inst.op, val_type(inst.ty), get(c, inst.a), get(c, inst.b)))
          [] inst.op \in {"sdiv", "srem"} /\ is_i64_class(inst.ty) -> set(c, inst.res, wide)
          [] OTHER -> set(c, inst.res, mask_narrow(inst.ty, wrap(wide)))

\* Narrow shifts are done at 64 bits.
emit_shift(c, inst) ==
    LET x == IF inst.op = "ashr" THEN push_signed64(c, inst.a) ELSE push_unsigned64(c, inst.a)
        wide == Op2(inst.op, "i64", x, push_unsigned64(c, inst.b))
    IN  set(c, inst.res, CASE is_i64_class(inst.ty) -> wide
                           [] ~is_i64_class(inst.ty) /\ inst.op = "lshr" -> wrap(wide)
                           [] OTHER -> mask_narrow(inst.ty, wrap(wide)))

emit_not(c, inst) ==
    LET class == val_type(inst.ty)
    IN  set(c, inst.res,
            IF inst.ty = "i1" THEN Op2("xor", "i32", get(c, inst.a), Const("i32", 1))
            ELSE mask_narrow(inst.ty, Op2("xor", class, get(c, inst.a), Const(class, -1))))

emit_neg(c, inst) ==
    LET class == val_type(inst.ty)
    IN  set(c, inst.res, mask_narrow(inst.ty, Op2("sub", class, Const(class, 0), get(c, inst.a))))

emit_conversion(c, inst) ==
    LET from == ty_of(c, inst.a)
        narrowed == IF is_i64_class(from) THEN wrap(get(c, inst.a)) ELSE get(c, inst.a)
        signed == IF from \in {"i1", "i8"} THEN Op1("extend8_s", get(c, inst.a)) ELSE get(c, inst.a)
    IN  set(c, inst.res,
            CASE inst.op = "trunc" -> mask_narrow(inst.ty, narrowed)
              [] inst.op = "sext" -> IF is_i64_class(inst.ty) THEN Op1("extend_s", signed)
                                     ELSE mask_narrow(inst.ty, signed)
              [] OTHER -> mask_narrow(inst.ty, coerce_class(from, inst.ty, get(c, inst.a))))

\* Loads and stores of i1 and i8 move a byte, which a load extends with zeros.
access_bytes(ty) == store_size(ty)

emit_return(c, inst) ==
    (IF c.needs_frame THEN <<SetSp(Local(c.at.saved))>> ELSE <<>>)
    \o <<[w |-> "return", xs |-> [k \in DOMAIN inst.args |-> get(c, inst.args[k])]]>>

emit_inst(c, inst) ==
    CASE inst.op = "constint" ->
           set(c, inst.res, Const(val_type(inst.ty), inst.imm % 2^type_bits(inst.ty)))
      [] inst.op = "constnull" -> set(c, inst.res, Const("i32", 0))
      [] inst.op = "slotaddr" ->
           set(c, inst.res, Op2("add", "i32", Local(c.at.frame), Const("i32", c.frame.offset[inst.a])))
      [] inst.op = "load" ->
           set(c, inst.res, [o |-> "load", n |-> access_bytes(inst.ty), x |-> get(c, inst.a)])
      [] inst.op = "store" ->
           <<[w |-> "store", n |-> access_bytes(ty_of(c, inst.b)), to |-> get(c, inst.a), x |-> get(c, inst.b)]>>
      [] inst.op \in {"memcopy", "memset"} ->
           <<[w |-> inst.op, to |-> get(c, inst.a), x |-> get(c, inst.b), n |-> push_address(c, inst.c)]>>
      [] inst.op = "ptraddconst" ->
           set(c, inst.res, Op2("add", "i32", get(c, inst.a), Const("i32", inst.imm)))
      [] inst.op = "ptradd" -> set(c, inst.res, Op2("add", "i32", get(c, inst.a), push_address(c, inst.b)))
      [] inst.op \in {"add", "sub", "mul", "and", "or", "xor"} -> emit_arithmetic(c, inst)
      [] inst.op \in {"sdiv", "srem", "udiv", "urem"} -> emit_division(c, inst)
      [] inst.op \in {"shl", "lshr", "ashr"} -> emit_shift(c, inst)
      [] inst.op = "not" -> emit_not(c, inst)
      [] inst.op = "neg" -> emit_neg(c, inst)
      [] inst.op \in Comparisons -> emit_icmp(c, inst)
      [] inst.op \in Conversions -> emit_conversion(c, inst)
      [] inst.op = "select" ->
           set(c, inst.res, [o |-> "select", c |-> get(c, inst.a), x |-> get(c, inst.b), y |-> get(c, inst.c)])
      [] inst.op = "call" -> emit_call(c, inst)
      [] inst.op = "return" -> emit_return(c, inst)
      [] inst.op = "unreachable" -> <<[w |-> "unreachable"]>>

prologue(c) ==
    IF c.needs_frame
    THEN <<SetLocal(c.at.saved, Sp),
           SetLocal(c.at.frame, Op2("sub", "i32", Local(c.at.saved), Const("i32", c.frame.size))),
           SetSp(Local(c.at.frame))>>
    ELSE <<>>
=============================================================================
