------------------------------ MODULE MirFunc ------------------------------
(***************************************************************************)
(* The MIR a function is lowered to, with its values (compiler/mir.hpp and *)
(* mir.cpp): the builder the lowering writes through and the verifier that *)
(* every stage must satisfy.                                               *)
(*                                                                         *)
(* A function is a record                                                  *)
(*   blocks   its blocks, each [params, insts]; block 1 is the entry       *)
(*   types    the type of each value; values, blocks and slots count from  *)
(*            1 and 0 is NO_VALUE                                          *)
(*   slots    its stack slots, each [size, esc]                            *)
(*   result   its signature's result type                                  *)
(* and an instruction keeps the fields of mir::Inst; "args" of a switch    *)
(* are <<value, block>> pairs and the callee of a call is an index into    *)
(* Externs.  Floats and i16 are left out.  Widths are scaled: a byte has   *)
(* ByteBits bits, an i32 two bytes and an i64 four, so that every carry    *)
(* and sign boundary is met with small numbers.                            *)
(***************************************************************************)
EXTENDS Integers, Sequences, FiniteSets

CONSTANTS
    ByteBits,     \* bits of a byte (8 in the code)
    PointerBytes, \* bytes of a pointer and of usize
    Externs       \* the functions a body may call: [params, result, variadic, outs]

ASSUME WidthAssumption == ByteBits \in 1 .. 4 /\ PointerBytes \in {2, 4}

\* The members of a set in order.
Ordered(S, Before(_, _)) ==
    [k \in 1 .. Cardinality(S) |-> CHOOSE x \in S : Cardinality({y \in S : Before(y, x)}) = k - 1]

NoValue == 0
WordBits == 4 * ByteBits

type_bits(ty) ==
    CASE ty = "i1" -> 1
      [] ty = "i8" -> ByteBits
      [] ty = "i32" -> 2 * ByteBits
      [] ty = "i64" -> WordBits
      [] ty = "ptr" -> PointerBytes * ByteBits
      [] OTHER -> 0

store_size(ty) == IF ty = "i1" THEN 1 ELSE type_bits(ty) \div ByteBits

IsInteger(ty) == ty \in {"i1", "i8", "i32", "i64"}
\* x * y in the given number of bits, by halves of y.
MulBits(x, y, bits) ==
    LET half == 2^(bits \div 2)
    IN  (((x * (y \div half)) % 2^bits) * half + x * (y % half)) % 2^bits

usize_ty == IF PointerBytes = 4 THEN "i64" ELSE "i32"

Arithmetic == {"add", "sub", "mul", "sdiv", "udiv", "srem", "urem", "and", "or", "xor", "shl",
               "lshr", "ashr"}
Comparisons == {"eq", "ne", "slt", "sle", "sgt", "sge", "ult", "ule", "ugt", "uge"}
Conversions == {"trunc", "zext", "sext", "ptrtoint", "inttoptr"}
Terminators == {"jump", "branch", "switch", "return", "unreachable"}

DefinesValue(op) == op \notin Terminators \cup {"store", "memcopy", "memset"}

Inst(op, ty) == [op |-> op, ty |-> ty, res |-> NoValue, a |-> NoValue, b |-> NoValue,
                 c |-> NoValue, imm |-> 0, args |-> <<>>, cases |-> <<>>]

(***************************************************************************)
(* Builder.  "g" holds the function being built, the insertion point "cur" *)
(* and the value "v" the last operation returned.                          *)
(***************************************************************************)
EmptyFunction(result) ==
    [blocks |-> <<>>, types |-> <<>>, slots |-> <<>>, result |-> result]

create_block(g) == [g EXCEPT !.blocks = Append(@, [params |-> <<>>, insts |-> <<>>])]
LastBlock(g) == Len(g.blocks)
create_blocks(g, n) ==
    [g EXCEPT !.blocks = @ \o [k \in 1 .. n |-> [params |-> <<>>, insts |-> <<>>]]]

add_block_param(g, b, ty) ==
    LET id == Len(g.types) + 1
    IN  [g EXCEPT !.types = Append(@, ty), !.blocks[b].params = Append(@, id), !.v = id]

set_insert_point(g, b) == [g EXCEPT !.cur = b]

LastInst(insts) == insts[Len(insts)]
Terminated(block) == block.insts # <<>> /\ LastInst(block.insts).op \in Terminators
block_is_terminated(g) == Terminated(g.blocks[g.cur])

\* A slot of some size and alignment, neither of them zero.
add_slot(g, shape) ==
    [g EXCEPT !.slots = Append(@, [size |-> shape.size, align |-> shape.align, esc |-> FALSE])]
LastSlot(g) == Len(g.slots)

emit(g, inst) ==
    LET id == Len(g.types) + 1
        defines == DefinesValue(inst.op) /\ inst.ty # "void"
        placed == [inst EXCEPT !.res = IF defines THEN id ELSE NoValue]
    IN  [g EXCEPT !.blocks[g.cur].insts = Append(@, placed),
                  !.types = IF defines THEN Append(@, inst.ty) ELSE @,
                  !.v = placed.res]

const_int(g, ty, n) == emit(g, [Inst("constint", ty) EXCEPT !.imm = n])
const_null(g) == emit(g, Inst("constnull", "ptr"))
slot_addr(g, slot) == emit(g, [Inst("slotaddr", "ptr") EXCEPT !.a = slot])
load(g, ty, addr) == emit(g, [Inst("load", ty) EXCEPT !.a = addr])
store(g, addr, value) == emit(g, [Inst("store", "void") EXCEPT !.a = addr, !.b = value])
mem_copy(g, dst, src, n) ==
    emit(g, [Inst("memcopy", "void") EXCEPT !.a = dst, !.b = src, !.c = n])
mem_set(g, dst, byte, n) ==
    emit(g, [Inst("memset", "void") EXCEPT !.a = dst, !.b = byte, !.c = n])
ptr_add_const(g, base, off) ==
    IF off = 0 THEN [g EXCEPT !.v = base]
    ELSE emit(g, [Inst("ptraddconst", "ptr") EXCEPT !.a = base, !.imm = off])
ptr_add(g, base, off) == emit(g, [Inst("ptradd", "ptr") EXCEPT !.a = base, !.b = off])
binary(g, op, ty, x, y) == emit(g, [Inst(op, ty) EXCEPT !.a = x, !.b = y])
unary(g, op, ty, x) == emit(g, [Inst(op, ty) EXCEPT !.a = x])
compare(g, op, x, y) == binary(g, op, "i1", x, y)
convert(g, op, ty, x) == unary(g, op, ty, x)
select(g, cond, x, y, ty) ==
    emit(g, [Inst("select", ty) EXCEPT !.a = cond, !.b = x, !.c = y])
call(g, callee, ty, args) == emit(g, [Inst("call", ty) EXCEPT !.a = callee, !.args = args])
jump(g, target, args) == emit(g, [Inst("jump", "void") EXCEPT !.a = target, !.args = args])
branch(g, cond, then, else) ==
    emit(g, [Inst("branch", "void") EXCEPT !.a = cond, !.b = then, !.c = else])
ret(g, values) == emit(g, [Inst("return", "void") EXCEPT !.args = values])
unreachable(g) == emit(g, Inst("unreachable", "void"))

\* switch_on keeps a case value in 32 bits.
switch_on(g, scrutinee, default, cases) ==
    emit(g, [Inst("switch", "void") EXCEPT
               !.a = scrutinee, !.b = default,
               !.cases = [k \in DOMAIN cases |-> <<cases[k][1] % 2^type_bits("i32"), cases[k][2]>>]])

mark_slot_escaping(g, slot) == [g EXCEPT !.slots[slot].esc = TRUE]

\* The operands of an instruction that are values (for_each_value_operand).
Operands(inst) ==
    CASE inst.op \in {"constint", "constnull", "slotaddr", "unreachable"} -> <<>>
      [] inst.op \in {"load", "ptraddconst", "branch", "switch"} -> <<inst.a>>
      [] inst.op \in {"store", "ptradd"} -> <<inst.a, inst.b>>
      [] inst.op \in {"memcopy", "memset", "select"} -> <<inst.a, inst.b, inst.c>>
      [] inst.op \in {"call", "asm", "jump", "return"} -> inst.args
      [] OTHER -> IF inst.b = NoValue THEN <<inst.a>> ELSE <<inst.a, inst.b>>

\* The same operands, each replaced by what 'to' has for it.
MapOperands(inst, to) ==
    CASE inst.op \in {"constint", "constnull", "slotaddr", "unreachable"} -> inst
      [] inst.op \in {"load", "ptraddconst", "branch", "switch"} -> [inst EXCEPT !.a = to[@]]
      [] inst.op \in {"store", "ptradd"} -> [inst EXCEPT !.a = to[@], !.b = to[@]]
      [] inst.op \in {"memcopy", "memset", "select"} ->
           [inst EXCEPT !.a = to[@], !.b = to[@], !.c = to[@]]
      [] inst.op \in {"call", "asm", "jump", "return"} ->
           [inst EXCEPT !.args = [k \in DOMAIN @ |-> to[@[k]]]]
      [] OTHER -> IF inst.b = NoValue THEN [inst EXCEPT !.a = to[@]]
                  ELSE [inst EXCEPT !.a = to[@], !.b = to[@]]

\* The blocks a terminator names, in order.
Targets(inst) ==
    CASE inst.op = "jump" -> <<inst.a>>
      [] inst.op = "branch" -> <<inst.b, inst.c>>
      [] inst.op = "switch" -> <<inst.b>> \o [k \in DOMAIN inst.cases |-> inst.cases[k][2]]
      [] OTHER -> <<>>

TargetSet(block) ==
    IF block.insts = <<>> THEN {}
    ELSE {Targets(LastInst(block.insts))[k] : k \in DOMAIN Targets(LastInst(block.insts))}

(***************************************************************************)
(* Verifier: what mir::verify accepts.                                     *)
(***************************************************************************)
ValueOk(f, v) == v \in DOMAIN f.types
OperandType(f, v, ty) == ValueOk(f, v) /\ f.types[v] = ty

check_block_args(f, target, args) ==
    /\ target \in DOMAIN f.blocks
    /\ LET params == f.blocks[target].params
       IN  /\ Len(params) = Len(args)
           /\ \A k \in DOMAIN args : OperandType(f, args[k], f.types[params[k]])

check_call(f, inst) ==
    LET sig == Externs[inst.a]
    IN  /\ inst.a \in DOMAIN Externs
        /\ sig.variadic \/ Len(inst.args) = Len(sig.params)
        /\ \A k \in DOMAIN inst.args :
             IF k <= Len(sig.params) THEN OperandType(f, inst.args[k], sig.params[k])
             ELSE ValueOk(f, inst.args[k])
        /\ inst.ty = sig.result

check_inst(f, inst) ==
    CASE inst.op = "constint" -> IsInteger(inst.ty)
      [] inst.op = "constnull" -> inst.ty = "ptr"
      [] inst.op = "slotaddr" -> inst.ty = "ptr" /\ inst.a \in DOMAIN f.slots
      [] inst.op = "load" -> OperandType(f, inst.a, "ptr") /\ inst.ty # "void"
      [] inst.op = "store" -> OperandType(f, inst.a, "ptr") /\ ValueOk(f, inst.b)
      [] inst.op = "memcopy" ->
           /\ OperandType(f, inst.a, "ptr") /\ OperandType(f, inst.b, "ptr") /\ ValueOk(f, inst.c)
      [] inst.op = "memset" ->
           OperandType(f, inst.a, "ptr") /\ ValueOk(f, inst.b) /\ ValueOk(f, inst.c)
      [] inst.op = "ptraddconst" -> OperandType(f, inst.a, "ptr") /\ inst.ty = "ptr"
      [] inst.op = "ptradd" -> OperandType(f, inst.a, "ptr") /\ ValueOk(f, inst.b) /\ inst.ty = "ptr"
      [] inst.op = "asm" -> \A k \in DOMAIN inst.args : OperandType(f, inst.args[k], "ptr")
      [] inst.op = "select" ->
           /\ OperandType(f, inst.a, "i1")
           /\ OperandType(f, inst.b, inst.ty) /\ OperandType(f, inst.c, inst.ty)
      [] inst.op = "call" -> check_call(f, inst)
      [] inst.op = "jump" -> check_block_args(f, inst.a, inst.args)
      [] inst.op = "branch" ->
           /\ OperandType(f, inst.a, "i1")
           /\ check_block_args(f, inst.b, <<>>) /\ check_block_args(f, inst.c, <<>>)
      [] inst.op = "switch" ->
           /\ ValueOk(f, inst.a)
           /\ \A k \in DOMAIN Targets(inst) : check_block_args(f, Targets(inst)[k], <<>>)
      [] inst.op = "return" ->
           IF f.result = "void" THEN inst.args = <<>>
           ELSE Len(inst.args) = 1 /\ OperandType(f, inst.args[1], f.result)
      [] inst.op = "unreachable" -> TRUE
      [] inst.op \in Comparisons ->
           inst.ty = "i1" /\ ValueOk(f, inst.a) /\ OperandType(f, inst.b, f.types[inst.a])
      [] inst.op \in Arithmetic ->
           /\ OperandType(f, inst.a, inst.ty) /\ OperandType(f, inst.b, inst.ty)
           /\ IsInteger(inst.ty)
      [] inst.op \in {"not", "neg"} -> OperandType(f, inst.a, inst.ty)
      [] inst.op \in Conversions -> ValueOk(f, inst.a) /\ f.types[inst.a] # inst.ty

verify(f) ==
    /\ f.blocks # <<>>
    /\ \A b \in DOMAIN f.blocks :
         LET insts == f.blocks[b].insts
         IN  /\ insts # <<>>
             /\ \A i \in DOMAIN insts : insts[i].op \in Terminators <=> i = Len(insts)
             /\ \A i \in DOMAIN insts : check_inst(f, insts[i])
=============================================================================
