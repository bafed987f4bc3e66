------------------------------ MODULE MirExec ------------------------------
(***************************************************************************)
(* What a MIR function means: the reference the passes and the lowering    *)
(* are held against.  Values are numbers 0 .. 2^bits - 1, memory is a      *)
(* partial function from addresses to bytes, and the functions a body      *)
(* calls are the environment: each call is logged and takes its answers    *)
(* from an oracle, so a behaviour is a function of the oracle.             *)
(***************************************************************************)
EXTENDS MirPasses, LangMeaning
LOCAL SE == INSTANCE SequencesExt
W == INSTANCE WasmStructure

CONSTANTS
    MaxSteps  \* blocks a run may enter before it counts as diverging

Byte == 2^ByteBits
Wrap(n, ty) == n % 2^type_bits(ty)
Signed(n, ty) == IF n >= 2^(type_bits(ty) - 1) THEN n - 2^type_bits(ty) ELSE n

SlotsAt == 80
StackTop == 2^(PointerBytes * ByteBits) - 16
SlotSize(s) == s.size
SlotBase(f, s) ==
    SlotsAt + SE!FoldLeft(LAMBDA n, slot : n + SlotSize(slot), 0, SubSeq(f.slots, 1, s - 1))

RECURSIVE ReadBytes(_, _, _)
ReadBytes(m, addr, n) ==
    IF n = 0 THEN 0
    ELSE (IF addr \in DOMAIN m.mem THEN m.mem[addr] ELSE m.junk)
         + Byte * ReadBytes(m, addr + 1, n - 1)

WriteBytes(m, addr, n, value) ==
    [m EXCEPT !.mem = [x \in addr .. addr + n - 1 |-> (value \div Byte^(x - addr)) % Byte] @@ @]

ReadMem(m, addr, ty) == Wrap(ReadBytes(m, addr, store_size(ty)), ty)
WriteMem(m, addr, ty, value) == WriteBytes(m, addr, store_size(ty), value)

Compute(op, ty, x, y) ==
    LET bits == type_bits(ty)
        by == y % WordBits
    IN  CASE op = "add" -> Wrap(x + y, ty)
          [] op = "sub" -> Wrap(x - y, ty)
          [] op = "mul" -> MulBits(x, y, bits)
          [] op = "sdiv" -> Wrap(Quotient(Signed(x, ty), Signed(y, ty)), ty)
          [] op = "srem" -> Wrap(Remainder(Signed(x, ty), Signed(y, ty)), ty)
          [] op = "udiv" -> x \div y
          [] op = "urem" -> x % y
          [] op = "and" -> x & y
          [] op = "or" -> x | y
          [] op = "xor" -> x ^^ y
          [] op = "shl" -> MulBits(x, 2^by, bits)
          [] op = "lshr" -> x \div 2^by
          [] op = "ashr" -> Wrap(Signed(x, ty) \div 2^by, ty)

\* Both backends divide narrow numbers at 64 bits, so only an i64 quotient can overflow.
Traps(op, ty, x, y) ==
    /\ op \in {"sdiv", "srem", "udiv", "urem"}
    /\ \/ y = 0
       \/ op \in {"sdiv", "srem"} /\ ty = "i64" /\ Signed(y, ty) = -1 /\ x = 2^(WordBits - 1)

Holds(op, ty, x, y) ==
    CASE op = "eq" -> x = y  [] op = "ne" -> x # y
      [] op = "ult" -> x < y [] op = "ule" -> x <= y
      [] op = "ugt" -> x > y [] op = "uge" -> x >= y
      [] op = "slt" -> Signed(x, ty) < Signed(y, ty)
      [] op = "sle" -> Signed(x, ty) <= Signed(y, ty)
      [] op = "sgt" -> Signed(x, ty) > Signed(y, ty)
      [] op = "sge" -> Signed(x, ty) >= Signed(y, ty)

\* The value tree a type's bytes at an address stand for, and the bytes of a tree.
RECURSIVE Decode(_, _, _), Encode(_, _, _, _)
Decode(m, at, ty) ==
    LET tag(a) == ReadMem(m, a, "i32")
        payload == at + payload_offset(ty)
        within(union, n, a) == IF n \in DOMAIN union THEN Decode(m, a, union[n]) ELSE <<>>
    IN  CASE ty.k = "ptr" -> Decode(m, ReadMem(m, at, "ptr"), ty.to)
          [] ty.k = "slice" -> [n \in 1 .. ReadMem(m, at + PointerBytes, usize_ty) % 8 |->
                                  Decode(m, ReadMem(m, at, "ptr") + (n - 1) * size_of(ty.elem), ty.elem)]
          [] ty.k = "struct" -> [n \in DOMAIN ty.fields |->
                                   Decode(m, at + field_offset(ty, n), ty.fields[n].type)]
          [] ty.k = "array" -> [n \in 1 .. ty.count |-> Decode(m, at + (n - 1) * size_of(ty.elem), ty.elem)]
          [] ty.k = "union" -> <<tag(at) + 1, within(ty.variants, tag(at) + 1, payload)>>
          [] ty.k = "error" ->
               IF tag(at) = 0 THEN <<0>>
               ELSE IF Len(ty.members) = 1 THEN <<1, Decode(m, payload, ty.members[1])>>
               ELSE <<tag(payload) + 1,
                      within(ty.members, tag(payload) + 1, at + member_offset(ty))>>
          [] ty.k = "void" -> <<>>
          [] OTHER -> ReadMem(m, at, scalar_type(ty))

Encode(m, at, ty, value) ==
    LET each(types, offset(_)) ==
          SE!FoldLeft(LAMBDA n, k : Encode(n, at + offset(k), types[k], value[k]), m,
                      [k \in DOMAIN types |-> k])
        tagged == WriteMem(m, at, "i32", 1)
        inner == IF Len(ty.members) = 1 THEN tagged
                 ELSE WriteMem(tagged, at + payload_offset(ty), "i32", value[1] - 1)
    IN  CASE ty.k = "struct" -> each([k \in DOMAIN ty.fields |-> ty.fields[k].type],
                                     LAMBDA k : field_offset(ty, k))
          [] ty.k = "array" -> each([k \in 1 .. ty.count |-> ty.elem], LAMBDA k : (k - 1) * size_of(ty.elem))
          [] ty.k = "union" -> Encode(WriteMem(m, at, "i32", value[1] - 1), at + payload_offset(ty),
                                      ty.variants[value[1]], value[2])
          [] ty.k = "error" -> IF value[1] = 0 THEN WriteMem(m, at, "i32", 0)
                               ELSE Encode(inner, at + member_offset(ty), ty.members[value[1]], value[2])
          [] ty.k = "void" -> m
          [] OTHER -> WriteMem(m, at, scalar_type(ty), value)

\* A call is logged with its arguments as the callee sees them and answered by the oracle.
CallExtern(m, inst, args) ==
    LET fn == Functions[inst.a]
        sret == IF returns_via_sret(fn.returns) THEN 1 ELSE 0
        seen == [n \in DOMAIN fn.params |->
                   IF fn.params[n].k = "ptr" THEN Decode(m, args[n + sret], fn.params[n].to)
                   ELSE IF is_scalar(fn.params[n]) THEN args[n + sret]
                   ELSE Decode(m, args[n + sret], fn.params[n])]
        to == scalar_type(fn.params[1].to)
        written == IF fn.writes THEN WriteMem(m, args[1], to, Wrap(ReadMem(m, args[1], to) + 1, to)) ELSE m
        logged == [written EXCEPT !.trace = Append(@, <<inst.a, seen>>)]
        take(acc, ty) == LET a == Answer(ty, acc[2]) IN <<Append(acc[1], a[1]), a[2]>>
        answer == SE!FoldLeft(take, <<<<>>, m.oracle>>, fn.returns)
        offsets == multi_return_layout(fn.returns).offsets
        filled == SE!FoldLeft(LAMBDA n, k : Encode(n, args[1] + offsets[k], fn.returns[k], answer[1][k]),
                              logged, [k \in DOMAIN fn.returns |-> k])
    IN  CASE inst.a = PanicHelper -> [m EXCEPT !.trace = Append(@, <<inst.a, <<>>>>)]
          [] inst.a # PanicHelper /\ fn.returns = <<>> -> logged
          [] inst.a # PanicHelper /\ fn.returns # <<>> /\ m.oracle = <<>> -> [logged EXCEPT !.status = "stopped"]
          [] OTHER -> IF sret = 1 THEN [filled EXCEPT !.oracle = answer[2]]
                      ELSE [logged EXCEPT !.oracle = answer[2], !.ret = answer[1][1]]

Execute(f, m, inst) ==
    LET val(v) == m.vals[v]
        x == val(inst.a)
        y == val(inst.b)
        set(n) == [m EXCEPT !.vals = [@ EXCEPT ![inst.res] = n]]
        ids == inst.args
        args == [k \in DOMAIN ids |-> val(ids[k])]
        moved(n) == [k \in x .. x + val(inst.c) - 1 |-> n]
    IN  CASE m.status # "running" -> m
          [] inst.op = "constint" -> set(Wrap(inst.imm, inst.ty))
          [] inst.op = "constnull" -> set(0)
          [] inst.op = "slotaddr" -> set(SlotBase(f, inst.a))
          [] inst.op = "load" -> set(ReadMem(m, x, inst.ty))
          [] inst.op = "store" -> WriteMem(m, x, f.types[inst.b], y)
          [] inst.op = "memset" -> [m EXCEPT !.mem = moved(y % Byte) @@ @]
          [] inst.op = "memcopy" ->
               [m EXCEPT !.mem = [k \in x .. x + val(inst.c) - 1 |-> ReadBytes(m, y + (k - x), 1)] @@ @]
          [] inst.op = "ptraddconst" -> set(Wrap(x + inst.imm, "ptr"))
          [] inst.op = "ptradd" -> set(Wrap(x + y, "ptr"))
          [] inst.op = "select" -> set(IF x = 1 THEN y ELSE val(inst.c))
          [] inst.op = "call" ->
               LET done == CallExtern(m, inst, args)
               IN  IF inst.res = NoValue \/ done.status # "running" THEN done
                   ELSE [done EXCEPT !.vals[inst.res] = done.ret]
          [] inst.op = "asm" -> [m EXCEPT !.trace = Append(@, <<"asm">>),
                                          !.vals = IF inst.res = NoValue THEN @
                                                   ELSE [@ EXCEPT ![inst.res] = 0]]
          [] inst.op = "not" -> set(Wrap(-x - 1, inst.ty))
          [] inst.op = "neg" -> set(Wrap(-x, inst.ty))
          [] inst.op \in {"trunc", "zext", "ptrtoint", "inttoptr"} -> set(Wrap(x, inst.ty))
          [] inst.op = "sext" -> set(Wrap(Signed(x, f.types[inst.a]), inst.ty))
          [] inst.op \in Comparisons -> set(IF Holds(inst.op, f.types[inst.a], x, y) THEN 1 ELSE 0)
          [] inst.op \in Arithmetic ->
               IF Traps(inst.op, inst.ty, x, y) THEN [m EXCEPT !.status = "trapped"]
               ELSE set(Compute(inst.op, inst.ty, x, y))
          [] inst.op \in Terminators -> m

\* The instructions first .. last of a block, by halves: it stops where the status changes.
RECURSIVE ExecuteAll(_, _, _, _, _)
ExecuteAll(f, m, insts, first, last) ==
    LET mid == (first + last) \div 2
        half == ExecuteAll(f, m, insts, first, mid)
    IN  IF first > last THEN m
        ELSE IF first = last THEN Execute(f, m, insts[first])
        ELSE IF half.status # "running" THEN half
        ELSE ExecuteAll(f, half, insts, mid + 1, last)

\* The block a switch goes to: a case is a signed 32-bit number, compared at the scrutinee's width.
SwitchTarget(inst, ty, x) ==
    LET hits == {k \in DOMAIN inst.cases : Wrap(Signed(inst.cases[k][1], "i32"), ty) = x}
    IN  IF hits = {} THEN inst.b ELSE inst.cases[CHOOSE k \in hits : \A j \in hits : k <= j][2]

RECURSIVE RunFrom(_, _, _, _)
RunFrom(f, m, b, args) ==
    LET block == f.blocks[b]
        entered == [m EXCEPT
          !.vals = [v \in DOMAIN @ |->
                      IF \E k \in DOMAIN block.params : block.params[k] = v
                      THEN args[CHOOSE k \in DOMAIN block.params : block.params[k] = v]
                      ELSE @[v]],
          !.steps = @ + 1]
        done == ExecuteAll(f, entered, block.insts, 1, Len(block.insts))
        term == LastInst(block.insts)
        val(v) == done.vals[v]
    IN  IF m.steps >= MaxSteps THEN [m EXCEPT !.status = "diverged"]
        ELSE IF done.status # "running" THEN done
        ELSE CASE term.op = "jump" ->
                    RunFrom(f, done, term.a, [k \in DOMAIN term.args |-> val(term.args[k])])
               [] term.op = "branch" ->
                    RunFrom(f, done, IF val(term.a) = 1 THEN term.b ELSE term.c, <<>>)
               [] term.op = "switch" -> RunFrom(f, done, SwitchTarget(term, f.types[term.a], val(term.a)), <<>>)
               [] term.op = "return" ->
                    [done EXCEPT !.status = "returned",
                                 !.result = [k \in DOMAIN term.args |-> val(term.args[k])]]
               [] term.op = "unreachable" -> [done EXCEPT !.status = "unreachable"]

(***************************************************************************)
(* WebAssembly code.  A local or an operand holds a number of its class;   *)
(* "br" is <<>> or <<how many more nests a branch leaves>>.                *)
(***************************************************************************)
RECURSIVE Worth(_, _), Faults(_, _)
Worth(m, x) ==
    LET at(y) == Worth(m, y)
    IN  CASE x.o = "local" -> m.vals[x.n]
          [] x.o = "const" -> Wrap(x.n, x.c)
          [] x.o = "sp" -> m.sp
          [] x.o = "top" -> m.ret
          [] x.o = "load" -> ReadBytes(m, at(x.x), x.n)
          [] x.o = "select" -> IF at(x.c) # 0 THEN at(x.x) ELSE at(x.y)
          [] x.o = "wrap" -> Wrap(at(x.x), "i32")
          [] x.o = "extend_u" -> at(x.x)
          [] x.o = "extend_s" -> Wrap(Signed(at(x.x), "i32"), "i64")
          [] x.o = "extend8_s" -> Wrap(Signed(at(x.x) % Byte, "i8"), "i32")
          [] x.o \in Comparisons -> IF Holds(x.o, x.c, at(x.x), at(x.y)) THEN 1 ELSE 0
          [] OTHER -> Compute(x.o, x.c, at(x.x), at(x.y))

\* A division by zero, or a quotient outside its class, anywhere in an expression.
Faults(m, x) ==
    \/ x.o \in {"wrap", "extend_u", "extend_s", "extend8_s"} /\ Faults(m, x.x)
    \/ x.o \in Arithmetic /\ (Faults(m, x.x) \/ Faults(m, x.y))
    \/ /\ x.o \in {"sdiv", "srem", "udiv", "urem"}
       /\ LET d == Worth(m, x.y)
          IN  d = 0 \/ (x.o = "sdiv" /\ Signed(d, x.c) = -1 /\ Worth(m, x.x) = 2^(type_bits(x.c) - 1))

RECURSIVE RunCode(_, _), RunItem(_, _), RunPads(_, _, _)
RunItem(m, item) ==
    LET leave(r) == IF r.br = <<>> THEN r
                    ELSE [r EXCEPT !.br = IF @ = <<0>> THEN <<>> ELSE <<@[1] - 1>>]
        within(code) == leave(RunCode(m, code))
        turn == RunCode([m EXCEPT !.steps = @ + 1], item.body)
        val(x) == Worth(m, x)
        args == [k \in DOMAIN item.args |-> val(item.args[k])]
        to == val(item.to)
        room == to .. to + val(item.n) - 1
        \* A callee may leave anything above a narrow result.
        called == CallExtern(m, item.inst, args)
        dirty == [called EXCEPT !.ret = IF item.inst.ty \in {"i1", "i8"} THEN @ + Byte * m.junk ELSE @]
    IN  CASE m.status # "running" \/ m.br # <<>> -> m
          [] item.w = "set" -> IF Faults(m, item.x) THEN [m EXCEPT !.status = "trapped"]
                               ELSE [m EXCEPT !.vals = (item.to :> val(item.x)) @@ @]
          [] item.w = "setsp" -> [m EXCEPT !.sp = val(item.x)]
          [] item.w = "store" -> WriteBytes(m, to, item.n, val(item.x))
          [] item.w = "memset" -> [m EXCEPT !.mem = [k \in room |-> val(item.x) % Byte] @@ @]
          [] item.w = "memcopy" -> [m EXCEPT !.mem = [k \in room |-> ReadBytes(m, val(item.x) + (k - to), 1)] @@ @]
          [] item.w = "call" -> dirty
          [] item.w = "drop" -> m
          [] item.w = "return" -> [m EXCEPT !.status = "returned", !.result = [k \in DOMAIN item.xs |-> val(item.xs[k])]]
          [] item.w = "unreachable" -> [m EXCEPT !.status = "unreachable"]
          [] item.w = "br" -> IF item.depth = W!NotInScope THEN [m EXCEPT !.status = "invalid"]
                              ELSE [m EXCEPT !.br = <<item.depth>>]
          [] item.w = "br_table" -> RunPads(m, item.landings, val(item.x) + 1)
          [] item.w = "block" -> within(item.body)
          [] item.w = "if" -> within(IF val(item.c) # 0 THEN item.then ELSE item.else)
          [] item.w = "loop" -> IF m.steps >= MaxSteps THEN [m EXCEPT !.status = "diverged"]
                                ELSE IF turn.br = <<0>> THEN RunItem([turn EXCEPT !.br = <<>>], item)
                                ELSE leave(turn)
\* Landing pad b and what follows it: pad b is inside the nests of the later ones.
RunPads(m, pads, b) ==
    LET done == RunCode(m, pads[b])
        outer == Len(pads) - b
        to == IF done.br = <<>> THEN 0 ELSE done.br[1]
    IN  IF done.status # "running" THEN done
        ELSE IF to < outer THEN RunPads([done EXCEPT !.br = <<>>], pads, b + 1 + to)
        ELSE [done EXCEPT !.br = IF @ = <<>> THEN @ ELSE <<to - outer>>]
RunCode(m, code) ==
    LET mid == Len(code) \div 2
        half == RunCode(m, SubSeq(code, 1, mid))
    IN  IF code = <<>> THEN m
        ELSE IF Len(code) = 1 THEN RunItem(m, code[1])
        ELSE IF half.status # "running" \/ half.br # <<>> THEN half
        ELSE RunCode(half, SubSeq(code, mid + 1, Len(code)))

\* The behaviour of a lowered function, in the terms of Meaning.  Its arguments and the room for
\* its results lie at fixed addresses.
ResultsAt == ByteBits
ArgumentsAt == ResultsAt + 32
Observed(f, fn, args, oracle, junk, Run(_, _)) ==
    LET sret == returns_via_sret(fn.returns)
        blank == [vals |-> [v \in DOMAIN f.types |-> junk], types |-> f.types, mem |-> <<>>,
                  junk |-> junk, trace |-> <<>>, oracle |-> oracle, steps |-> 0, br |-> <<>>, ret |-> 0, sp |-> 0,
                  status |-> "running", result |-> <<>>]
        at(n) == ArgumentsAt + 12 * (n - 1)
        ready == SE!FoldLeft(LAMBDA m, n : IF is_scalar(fn.params[n]) THEN m
                                           ELSE Encode(m, at(n), fn.params[n], args[n]),
                             blank, [n \in DOMAIN args |-> n])
        own == [n \in DOMAIN args |-> IF is_scalar(fn.params[n]) THEN args[n] ELSE at(n)]
        m == Run(ready, IF sret THEN <<ResultsAt>> \o own ELSE own)
        offsets == multi_return_layout(fn.returns).offsets
    IN  [trace |-> m.trace, status |-> m.status,
         result |-> IF m.status # "returned" THEN <<>>
                    ELSE IF sret THEN [n \in DOMAIN fn.returns |->
                                         Decode(m, ResultsAt + offsets[n], fn.returns[n])]
                    ELSE m.result]
Behaviour(f, fn, args, oracle, junk) ==
    Observed(f, fn, args, oracle, junk, LAMBDA m, own : RunFrom(f, m, 1, own))

\* The code gets its arguments in its first locals; the others are zero.  It must give the stack
\* pointer back.
WasmBehaviour(f, code, fn, args, oracle, junk) ==
    LET locals(own) == [k \in 0 .. Len(own) - 1 |-> own[k + 1]] @@ [k \in 0 .. 3 * Len(f.types) + 3 |-> 0]
        run(m, own) ==
          LET done == RunCode([m EXCEPT !.vals = locals(own), !.sp = StackTop], code)
          IN  IF done.status = "returned" /\ done.sp # StackTop THEN [done EXCEPT !.status = "unbalanced"]
              ELSE done
    IN  Observed(f, fn, args, oracle, junk, run)
=============================================================================
