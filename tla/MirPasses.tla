----------------------------- MODULE MirPasses -----------------------------
(***************************************************************************)
(* The two optimisation passes over a MIR function                         *)
(* (compiler/mir_passes.cpp): promote_slots turns a stack slot that is     *)
(* only loaded and stored whole into values and block parameters, and      *)
(* peephole folds constants, drops trivial parameters and dead values to a *)
(* fixpoint.                                                               *)
(***************************************************************************)
EXTENDS MirFunc, TLC, Bitwise
LOCAL SX == INSTANCE SequencesExt

InstsOf(f) == UNION {{f.blocks[b].insts[i] : i \in DOMAIN f.blocks[b].insts} : b \in DOMAIN f.blocks}

OperandSet(inst) == {Operands(inst)[k] : k \in DOMAIN Operands(inst)}

RECURSIVE resolve(_, _)
resolve(remap, v) == IF v \in DOMAIN remap THEN resolve(remap, remap[v]) ELSE v

\* The same sequence, listed (TLC's EXCEPT wants its sequences evaluated).
Listed(s) == SubSeq(s, 1, Len(s))

RewriteAll(f, remap) ==
    LET to == [v \in DOMAIN f.types |-> resolve(remap, v)]
    IN  [f EXCEPT !.blocks = Listed([b \in DOMAIN @ |-> [@[b] EXCEPT
           !.insts = Listed([i \in DOMAIN @ |-> MapOperands(@[i], to)])]])]

(***************************************************************************)
(* promote_slots: which slots become variables.                            *)
(***************************************************************************)
AddrToSlot(f) ==
    LET addrs == {i \in InstsOf(f) : i.op = "slotaddr" /\ ~f.slots[i.a].esc}
    IN  [v \in {i.res : i \in addrs} |-> (CHOOSE i \in addrs : i.res = v).a]

\* The type an access through an address moves.
AccessType(f, inst) == IF inst.op = "load" THEN inst.ty ELSE f.types[inst.b]

\* A load or a store through a tracked address is the accepted shape; the address anywhere else,
\* as a stored value included, disqualifies its slot.
Leaks(f, addr, inst) ==
    IF inst.op = "load" /\ inst.a \in DOMAIN addr THEN {}
    ELSE IF inst.op = "store" /\ inst.a \in DOMAIN addr THEN {inst.b}
    ELSE OperandSet(inst)

FullWidth(f, slot, ty) == store_size(ty) = f.slots[slot].size

\* candidate: the promotable slots and the types they are accessed with (none: a dead slot).
Candidates(f) ==
    LET addr == AddrToSlot(f)
        insts == InstsOf(f)
        leaked == {addr[v] : v \in (UNION {Leaks(f, addr, i) : i \in insts}) \cap DOMAIN addr}
        types(s) == {AccessType(f, i) :
                       i \in {j \in insts : /\ j.op \in {"load", "store"} /\ j.a \in DOMAIN addr
                                            /\ addr[j.a] = s}}
        ok == {s \in DOMAIN f.slots : /\ ~f.slots[s].esc /\ s \notin leaked
                                      /\ Cardinality(types(s)) <= 1
                                      /\ \A ty \in types(s) : FullWidth(f, s, ty)}
    IN  [s \in ok |-> types(s)]

(***************************************************************************)
(* promote_slots: lazy SSA construction.  "p" is PerFunction; "v" is the   *)
(* value the last call returned.                                           *)
(***************************************************************************)
Preds(f, b) == Ordered({c \in DOMAIN f.blocks : b \in TargetSet(f.blocks[c])}, <)

PromotedStores(f, b, addr, vars) ==
    SelectSeq(f.blocks[b].insts,
              LAMBDA i : i.op = "store" /\ i.a \in DOMAIN addr /\ addr[i.a] \in DOMAIN vars)

PerFunction(f, cand) ==
    LET vars == [s \in {t \in DOMAIN cand : cand[t] # {}} |-> CHOOSE ty \in cand[s] : TRUE]
        all == AddrToSlot(f)
        addr == [v \in {w \in DOMAIN all : all[w] \in DOMAIN cand} |-> all[v]]
        stores(b) == PromotedStores(f, b, addr, vars)
        slotsIn(b) == {addr[stores(b)[i].a] : i \in DOMAIN stores(b)}
        final(s, b) == LastInst(SelectSeq(stores(b), LAMBDA i : addr[i.a] = s)).b
        keys == UNION {{<<s, b>> : s \in slotsIn(b)} : b \in DOMAIN f.blocks}
    IN  [fn |-> f, cand |-> DOMAIN cand, vars |-> vars, addr |-> addr,
         preds |-> [b \in DOMAIN f.blocks |-> Preds(f, b)],
         entry |-> <<>>, exit |-> <<>>, zeros |-> <<>>, prelude |-> <<>>, edges |-> <<>>,
         remap |-> <<>>, last |-> [k \in keys |-> final(k[1], k[2])], v |-> NoValue]

zero_for(p, slot) ==
    IF slot \in DOMAIN p.zeros THEN [p EXCEPT !.v = p.zeros[slot]]
    ELSE LET ty == p.vars[slot]
             id == Len(p.fn.types) + 1
             zero == [Inst(IF ty = "ptr" THEN "constnull" ELSE "constint", ty) EXCEPT !.res = id]
         IN  [p EXCEPT !.fn.types = Append(@, ty), !.prelude = Append(@, zero),
                       !.zeros = (slot :> id) @@ @, !.v = id]

RECURSIVE get_entry(_, _, _), get_exit(_, _, _), get_exits(_, _, _, _)
get_entry(p, slot, b) ==
    LET key == <<slot, b>>
        incoming == p.preds[b]
        memo(q) == [q EXCEPT !.entry = (key :> q.v) @@ @]
        id == Len(p.fn.types) + 1
        join == [p EXCEPT !.fn.types = Append(@, p.vars[slot]),
                          !.fn.blocks[b].params = Append(@, id),
                          !.entry = (key :> id) @@ @]
    IN  IF key \in DOMAIN p.entry THEN [p EXCEPT !.v = p.entry[key]]
        ELSE IF incoming = <<>> THEN memo(zero_for(p, slot))
        ELSE IF Len(incoming) = 1 THEN memo(get_exit(p, slot, incoming[1]))
        ELSE [get_exits(join, slot, b, incoming) EXCEPT !.v = id]

\* The join's argument on each incoming edge.
get_exits(p, slot, b, incoming) ==
    IF incoming = <<>> THEN p
    ELSE LET q == get_exit(p, slot, Head(incoming))
             edge == <<Head(incoming), b>>
             args == IF edge \in DOMAIN q.edges THEN q.edges[edge] ELSE <<>>
         IN  get_exits([q EXCEPT !.edges = (edge :> Append(args, q.v)) @@ @], slot, b,
                       Tail(incoming))

get_exit(p, slot, b) ==
    LET key == <<slot, b>>
        q == IF key \in DOMAIN p.last THEN [p EXCEPT !.v = p.last[key]] ELSE get_entry(p, slot, b)
    IN  IF key \in DOMAIN p.exit THEN [p EXCEPT !.v = p.exit[key]]
        ELSE [q EXCEPT !.exit = (key :> q.v) @@ @]

(***************************************************************************)
(* promote_slots: the rewrite.                                             *)
(***************************************************************************)
\* Walks a block's accesses; "now" is the current value of each variable assigned so far.
Accesses(p, b) ==
    SelectSeq(p.fn.blocks[b].insts, LAMBDA i : i.op \in {"load", "store"} /\ i.a \in DOMAIN p.addr)

RECURSIVE WalkBlock(_, _, _, _)
WalkBlock(p, b, accesses, now) ==
    IF p.preds = <<>> \/ accesses = <<>>
    THEN [p EXCEPT !.last = [k \in DOMAIN @ |-> IF k[2] = b THEN resolve(p.remap, @[k]) ELSE @[k]]]
    ELSE LET inst == Head(accesses)
             slot == p.addr[inst.a]
             q == IF slot \in DOMAIN now THEN [p EXCEPT !.v = now[slot]]
                  ELSE get_entry(p, slot, b)
         IN  IF inst.op = "load"
             THEN WalkBlock([q EXCEPT !.remap = (inst.res :> q.v) @@ @], b, Tail(accesses), now)
             ELSE WalkBlock(p, b, Tail(accesses), (slot :> resolve(p.remap, inst.b)) @@ now)

RECURSIVE WalkBlocks(_, _)
WalkBlocks(p, b) ==
    IF b > Len(p.preds) THEN p ELSE WalkBlocks(WalkBlock(p, b, Accesses(p, b), <<>>), b + 1)

\* Redirects an instruction's targets from one block to another.
Retarget(inst, from, to) ==
    LET new(t) == IF t = from THEN to ELSE t
    IN  CASE inst.op = "branch" -> [inst EXCEPT !.b = new(@), !.c = new(@)]
          [] inst.op = "switch" ->
               [inst EXCEPT !.b = new(@),
                            !.cases = [k \in DOMAIN @ |-> <<@[k][1], new(@[k][2])>>]]
          [] OTHER -> inst

\* One edge's arguments: on the predecessor's jump, or through a jump-only trampoline.
MutPassEdge(f, pred, succ, args) ==
    LET n == Len(f.blocks[pred].insts)
        tramp == [params |-> <<>>,
                  insts |-> <<[Inst("jump", "void") EXCEPT !.a = succ, !.args = args]>>]
    IN  IF f.blocks[pred].insts[n].op = "jump"
        THEN [f EXCEPT !.blocks[pred].insts[n].args = args]
        ELSE [f EXCEPT !.blocks = Append([@ EXCEPT ![pred].insts[n] =
                 IF @.op = "branch" /\ @.b = succ THEN [@ EXCEPT !.b = Len(f.blocks) + 1]
                 ELSE Retarget(@, succ, Len(f.blocks) + 1)], tramp)]

PassEdge(f, pred, succ, args) ==
    LET n == Len(f.blocks[pred].insts)
        tramp == [params |-> <<>>,
                  insts |-> <<[Inst("jump", "void") EXCEPT !.a = succ, !.args = args]>>]
    IN  IF f.blocks[pred].insts[n].op = "jump"
        THEN [f EXCEPT !.blocks[pred].insts[n].args = @ \o args]
        ELSE [f EXCEPT !.blocks = Append([@ EXCEPT ![pred].insts[n] =
                                            Retarget(@, succ, Len(f.blocks) + 1)], tramp)]

EdgeBefore(e1, e2) == e1[1] < e2[1] \/ (e1[1] = e2[1] /\ e1[2] < e2[2])

PassEdges(f, edges) ==
    SX!FoldLeft(LAMBDA g, e : PassEdge(g, e[1], e[2], edges[e]), f,
                Ordered(DOMAIN edges, EdgeBefore))

\* Dead accesses go, the zero constants come first, and the surviving slots close up.
Compact(f, p) ==
    LET live(i) == /\ ~(i.op = "slotaddr" /\ i.res \in DOMAIN p.addr)
                   /\ ~(i.op \in {"load", "store"} /\ i.a \in DOMAIN p.addr)
        kept == DOMAIN f.slots \ p.cand
        place(s) == Cardinality({t \in kept : t <= s})
        body(b) == SelectSeq(f.blocks[b].insts, live)
        insts(b) == IF b = 1 THEN p.prelude \o body(b) ELSE body(b)
    IN  [f EXCEPT
           !.blocks = [b \in DOMAIN @ |-> [@[b] EXCEPT
              !.insts = [i \in DOMAIN insts(b) |->
                           IF insts(b)[i].op = "slotaddr" THEN [insts(b)[i] EXCEPT !.a = place(@)]
                           ELSE insts(b)[i]]]],
           !.slots = [n \in 1 .. Cardinality(kept) |-> f.slots[CHOOSE s \in kept : place(s) = n]]]

promote_function(f) ==
    LET cand == Candidates(f)
        p == WalkBlocks(PerFunction(f, cand), 1)
        rewritten == RewriteAll(p.fn, p.remap)
        edges == [e \in DOMAIN p.edges |->
                    [k \in DOMAIN p.edges[e] |-> resolve(p.remap, p.edges[e][k])]]
    IN  IF cand = <<>> THEN f ELSE Compact(PassEdges(rewritten, edges), p)

(***************************************************************************)
(* peephole: constant folding in an int64 container.                       *)
(***************************************************************************)
AsSigned(n) == LET m == n % 2^WordBits IN IF m >= 2^(WordBits - 1) THEN m - 2^WordBits ELSE m
AsUnsigned(n) == n % 2^WordBits
Int64Min == -(2^(WordBits - 1))

normalize(n, ty, sign_extend) ==
    LET bits == type_bits(ty)
        out == n % 2^bits
    IN  IF bits >= WordBits THEN AsSigned(n)
        ELSE IF sign_extend /\ out >= 2^(bits - 1) THEN out - 2^bits ELSE out

\* C++ division truncates toward zero.
Quotient(x, y) == LET q == (IF x < 0 THEN -x ELSE x) \div (IF y < 0 THEN -y ELSE y)
                  IN  IF (x < 0) = (y < 0) THEN q ELSE -q
Remainder(x, y) == x - y * Quotient(x, y)

\* The folded value in a one-element sequence, or <<>> when the fold is refused.
fold_binary(op, ty, x, y) ==
    LET bits == type_bits(ty)
        ux == AsUnsigned(normalize(x, ty, FALSE))  uy == AsUnsigned(normalize(y, ty, FALSE))
        sx == normalize(x, ty, TRUE)               sy == normalize(y, ty, TRUE)
        unsafe == sy = 0 \/ (sx = Int64Min /\ sy = -1)
        narrow(n) == <<normalize(AsSigned(n), ty, FALSE)>>
        raw(n) == <<AsSigned(n)>>
    IN  CASE op = "add" -> narrow(ux + uy)
          [] op = "sub" -> narrow(ux - uy)
          [] op = "mul" -> narrow(MulBits(ux, uy, WordBits))
          [] op = "udiv" -> IF uy = 0 THEN <<>> ELSE raw(ux \div uy)
          [] op = "urem" -> IF uy = 0 THEN <<>> ELSE raw(ux % uy)
          [] op = "sdiv" -> IF unsafe THEN <<>> ELSE narrow(Quotient(sx, sy))
          [] op = "srem" -> IF unsafe THEN <<>> ELSE narrow(Remainder(sx, sy))
          [] op = "and" -> raw(ux & uy)
          [] op = "or" -> raw(ux | uy)
          [] op = "xor" -> raw(ux ^^ uy)
          [] op = "shl" -> IF uy >= bits THEN <<>> ELSE narrow(ux * 2^uy)
          [] op = "lshr" -> IF uy >= bits THEN <<>> ELSE raw(ux \div 2^uy)
          [] op = "ashr" -> IF uy >= bits THEN <<>> ELSE narrow(sx \div 2^sy)

fold_compare(op, ty, x, y) ==
    LET ux == AsUnsigned(normalize(x, ty, FALSE))  uy == AsUnsigned(normalize(y, ty, FALSE))
        sx == normalize(x, ty, TRUE)               sy == normalize(y, ty, TRUE)
        holds == CASE op = "eq" -> ux = uy   [] op = "ne" -> ux # uy
                   [] op = "ult" -> ux < uy  [] op = "ule" -> ux <= uy
                   [] op = "ugt" -> ux > uy  [] op = "uge" -> ux >= uy
                   [] op = "slt" -> sx < sy  [] op = "sle" -> sx <= sy
                   [] op = "sgt" -> sx > sy  [] op = "sge" -> sx >= sy
    IN  IF holds THEN 1 ELSE 0
(***************************************************************************)
(* peephole.  "p" is Peep: the function, its known integer constants, the  *)
(* pending aliases and whether the round changed anything.                 *)
(***************************************************************************)
int_of(p, v) == LET r == resolve(p.remap, v)
                IN  IF r \in DOMAIN p.consts THEN <<p.consts[r]>> ELSE <<>>

rescan_consts(f) ==
    LET known == {i \in InstsOf(f) : i.op = "constint"}
    IN  [v \in {i.res : i \in known} |-> (CHOOSE i \in known : i.res = v).imm]

make_const_int(p, b, i, n, ty) ==
    LET res == p.fn.blocks[b].insts[i].res
    IN  [p EXCEPT !.fn.blocks[b].insts[i] = [Inst("constint", ty) EXCEPT !.res = res, !.imm = n],
                  !.consts = (res :> n) @@ @, !.changed = TRUE]

\* The constant an instruction folds to, if it does.
Folded(p, inst) ==
    LET x == int_of(p, inst.a)
        y == int_of(p, inst.b)
        from == p.fn.types[resolve(p.remap, inst.a)]
    IN  IF inst.op \in Arithmetic /\ IsInteger(inst.ty)
        THEN IF x # <<>> /\ y # <<>> THEN fold_binary(inst.op, inst.ty, x[1], y[1]) ELSE <<>>
        ELSE IF inst.op \in Comparisons
        THEN IF x # <<>> /\ y # <<>> /\ IsInteger(from)
             THEN <<fold_compare(inst.op, from, x[1], y[1])>> ELSE <<>>
        ELSE IF inst.op \in {"trunc", "zext", "sext"} /\ x # <<>>
        THEN <<normalize(normalize(x[1], from, inst.op = "sext"), inst.ty, FALSE)>>
        ELSE <<>>

\* The operand an identity leaves unchanged, or NoValue.
Survivor(p, inst) ==
    LET x == int_of(p, inst.a)  y == int_of(p, inst.b)
    IN  CASE inst.op \in {"add", "or", "xor", "sub", "shl", "lshr", "ashr", "ptradd"} /\ y = <<0>> ->
               inst.a
          [] inst.op = "add" /\ x = <<0>> -> inst.b
          [] inst.op = "mul" /\ y = <<1>> -> inst.a
          [] inst.op = "mul" /\ x = <<1>> -> inst.b
          [] inst.op = "ptraddconst" /\ inst.imm = 0 -> inst.a
          [] OTHER -> NoValue

Simplify(p, b, i) ==
    LET inst == p.fn.blocks[b].insts[i]
        folded == IF inst.op \in Arithmetic \cup Comparisons \cup Conversions
                  THEN Folded(p, inst) ELSE <<>>
        kept == IF inst.op \in Arithmetic \cup {"ptradd", "ptraddconst"}
                THEN Survivor(p, inst) ELSE NoValue
    IN  IF folded # <<>>
        THEN make_const_int(p, b, i, folded[1], IF inst.op \in Comparisons THEN "i1" ELSE inst.ty)
        ELSE IF kept # NoValue
        THEN [p EXCEPT !.remap = (inst.res :> resolve(p.remap, kept)) @@ @, !.changed = TRUE]
        ELSE p

apply_remap(p) == [p EXCEPT !.fn = RewriteAll(@, p.remap), !.remap = <<>>]

RECURSIVE SimplifyFrom(_, _, _)
SimplifyFrom(p, b, i) ==
    IF b > Len(p.fn.blocks) THEN p
    ELSE IF i > Len(p.fn.blocks[b].insts) THEN SimplifyFrom(p, b + 1, 1)
    ELSE SimplifyFrom(Simplify(p, b, i), b, i + 1)

fold_and_simplify(p) == apply_remap(SimplifyFrom([p EXCEPT !.consts = rescan_consts(p.fn)], 1, 1))

\* The values any instruction reads.
Used(f) == UNION {OperandSet(i) : i \in InstsOf(f)}

JumpPreds(f, b) == {c \in DOMAIN f.blocks : LastInst(f.blocks[c].insts).op = "jump"
                                            /\ LastInst(f.blocks[c].insts).a = b}

Column(s, k) == SubSeq(s, 1, k - 1) \o SubSeq(s, k + 1, Len(s))

\* Removes a block's k-th parameter and the argument every jump passes for it.
DropParam(p, b, k, preds) ==
    LET drop(c) == [p.fn.blocks[c] EXCEPT !.insts[Len(p.fn.blocks[c].insts)].args = Column(@, k)]
        cut == [c \in DOMAIN p.fn.blocks |-> IF c \in preds THEN drop(c) ELSE p.fn.blocks[c]]
    IN  [p EXCEPT !.fn.blocks = [cut EXCEPT ![b].params = Column(@, k)], !.changed = TRUE]

\* Incoming arguments other than the parameter itself; at most one makes it trivial.
MutIncoming(p, b, k, preds) ==
    {resolve(p.remap, LastInst(p.fn.blocks[c].insts).args[k]) : c \in {d \in preds : d < b}}
        \ {p.fn.blocks[b].params[k]}

Incoming(p, b, k, preds) ==
    {resolve(p.remap, LastInst(p.fn.blocks[c].insts).args[k]) : c \in preds}
        \ {p.fn.blocks[b].params[k]}

RECURSIVE FoldParams(_, _, _, _)
FoldParams(p, used, b, k) ==
    LET preds == JumpPreds(p.fn, b)
        params == p.fn.blocks[b].params
        args == Incoming(p, b, k, preds)
        unused == params[k] \notin used
        aliased == IF unused THEN p
                   ELSE [p EXCEPT !.remap = (params[k] :> CHOOSE v \in args : TRUE) @@ @]
    IN  IF b > Len(p.fn.blocks) THEN p
        ELSE IF k > Len(params) \/ preds = {} THEN FoldParams(p, used, b + 1, 1)
        ELSE IF Cardinality(args) > 1 \/ (args = {} /\ ~unused) THEN FoldParams(p, used, b, k + 1)
        ELSE FoldParams(DropParam(aliased, b, k, preds), used, b, k)

fold_trivial_params(p) == apply_remap(FoldParams(p, Used(p.fn), 2, 1))

remove_dead(p) ==
    LET used == Used(p.fn)
        dead(i) == /\ DefinesValue(i.op) /\ i.op # "call"
                   /\ i.res # NoValue /\ i.res \notin used
        kept(i) == ~dead(i)
    IN  [p EXCEPT !.fn.blocks = [b \in DOMAIN @ |-> [@[b] EXCEPT !.insts = SelectSeq(@, kept)]],
                  !.changed = @ \/ \E i \in InstsOf(p.fn) : dead(i)]

MaxRounds == 16

RECURSIVE PeepRounds(_, _)
PeepRounds(p, round) ==
    LET q == remove_dead(fold_trivial_params(fold_and_simplify([p EXCEPT !.changed = FALSE])))
    IN  IF round = MaxRounds THEN p ELSE IF ~q.changed THEN q ELSE PeepRounds(q, round + 1)

peephole(f) ==
    PeepRounds([fn |-> f, consts |-> <<>>, remap |-> <<>>, changed |-> FALSE], 0).fn
=============================================================================
