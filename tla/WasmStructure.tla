--------------------------- MODULE WasmStructure ---------------------------
(***************************************************************************)
(* How compiler/backend_wasm.cpp turns a function's control flow graph     *)
(* into WebAssembly's nested blocks and loops: the graph's order and       *)
(* dominators, the structuring walk, and the depth each branch is given.   *)
(*                                                                         *)
(* Code is a sequence of the statements of WasmEmit with the nests         *)
(* "block", "loop" and "if", "br" (its depth counts the nests it leaves)   *)
(* and "br_table".                                                         *)
(***************************************************************************)
EXTENDS WasmEmit
LOCAL SX == INSTANCE SequencesExt

Successors(f, b) == Targets(LastInst(f.blocks[b].insts))

\* The blocks reached from "b", in the order a depth-first search finishes them.
RECURSIVE PostOrder(_, _, _)
PostOrder(f, acc, b) ==
    IF b \in acc.seen THEN acc
    ELSE LET down == SX!FoldLeft(LAMBDA a, s : PostOrder(f, a, s),
                                 [acc EXCEPT !.seen = @ \cup {b}], Successors(f, b))
         IN  [down EXCEPT !.post = Append(@, b)]

rpo_order(f) == SX!Reverse(PostOrder(f, [seen |-> {}, post |-> <<>>], 1).post)

\* The common dominator of two blocks, walking up by order.
RECURSIVE intersect(_, _, _, _)
intersect(idom, index, a, b) ==
    IF a = b THEN a
    ELSE IF index[a] > index[b] THEN intersect(idom, index, idom[a], b)
    ELSE intersect(idom, index, a, idom[b])

\* Immediate dominators, by passes over the order until none changes; 0 is "not yet".
RECURSIVE Dominators(_, _, _, _)
Dominators(f, order, index, idom) ==
    LET preds(b) == SelectSeq(order, LAMBDA p : SX!Contains(Successors(f, p), b))
        step(dom, b) ==
          LET known == SelectSeq(Ordered(SX!ToSet(preds(b)), <), LAMBDA p : dom[p] # 0)
          IN  IF b = 1 \/ known = <<>> THEN dom
              ELSE [dom EXCEPT ![b] = SX!FoldLeft(LAMBDA d, p : intersect(dom, index, d, p),
                                                  Head(known), Tail(known))]
        next == SX!FoldLeft(step, idom, order)
    IN  IF next = idom THEN idom ELSE Dominators(f, order, index, next)

MutDominates(idom, a, b) == a \in {b, idom[b]}

RECURSIVE dominates(_, _, _)
dominates(idom, a, b) == a = b \/ (b # 1 /\ dominates(idom, a, idom[b]))

\* Edges count once for each time a terminator names the target.
build_cfg(f) ==
    LET order == rpo_order(f)
        reached == SX!ToSet(order)
        index == [b \in reached |-> CHOOSE i \in DOMAIN order : order[i] = b]
        idom == Dominators(f, order, index, [b \in reached |-> IF b = 1 THEN 1 ELSE 0])
        edges == UNION {{<<b, k>> : k \in DOMAIN Successors(f, b)} : b \in reached}
        to(e) == Successors(f, e[1])[e[2]]
        back == {e \in edges : index[to(e)] <= index[e[1]]}
        merge == {b \in reached : Cardinality({e \in edges \ back : to(e) = b}) >= 2}
    IN  [index |-> index,
         header |-> {to(e) : e \in back},
         merge |-> merge,
         children |-> [b \in reached |-> SelectSeq(order, LAMBDA c : c # 1 /\ c \in merge /\ idom[c] = b)],
         reducible |-> \A e \in back : dominates(idom, to(e), e[1])]

is_back_edge(cfg, from, to) == cfg.index[to] <= cfg.index[from]

(***************************************************************************)
(* The walk.  The context "c" is WasmEmit's with the graph "cfg"; "nest"   *)
(* lists the open nests, outermost first, each [kind, block].              *)
(***************************************************************************)
NotInScope == -1

\* How many nests out the label of a block is.
label_depth(nest, target, retreating) ==
    LET kind == IF retreating THEN "loop" ELSE "block"
        hits == {n \in DOMAIN nest : nest[n].block = target /\ nest[n].kind = kind}
    IN  IF hits = {} THEN NotInScope
        ELSE Len(nest) - (CHOOSE n \in hits : \A k \in hits : k <= n)

Open(nest, kind, block) == Append(nest, [kind |-> kind, block |-> block])
Br(depth) == <<[w |-> "br", depth |-> depth]>>
IfCode(x, then, else) == <<[w |-> "if", c |-> x, then |-> then, else |-> else]>>

\* Every argument is staged before any parameter is written.
MutTransfer_block_args(c, target, args) ==
    LET params == c.f.blocks[target].params
    IN  [k \in DOMAIN args |-> SetLocal(c.at.value[params[k]], get(c, args[k]))]

transfer_block_args(c, target, args) ==
    LET params == c.f.blocks[target].params
    IN  [k \in DOMAIN args |-> SetLocal(c.at.staging[params[k]], get(c, args[k]))]
        \o [k \in DOMAIN args |-> SetLocal(c.at.value[params[k]], Local(c.at.staging[params[k]]))]

\* A case is kept in 32 bits: it is compared as it is with a narrow scrutinee and sign-extended
\* with a wide one.
case_test(c, inst, k) ==
    LET n == inst.cases[k][1]
        half == 2^(type_bits("i32") - 1)
        class == val_type(ty_of(c, inst.a))
    IN  Op2("eq", class, get(c, inst.a),
            Const(class, IF class = "i64" /\ n >= half THEN n - 2 * half ELSE n))

RECURSIVE do_tree(_, _, _), node_within(_, _, _, _)

do_branch(c, nest, from, to) ==
    IF is_back_edge(c.cfg, from, to) THEN Br(label_depth(nest, to, TRUE))
    ELSE IF to \in c.cfg.merge THEN Br(label_depth(nest, to, FALSE))
    ELSE do_tree(c, nest, to)

emit_structured_terminator(c, nest, block) ==
    LET inst == LastInst(c.f.blocks[block].insts)
        inner == Open(nest, "if", NoValue)
        go(open, to) == do_branch(c, open, block, to)
    IN  CASE inst.op = "jump" -> transfer_block_args(c, inst.a, inst.args) \o go(nest, inst.a)
          [] inst.op = "branch" -> IfCode(get(c, inst.a), go(inner, inst.b), go(inner, inst.c))
          [] inst.op = "switch" ->
               SX!FlattenSeq([k \in DOMAIN inst.cases |->
                                IfCode(case_test(c, inst, k), go(inner, inst.cases[k][2]), <<>>)])
               \o go(nest, inst.b)
          [] OTHER -> emit_inst(c, inst)

straight(c, insts) == SX!FlattenSeq([k \in DOMAIN insts |-> emit_inst(c, insts[k])])

emit_block_code(c, nest, block) ==
    straight(c, SX!Front(c.f.blocks[block].insts)) \o emit_structured_terminator(c, nest, block)

\* The merge blocks a node dominates follow it, the last one in the outermost block.
node_within(c, nest, x, n) ==
    LET child == c.cfg.children[x][n]
    IN  IF n = 0 THEN emit_block_code(c, nest, x)
        ELSE <<[w |-> "block", body |-> node_within(c, Open(nest, "block", child), x, n - 1)]>>
             \o do_tree(c, nest, child)

do_tree(c, nest, x) ==
    LET n == Len(c.cfg.children[x])
    IN  IF x \in c.cfg.header
        THEN <<[w |-> "loop", body |-> node_within(c, Open(nest, "loop", x), x, n)]>>
        ELSE node_within(c, nest, x, n)

(***************************************************************************)
(* The dispatch loop: a loop around nested blocks, the code of block b     *)
(* after the end of the b-th.  A jump sets the state and goes round.       *)
(***************************************************************************)
MutLoop_depth(c, b, extra) == Len(c.f.blocks) - b

loop_depth(c, b, extra) == Len(c.f.blocks) - b + extra
go_to(c, b, x, extra) == <<SetLocal(c.at.state, x)>> \o Br(loop_depth(c, b, extra))
BlockNumber(b) == Const("i32", b - 1)

dispatch_terminator(c, b) ==
    LET inst == LastInst(c.f.blocks[b].insts)
    IN  CASE inst.op = "jump" -> transfer_block_args(c, inst.a, inst.args) \o go_to(c, b, BlockNumber(inst.a), 0)
          [] inst.op = "branch" ->
               go_to(c, b, [o |-> "select", c |-> get(c, inst.a), x |-> BlockNumber(inst.b),
                            y |-> BlockNumber(inst.c)], 0)
          [] inst.op = "switch" ->
               SX!FlattenSeq([k \in DOMAIN inst.cases |->
                                IfCode(case_test(c, inst, k), go_to(c, b, BlockNumber(inst.cases[k][2]), 1), <<>>)])
               \o go_to(c, b, BlockNumber(inst.b), 0)
          [] OTHER -> emit_inst(c, inst)

\* The landing pads: as many nested blocks as the function has, the first block's innermost and
\* the table inside it; each block's code follows the end of its own nest.
landing(c, b) == straight(c, SX!Front(c.f.blocks[b].insts)) \o dispatch_terminator(c, b)

dispatch_loop(c) ==
    <<[w |-> "loop", body |-> <<[w |-> "br_table", x |-> Local(c.at.state),
                                 landings |-> [b \in DOMAIN c.f.blocks |-> landing(c, b)]]>>]>>

\* emit: structured code for a reducible graph, the dispatch loop for any other.
FunctionCode(f, use_dispatch) ==
    LET frame == layout_frame(f)
        needs_frame == frame.size > 0
        c == [f |-> f, frame |-> frame, needs_frame |-> needs_frame, cfg |-> build_cfg(f),
              at |-> assign_locals(f, needs_frame, use_dispatch)]
    IN  prologue(c) \o (IF use_dispatch THEN dispatch_loop(c) ELSE do_tree(c, <<>>, 1))
        \o <<[w |-> "unreachable"]>>

emit_function(f) == FunctionCode(f, ~build_cfg(f).reducible)
=============================================================================
