-------------------------------- MODULE Mir --------------------------------
(***************************************************************************)
(* The shape of a lowered function (compiler/mir.hpp), as the x86-64 back  *)
(* end reads it.  MIR is SSA with block parameters: a value is the result  *)
(* of one instruction or a parameter of one block, and only a jump passes  *)
(* arguments.                                                              *)
(*                                                                         *)
(* A function is a record                                                  *)
(*   insts   its instructions in layout order; instruction i of the code   *)
(*           (counted from 0) is insts[i + 1]                              *)
(*   first, last   the indices of each block's first and last instruction  *)
(*   params  each block's parameters, in order (block 1 is the entry)      *)
(*   float   the values of a floating-point type                           *)
(*                                                                         *)
(* An instruction is a record                                              *)
(*   op      its class: the operations one template of the emitter serves  *)
(*           and the allocator does not tell apart share a class           *)
(*   res     the value it defines, or NoValue                              *)
(*   args    its value operands, in the order for_each_use visits them     *)
(*   to      the blocks a terminator names, in order                       *)
(*   regs    the registers an asm block names or clobbers, its result      *)
(*           register included, and those a template picks by name         *)
(*   byval   the argument positions a call passes by value on the stack    *)
(*   two     whether a call returns two words through its last argument    *)
(***************************************************************************)
EXTENDS Integers, Sequences, FiniteSets

CONSTANT Programs           \* the functions considered

NoValue == 0

\* Values are dense indices in the code; here they are 1..n.
Value == Nat \ {0}

CallLike == {"call", "callind", "mem", "frem"}
Terminators == {"jump", "branch", "switch", "return", "unreachable"}
Straight == {"const", "fconst", "load", "fload", "store", "fstore", "alu", "falu", "fneg",
             "bitcast", "itof", "ftoi", "div", "shift", "stackalloc", "icmp", "fcmp", "select"}
Ops == CallLike \cup Terminators \cup Straight \cup {"asm"}

Insts == [op : Ops, res : Nat, args : Seq(Value), to : Seq(Nat), regs : SUBSET (0 .. 31),
          byval : SUBSET Nat, two : BOOLEAN]

Blocks(f) == DOMAIN f.first
Indices(f) == 0 .. Len(f.insts) - 1
InstAt(f, i) == f.insts[i + 1]
InBlock(f, b) == f.first[b] .. f.last[b]

\* The operands an instruction reads.
Uses(f, i) == {InstAt(f, i).args[k] : k \in DOMAIN InstAt(f, i).args}

ParamsOf(f, b) == {f.params[b][k] : k \in DOMAIN f.params[b]}

Values(f) == UNION {ParamsOf(f, b) : b \in Blocks(f)}
               \cup ({InstAt(f, i).res : i \in Indices(f)} \ {NoValue})

\* The blocks control may reach next, from the last instruction of b.
Successors(f, b) ==
  LET last == InstAt(f, f.last[b])
  IN  {last.to[k] : k \in DOMAIN last.to}

\* index_blocks: the blocks one after the other, from the entry block at 0.
LaidOut(f) ==
  /\ f.first[1] = 0
  /\ f.last[Len(f.last)] = Len(f.insts) - 1
  /\ \A b \in Blocks(f) \ {1} : f.first[b] = f.last[b - 1] + 1

\* What mir::verify insists on: a body has a block, every block ends in its only terminator,
\* targets exist, a jump passes one argument per parameter and nothing else passes any, an
\* indirect call has a callee, and operands are defined.
Verified(f) ==
  /\ Blocks(f) # {}
  /\ \A b \in Blocks(f) :
       /\ f.first[b] \in Indices(f) /\ f.last[b] \in Indices(f) /\ f.first[b] <= f.last[b]
       /\ \A i \in InBlock(f, b) : InstAt(f, i).op \in Terminators <=> i = f.last[b]
       /\ Successors(f, b) \subseteq Blocks(f)
       /\ InstAt(f, f.last[b]).op = "jump" =>
            /\ Len(InstAt(f, f.last[b]).to) = 1
            /\ Len(InstAt(f, f.last[b]).args) = Len(f.params[InstAt(f, f.last[b]).to[1]])
       /\ InstAt(f, f.last[b]).op = "branch" => Len(InstAt(f, f.last[b]).to) = 2
       /\ InstAt(f, f.last[b]).op \in {"branch", "switch"} =>
            \A t \in Successors(f, b) : f.params[t] = <<>>
  /\ \A i \in Indices(f) :
       /\ Uses(f, i) \subseteq Values(f)
       /\ InstAt(f, i).op = "callind" => InstAt(f, i).args # <<>>

\* A function as the lowering hands it over.
Functions ==
  {f \in [insts : Seq(Insts), first : Seq(Nat), last : Seq(Nat), params : Seq(Seq(Value)),
          float : SUBSET Value] :
     /\ Blocks(f) = DOMAIN f.last /\ Blocks(f) = DOMAIN f.params
     /\ Verified(f) /\ LaidOut(f)}

ASSUME ProgramsAssumption == Programs \subseteq Functions
=============================================================================
