---------------------------- MODULE MC_X86Emit ----------------------------
(***************************************************************************)
(* Functions for TLC.  Each family puts one operation, or one control-flow *)
(* shape, under a given register pressure: "ints" integer values defined   *)
(* before it and read after it, and "floats" float values likewise.        *)
(***************************************************************************)
EXTENDS X86Emit, TLC

\* Instructions.
I(op, res, args) == [op |-> op, res |-> res, args |-> args, to |-> <<>>, regs |-> {}, byval |-> {},
                     two |-> FALSE]
To(inst, blocks) == [inst EXCEPT !.to = blocks]
JumpTo(t, args) == To(I("jump", NoValue, args), <<t>>)
Return1(v) == I("return", NoValue, <<v>>)

\* index_blocks: the blocks laid out one after the other.
Lay(blocks, float) ==
  LET before(b) == Len(InTurn([c \in 1 .. b - 1 |-> blocks[c].insts]))
  IN  [insts |-> InTurn([b \in DOMAIN blocks |-> blocks[b].insts]),
       first |-> [b \in DOMAIN blocks |-> before(b)],
       last |-> [b \in DOMAIN blocks |-> before(b) + Len(blocks[b].insts) - 1],
       params |-> [b \in DOMAIN blocks |-> blocks[b].params],
       float |-> float]

Block(params, insts) == [params |-> params, insts |-> insts]

\* The pressure: values 20.. (integers) and 50.. (floats), live from a function's first
\* instructions to its last.
IntsBefore(n) == [k \in 1 .. n |-> I("const", 20 + k, <<>>)]
FloatsBefore(n) == [k \in 1 .. n |-> I("fconst", 50 + k, <<>>)]
IntsAfter(n) == [k \in 1 .. n |-> I("store", NoValue, <<1, 20 + k>>)]
FloatsAfter(n) == [k \in 1 .. n |-> I("fstore", NoValue, <<1, 50 + k>>)]
Floats == {3, 4, 7, 11, 12} \cup 50 .. 80

\* A function of two integer and two float parameters: the pressure, the operations, the pressure.
Under(p, ops) ==
  Lay(<<Block(<<1, 2, 3, 4>>,
              FloatsBefore(p.floats) \o IntsBefore(p.ints) \o ops
                \o FloatsAfter(p.floats) \o IntsAfter(p.ints) \o <<Return1(5)>>)>>, Floats)

Straights ==
  [alu |-> <<I("alu", 5, <<1, 2>>)>>,
   unary |-> <<I("alu", 5, <<2>>)>>,
   load |-> <<I("load", 5, <<2>>), I("fload", 7, <<5>>), I("fstore", NoValue, <<2, 7>>)>>,
   div |-> <<I("div", 5, <<1, 2>>)>>,
   shift |-> <<I("shift", 6, <<2, 1>>), I("shift", 5, <<6, 6>>)>>,
   alloc |-> <<I("stackalloc", 5, <<2>>)>>,
   icmp |-> <<I("icmp", 5, <<1, 2>>)>>,
   select |-> <<I("select", 5, <<1, 2, 1>>)>>,
   falu |-> <<I("falu", 7, <<3, 4>>), I("ftoi", 5, <<7>>)>>,
   fneg |-> <<I("fneg", 7, <<3>>), I("ftoi", 5, <<7>>)>>,
   itof |-> <<I("itof", 7, <<2>>), I("bitcast", 5, <<7>>)>>,
   asm |-> <<[I("asm", 5, <<1>>) EXCEPT !.regs = {RDX, R10}]>>]

FlagStraights ==
  [fcmp |-> <<I("fcmp", 5, <<3, 4>>)>>,
   fselect |-> <<I("select", 7, <<1, 3, 4>>), I("ftoi", 5, <<7>>)>>]

Calls ==
  [call |-> <<I("call", 5, <<2, 1>>)>>,
   swap |-> <<I("call", 6, <<2, 1, 3, 2>>), I("call", 5, <<6, 1, 4, 3>>)>>,
   fcall |-> <<I("call", 7, <<4, 3>>), I("ftoi", 5, <<7>>)>>,
   callind |-> <<[I("callind", NoValue, <<2, 1, 2, 1>>) EXCEPT !.byval = {2}, !.two = TRUE],
                 I("const", 5, <<>>)>>,
   stacked |-> <<I("call", 5, <<1, 2, 1, 2, 1, 2, 1, 2>>)>>,
   permuted |-> <<I("fload", 7, <<1>>), I("fload", 11, <<2>>), I("call", 12, <<11, 7, 4, 3>>),
                  I("fstore", NoValue, <<1, 3>>), I("fstore", NoValue, <<1, 4>>),
                  I("fstore", NoValue, <<1, 7>>), I("fstore", NoValue, <<2, 11>>),
                  I("ftoi", 5, <<12>>)>>,
   mem |-> <<I("mem", NoValue, <<2, 1, 2>>), I("frem", 7, <<4, 3>>), I("ftoi", 5, <<7>>)>>]

\* A function under pressure that ends in block "last".
Entry(p, insts) == Block(<<1, 2, 3, 4>>, FloatsBefore(p.floats) \o IntsBefore(p.ints) \o insts)
Exit(p, params, insts) == Block(params, FloatsAfter(p.floats) \o IntsAfter(p.ints) \o insts)

\* A join that takes parameters; a loop that swaps its parameters around a call; a switch in a loop.
Diamond(p) ==
  <<Entry(p, <<To(I("branch", NoValue, <<1>>), <<2, 3>>)>>),
    Block(<<>>, <<I("alu", 6, <<1, 2>>), JumpTo(4, <<6, 3>>)>>),
    Block(<<>>, <<JumpTo(4, <<2, 4>>)>>),
    Exit(p, <<8, 7>>, <<I("fstore", NoValue, <<8, 7>>), Return1(8)>>)>>

SwapLoop(p) ==
  <<Entry(p, <<JumpTo(2, <<1, 2, 3, 4>>)>>),
    Block(<<8, 9, 11, 12>>, <<I("icmp", 6, <<8, 9>>), To(I("branch", NoValue, <<6>>), <<3, 4>>)>>),
    Block(<<>>, <<I("call", 10, <<8, 11>>), JumpTo(2, <<9, 8, 12, 11>>)>>),
    Exit(p, <<>>, <<I("fstore", NoValue, <<9, 11>>), Return1(8)>>)>>

SwitchLoop(p) ==
  <<Entry(p, <<JumpTo(2, <<1, 2>>)>>),
    Block(<<8, 9>>, <<To(I("switch", NoValue, <<8>>), <<5, 3, 4>>)>>),
    Block(<<>>, <<I("div", 10, <<8, 9>>), JumpTo(2, <<10, 8>>)>>),
    Block(<<>>, <<I("unreachable", NoValue, <<>>)>>),
    Exit(p, <<>>, <<Return1(9)>>)>>

\* A counted loop as the lowering lays it out: condition, body, step and end are created first,
\* so the blocks of an "if" in the body come after the step they flow into.
ForLoop(p) ==
  <<Entry(p, <<JumpTo(2, <<1, 3>>)>>),
    Block(<<8, 11>>, <<I("icmp", 6, <<8, 2>>), To(I("branch", NoValue, <<6>>), <<3, 5>>)>>),
    Block(<<>>, <<To(I("branch", NoValue, <<6>>), <<6, 7>>)>>),
    Block(<<>>, <<I("alu", 10, <<8>>), JumpTo(2, <<10, 12>>)>>),
    Exit(p, <<>>, <<I("ftoi", 5, <<11>>), Return1(5)>>),
    Block(<<>>, <<I("call", NoValue, <<8>>), JumpTo(7, <<>>)>>),
    Block(<<>>, <<I("call", 12, <<11>>), JumpTo(4, <<>>)>>)>>

Ops1 == Straights @@ FlagStraights @@ Calls
MultiBlock == {"diamond", "swaploop", "switchloop", "forloop"}

Program(name, p) ==
  CASE name = "diamond" -> Lay(Diamond(p), Floats)
    [] name = "swaploop" -> Lay(SwapLoop(p), Floats)
    [] name = "switchloop" -> Lay(SwitchLoop(p), Floats)
    [] name = "forloop" -> Lay(ForLoop(p), Floats)
    [] OTHER -> Under(p, Ops1[name])

Family(names, ints, floats) ==
  {Program(n, [ints |-> i, floats |-> f]) : n \in names, i \in ints, f \in floats}

\* Four and seven integers leave scratch registers free, take them all and reach the callee-saved
\* ones; fifteen put every register to use, so that leases push; seventeen floats fill the XMMs.
SoundPrograms ==
  Family(DOMAIN Straights \cup DOMAIN Calls \cup (MultiBlock \ {"forloop"}), {0, 4, 7, 15}, {0, 17})
    \cup Family(DOMAIN FlagStraights, {0, 7, 15}, {0, 4})

\* The counted loop whose step is laid out before the blocks that flow into it.
ForLoopPrograms == Family({"forloop"}, {0}, {0})
=============================================================================
