------------------------------ MODULE X86Emit ------------------------------
(***************************************************************************)
(* The emitter (compiler/backend_x86.cpp) and the machine that runs what   *)
(* it emits.  A template is a sequence of machine steps: moves between     *)
(* locations, reads of an operand where the template expects it, results   *)
(* written, registers clobbered, scratch registers pushed and popped.  The *)
(* machine keeps only WHERE EACH VALUE IS: "holds" relates a value to the  *)
(* locations that hold its current instance, so a template that reads an   *)
(* operand from a location not related to it has read something else.      *)
(***************************************************************************)
EXTENDS X86RegAlloc

VARIABLES
  ip,        \* the instruction being executed; -1 in the prologue
  code,      \* what is left of its template
  holds,     \* <<value, location>>: the location holds the value's current instance
  stack      \* what the pushes of leased registers saved, innermost first

emitVars == <<ip, code, holds, stack>>
vars == <<allocVars, emitVars>>

\* Locations: a register, a spill or save area, a block parameter's staging slot, a callee-saved
\* register's slot, a slot of the outgoing or incoming argument area, the return-pointer stash,
\* and the flags.
R(r) == <<0, r>>
Area(k) == <<1, k>>
Staging(p) == <<2, p>>
CalleeSlot(r) == <<3, r>>
OutArg(k) == <<4, k>>
InArg(k) == <<5, k>>
RetStash == <<6, 0>>
Flags == <<7, 0>>

\* Two kinds of content that are not MIR values: the caller's contents of a callee-saved register,
\* and the outcome of the last compare.
Caller(r) == -1 - r
Outcome == -100

\* The machine steps.
Movs(moves) == <<<<"movs", moves>>>>
Mov(d, s) == Movs({<<d, s>>})
Use(v, l) == <<<<"use", v, l>>>>
Write(v, d) == <<<<"def", v, d>>>>
Clobber(ls) == <<<<"clobber", ls>>>>
Push(r) == <<<<"push", r>>>>
Pop(r) == <<<<"pop", r>>>>
Bind(t) == <<<<"bind", t>>>>
Goto(i) == <<<<"goto", i>>>>
Ret == <<<<"ret">>>>

\* The sequences ss[1], ss[2], ... one after the other.
InTurn(ss) ==
  LET upTo[k \in 0 .. Len(ss)] == IF k = 0 THEN <<>> ELSE upTo[k - 1] \o ss[k]
  IN  upTo[Len(ss)]

-----------------------------------------------------------------------------
(* Assignment access and the sweep's view of instruction i.                *)

\* Where a value lives: its register or its spill area.
Home(v) == IF asg[v].spilled THEN Area(asg[v].spillIx) ELSE R(asg[v].reg)
SaveArea(v) == Area(asg[v].saveIx)

\* advance_to: the register intervals that touch the positions of instruction i.
ActiveAt(i) == {v \in DOMAIN iv : ~ asg[v].spilled /\ iv[v].end >= PosE(i) /\ iv[v].start <= PosL(i)}

Excl(vs) == {asg[v].reg : v \in {w \in vs : ~ asg[w].spilled}}

\* The registers leases are drawn from, in order.
Candidates == <<R10, R11, RAX, RCX, RDX, RSI, RDI, R8, R9, RBX, R12, R13, R14, R15>>
XmmCandidates == [k \in 1 .. 16 |-> XMM(16 - k)]

\* lease_gpr and lease_xmm: the first register neither excluded, nor leased, nor holding an active
\* interval; or else the first that is not excluded, its contents pushed.
Lease(order, i, exclude, leased) ==
  LET occupied == leased \cup {asg[v].reg : v \in ActiveAt(i)}
      ok == {k \in DOMAIN order : order[k] \notin exclude}
      free == {k \in ok : order[k] \notin occupied}
  IN  IF free # {} THEN [reg |-> order[Least(free)], pushed |-> FALSE]
                   ELSE [reg |-> order[Least(ok)], pushed |-> TRUE]

Gpr(i, exclude, leased) == Lease(Candidates, i, exclude, leased)
Xmm(i, exclude, leased) == Lease(XmmCandidates, i, exclude, leased)

\* A register a template already has: no lease.
Own(reg) == [reg |-> reg, pushed |-> FALSE]

\* Taking and giving back a lease. An XMM victim is parked by moving rsp, which writes the flags.
RspMoves(l) == IF IsXmm(l.reg) THEN Clobber({Flags}) ELSE <<>>
Take(l) == IF l.pushed THEN RspMoves(l) \o Push(l.reg) ELSE <<>>

\* A mutant: the victim is popped only when the lease is in a general-purpose register.
MutRelease(l) == IF l.pushed /\ ~ IsXmm(l.reg) THEN Pop(l.reg) ELSE <<>>

Release(l) == IF l.pushed THEN Pop(l.reg) \o RspMoves(l) ELSE <<>>

\* use_gpr, use_xmm: the value's own register, or a lease to load it into.
UseIn(order, i, v, exclude, leased) ==
  IF asg[v].spilled THEN Lease(order, i, exclude, leased) ELSE Own(asg[v].reg)
Fetch(v, l) == IF asg[v].spilled THEN Take(l) \o Mov(R(l.reg), Home(v)) ELSE <<>>

\* def_gpr, def_xmm: the result's own register, or a lease to compute it in.
DefIn(order, i, v, exclude, leased) == UseIn(order, i, v, exclude, leased)

\* gpr_into, xmm_into, and commit_gpr, commit_xmm.
Into(v, reg) == IF Home(v) = R(reg) THEN <<>> ELSE Mov(R(reg), Home(v))
Commit(v, reg) == IF Home(v) = R(reg) THEN <<>> ELSE Mov(Home(v), R(reg))

\* The registers leased so far, for the next lease of the same template.
Held(v, l) == IF asg[v].spilled THEN {l.reg} ELSE {}
-----------------------------------------------------------------------------
(* The templates of the straight-line operations.  Each is the set of step *)
(* sequences it may run as instruction i: more than one where the code     *)
(* picks by type or width, or branches inside the template.                *)

Arg(i, k) == InstAt(fn, i).args[k]
Res(i) == InstAt(fn, i).res
IsFloat(v) == v \in fn.float
OrderFor(v) == IF IsFloat(v) THEN XmmCandidates ELSE Candidates

\* materialize: constants and addresses.
Materialize(i) ==
  LET d == DefIn(Candidates, i, Res(i), {}, {})
  IN  {Take(d) \o Write(Res(i), R(d.reg)) \o Commit(Res(i), d.reg) \o Release(d)}

\* A float constant rides a leased GPR into its home.
MaterializeFloat(i) ==
  LET l == Gpr(i, {}, {})
  IN  {Take(l) \o Clobber({R(l.reg)}) \o Write(Res(i), Home(Res(i))) \o Release(l)}

\* The two-address shape of integer and float arithmetic: mov dst, a; op dst, b.
TwoAddress(i) ==
  LET d == DefIn(OrderFor(Res(i)), i, Res(i), Excl(Uses(fn, i)), {})
  IN  {Take(d) \o Into(Arg(i, 1), d.reg) \o Use(Arg(i, 1), R(d.reg))
         \o InTurn([k \in 1 .. Len(InstAt(fn, i).args) - 1 |->
                            Use(Arg(i, k + 1), Home(Arg(i, k + 1)))])
         \o Write(Res(i), R(d.reg)) \o Commit(Res(i), d.reg) \o Release(d)}

LoadOp(i) ==
  LET a == Arg(i, 1)
      al == UseIn(Candidates, i, a, Excl({Res(i)}), {})
      d == IF IsFloat(Res(i)) THEN DefIn(XmmCandidates, i, Res(i), {}, {})
           ELSE DefIn(Candidates, i, Res(i), Excl({a}) \cup {al.reg}, Held(a, al))
  IN  {Fetch(a, al) \o Take(d) \o Use(a, R(al.reg)) \o Write(Res(i), R(d.reg))
         \o Commit(Res(i), d.reg) \o Release(d) \o Release(al)}

StoreOp(i) ==
  LET a == Arg(i, 1)
      b == Arg(i, 2)
      al == UseIn(Candidates, i, a, Excl({b}), {})
      bl == IF IsFloat(b) THEN UseIn(XmmCandidates, i, b, {}, {})
            ELSE UseIn(Candidates, i, b, Excl({a}) \cup {al.reg}, Held(a, al))
  IN  {Fetch(a, al) \o Fetch(b, bl) \o Use(a, R(al.reg)) \o Use(b, R(bl.reg))
         \o Release(bl) \o Release(al)}

\* fneg: the bits go through a GPR, the sign mask through another.
FNeg(i) ==
  LET a == Arg(i, 1)
      l == Gpr(i, {}, {})
      mask == Gpr(i, {l.reg}, {l.reg})
  IN  {Take(l) \o Mov(R(l.reg), Home(a)) \o Take(mask) \o Clobber({R(mask.reg)})
         \o Use(a, R(l.reg)) \o Write(Res(i), R(l.reg)) \o Release(mask)
         \o Mov(Home(Res(i)), R(l.reg)) \o Release(l)}

Bitcast(i) ==
  LET a == Arg(i, 1)
      l == Gpr(i, Excl({a, Res(i)}), {})
  IN  {Take(l) \o Mov(R(l.reg), Home(a)) \o Use(a, R(l.reg)) \o Write(Res(i), R(l.reg))
         \o Mov(Home(Res(i)), R(l.reg)) \o Release(l)}

IntToFloat(i) ==
  LET a == Arg(i, 1)
      l == Gpr(i, Excl({a, Res(i)}), {})
      d == DefIn(XmmCandidates, i, Res(i), {}, {})
  IN  {Take(l) \o Into(a, l.reg) \o Take(d) \o Use(a, R(l.reg)) \o Write(Res(i), R(d.reg))
         \o Commit(Res(i), d.reg) \o Release(d) \o Release(l)}

FloatToInt(i) ==
  LET a == Arg(i, 1)
      al == UseIn(XmmCandidates, i, a, {}, {})
      d == DefIn(Candidates, i, Res(i), Excl({a}), {})
  IN  {Fetch(a, al) \o Take(d) \o Use(a, R(al.reg)) \o Write(Res(i), R(d.reg))
         \o Commit(Res(i), d.reg) \o Release(d) \o Release(al)}

\* Division: a in rax, rdx cleared or sign-filled, a narrow signed divisor through a lease.
Divide(i) ==
  LET a == Arg(i, 1)
      b == Arg(i, 2)
      l == Gpr(i, Excl({a, b, Res(i)}) \cup {RAX, RDX}, {})
      divisor(narrow) ==
        IF narrow THEN Take(l) \o Into(b, l.reg) \o Use(b, R(l.reg)) ELSE Use(b, Home(b))
  IN  {Into(a, RAX) \o Clobber({R(RDX)}) \o divisor(narrow) \o Use(a, R(RAX))
         \o Clobber({R(RAX), R(RDX)}) \o Write(Res(i), R(out))
         \o (IF narrow THEN Release(l) ELSE <<>>) \o Commit(Res(i), out) :
       narrow \in BOOLEAN, out \in {RAX, RDX}}

Shift(i) ==
  LET a == Arg(i, 1)
      b == Arg(i, 2)
      d == DefIn(Candidates, i, Res(i), Excl({a, b}) \cup {RCX}, {})
  IN  {Into(b, RCX) \o Take(d) \o Into(a, d.reg) \o Use(a, R(d.reg)) \o Use(b, R(RCX))
         \o Write(Res(i), R(d.reg)) \o Commit(Res(i), d.reg) \o Release(d)}

StackAlloc(i) ==
  {Into(Arg(i, 1), RAX) \o Use(Arg(i, 1), R(RAX)) \o Write(Res(i), R(RAX)) \o Commit(Res(i), RAX)}

\* Comparisons: the outcome travels in the flags from the compare to the setcc.
ICmp(i) ==
  LET a == Arg(i, 1)
      b == Arg(i, 2)
      al == UseIn(Candidates, i, a, Excl({b, Res(i)}), {})
      d == DefIn(Candidates, i, Res(i), Excl({a, b}), {})
  IN  {Fetch(a, al) \o Use(a, R(al.reg)) \o Use(b, Home(b)) \o Write(Outcome, Flags) \o Release(al)
         \o Take(d) \o Use(Outcome, Flags) \o Write(Res(i), R(d.reg)) \o Commit(Res(i), d.reg)
         \o Release(d)}

\* emit_fcmp compares swapped for the less-than forms, and equality needs the parity flag too.
FCmp(i) ==
  LET one(first, second, equality) ==
        LET fl == UseIn(XmmCandidates, i, first, Excl({second}), {})
            d == DefIn(Candidates, i, Res(i), {}, {})
            parity == Gpr(i, {d.reg}, Held(Res(i), d))
        IN  Fetch(first, fl) \o Use(first, R(fl.reg)) \o Use(second, Home(second))
              \o Write(Outcome, Flags) \o Release(fl) \o Take(d)
              \o (IF equality
                  THEN Take(parity) \o Use(Outcome, Flags) \o Clobber({R(parity.reg)})
                         \o Use(Outcome, Flags) \o Write(Res(i), R(d.reg)) \o Release(parity)
                  ELSE Use(Outcome, Flags) \o Write(Res(i), R(d.reg)))
              \o Commit(Res(i), d.reg) \o Release(d)
  IN  {one(Arg(i, 1), Arg(i, 2), TRUE), one(Arg(i, 1), Arg(i, 2), FALSE),
       one(Arg(i, 2), Arg(i, 1), FALSE)}

\* select: branchy; only the chosen side is read.
Select(i) ==
  LET a == Arg(i, 1)
      al == UseIn(Candidates, i, a, Excl({Arg(i, 2), Arg(i, 3), Res(i)}), {})
      d == DefIn(OrderFor(Res(i)), i, Res(i), Excl(Uses(fn, i)), {})
  IN  {Fetch(a, al) \o Use(a, R(al.reg)) \o Write(Outcome, Flags) \o Release(al) \o Take(d)
         \o Use(Outcome, Flags) \o Into(Arg(i, k), d.reg) \o Use(Arg(i, k), R(d.reg))
         \o Write(Res(i), R(d.reg)) \o Commit(Res(i), d.reg) \o Release(d) : k \in {2, 3}}

-----------------------------------------------------------------------------
(* Calls.                                                                  *)

\* The values parked around the call at instruction i.
Parked(i) == {v \in ActiveAt(i) : asg[v].save /\ Crosses(iv[v], i)}
CallSaves(i) == Movs({<<SaveArea(v), Home(v)>> : v \in Parked(i)})
CallRestores(i) == Movs({<<Home(v), SaveArea(v)>> : v \in Parked(i)})

\* A mutant: an operand parked around the call is still read from its register.
MutCallOperand(i, v) == Home(v)

\* Where a call template reads an operand: a parked value from its save area, because the template
\* may already have overwritten its register.
CallOperand(i, v) == IF v \in Parked(i) THEN SaveArea(v) ELSE Home(v)
ArgInto(i, v, reg) == IF CallOperand(i, v) = R(reg) THEN <<>> ELSE Mov(R(reg), CallOperand(i, v))

ClobberCall == Clobber({R(r) : r \in CallerSaved \cup Xmms} \cup {Flags})

IntArgRegs == <<RDI, RSI, RDX, RCX, R8, R9>>

\* System V classification of the arguments: the k-th of its class takes a register while there
\* is one, and by-value aggregates and the rest go to the stack.
SameClassBefore(args, byval, k) ==
  Cardinality({j \in 1 .. k - 1 : j \notin byval /\ (IsFloat(args[j]) <=> IsFloat(args[k]))})
ArgPlace(args, byval, k) ==
  LET n == SameClassBefore(args, byval, k)
  IN  IF k \in byval THEN OutArg(k)
      ELSE IF IsFloat(args[k]) THEN (IF n < 8 THEN R(XMM(n)) ELSE OutArg(k))
      ELSE IF n < 6 THEN R(IntArgRegs[n + 1]) ELSE OutArg(k)

\* emit_call: park, stash the two-word return pointer, stack arguments, callee, register
\* arguments, call, result, the two returned words, unpark.
Call(i) ==
  LET inst == InstAt(fn, i)
      indirect == inst.op = "callind"
      passed == IF indirect THEN Tail(inst.args) ELSE inst.args
      pair == passed[Len(passed)]
      args == IF inst.two THEN SubSeq(passed, 1, Len(passed) - 1) ELSE passed
      place(k) == ArgPlace(args, inst.byval, k)
      toStack(k) ==
        IF place(k) # OutArg(k) THEN <<>>
        ELSE IF k \in inst.byval
        THEN ArgInto(i, args[k], R11) \o Use(args[k], R(R11)) \o Clobber({R(RAX)})
        ELSE ArgInto(i, args[k], RAX) \o Mov(OutArg(k), R(RAX))
      toReg(k) == IF place(k) = OutArg(k) THEN <<>> ELSE ArgInto(i, args[k], place(k)[2])
      read(k) == IF k \in inst.byval THEN <<>> ELSE Use(args[k], place(k))
      out == IF IsFloat(Res(i)) THEN XMM(0) ELSE RAX
  IN  {CallSaves(i)
         \o (IF inst.two THEN ArgInto(i, pair, RAX) \o Mov(RetStash, R(RAX)) ELSE <<>>)
         \o InTurn([k \in DOMAIN args |-> toStack(k)])
         \o (IF indirect THEN ArgInto(i, inst.args[1], R11) ELSE <<>>)
         \o InTurn([k \in DOMAIN args |-> toReg(k)])
         \o (IF indirect THEN Use(inst.args[1], R(R11)) ELSE <<>>)
         \o InTurn([k \in DOMAIN args |-> read(k)]) \o ClobberCall
         \o (IF Res(i) = NoValue THEN <<>> ELSE Write(Res(i), R(out)) \o Commit(Res(i), out))
         \o (IF inst.two THEN Mov(R(R11), RetStash) \o Use(pair, R(R11)) ELSE <<>>)
         \o CallRestores(i)}

\* emit_mem_op and emit_frem: library calls with fixed argument registers.
LibraryCall(i, regs) ==
  LET args == InstAt(fn, i).args
      pass(k) == ArgInto(i, Arg(i, k), regs[k])
      read(k) == Use(Arg(i, k), R(regs[k]))
  IN  {CallSaves(i) \o InTurn([k \in DOMAIN args |-> pass(k)])
         \o InTurn([k \in DOMAIN args |-> read(k)]) \o ClobberCall
         \o (IF Res(i) = NoValue THEN <<>>
             ELSE Write(Res(i), R(regs[1])) \o Commit(Res(i), regs[1]))
         \o CallRestores(i)}

\* emit_asm: variable operands are frame slots, so only the registers the block names are
\* written; the result is one of them at the block's exit.
InlineAsm(i) ==
  LET regs == InstAt(fn, i).regs
  IN  IF Res(i) = NoValue THEN {Clobber({R(r) : r \in regs})}
      ELSE {Clobber({R(r) : r \in regs}) \o Write(Res(i), R(out)) \o Commit(Res(i), out) :
            out \in regs}

-----------------------------------------------------------------------------
(* Control flow.                                                           *)

\* load_param_from_staging.
LoadParam(i, p) ==
  LET l == Gpr(i, {}, {})
  IN  IF asg[p].spilled
      THEN Take(l) \o Mov(R(l.reg), Staging(p)) \o Mov(Home(p), R(l.reg)) \o Release(l)
      ELSE Mov(Home(p), Staging(p))

\* A mutant: arguments go straight to the parameters' homes, one after the other.
MutPassBlockArgs(i, params) ==
  InTurn([k \in DOMAIN params |-> Use(Arg(i, k), Home(Arg(i, k)))
                                         \o Mov(Home(params[k]), Home(Arg(i, k)))])

\* pass_block_args: every argument into its parameter's staging slot, and only then every
\* staging slot into its parameter's home.
PassBlockArgs(i, params) ==
  LET l == Gpr(i, {}, {})
      stage(k) ==
        IF asg[Arg(i, k)].spilled
        THEN Take(l) \o Mov(R(l.reg), Home(Arg(i, k))) \o Use(Arg(i, k), R(l.reg))
               \o Mov(Staging(params[k]), R(l.reg)) \o Release(l)
        ELSE Use(Arg(i, k), Home(Arg(i, k))) \o Mov(Staging(params[k]), Home(Arg(i, k)))
  IN  InTurn([k \in DOMAIN params |-> stage(k)])
        \o InTurn([k \in DOMAIN params |-> LoadParam(i, params[k])])

Jump(i) ==
  LET t == InstAt(fn, i).to[1]
  IN  {PassBlockArgs(i, fn.params[t]) \o Bind(t) \o Goto(fn.first[t])}

Branch(i) ==
  LET a == Arg(i, 1)
      al == UseIn(Candidates, i, a, {}, {})
  IN  {Fetch(a, al) \o Use(a, R(al.reg)) \o Write(Outcome, Flags) \o Release(al)
         \o Use(Outcome, Flags) \o Goto(fn.first[InstAt(fn, i).to[k]]) : k \in {1, 2}}

\* switch: the compare loop owns rax (a spilled scrutinee) and rcx (the case value).
Switch(i) ==
  LET a == Arg(i, 1)
      scrutinee == IF asg[a].spilled THEN R(RAX) ELSE Home(a)
  IN  {(IF asg[a].spilled THEN Into(a, RAX) ELSE <<>>) \o Clobber({R(RCX)}) \o Use(a, scrutinee)
         \o Goto(fn.first[InstAt(fn, i).to[k]]) : k \in DOMAIN InstAt(fn, i).to}

\* return: the value into its return register, then the epilogue's reloads.
Return(i) ==
  LET a == Arg(i, 1)
      out == IF IsFloat(a) THEN XMM(0) ELSE RAX
      epilogue == Movs({<<R(r), CalleeSlot(r)>> : r \in used})
  IN  IF InstAt(fn, i).args = <<>> THEN {epilogue \o Ret}
      ELSE {Into(a, out) \o epilogue \o Use(a, R(out)) \o Ret}

\* emit_inst.
Template(i) ==
  LET op == InstAt(fn, i).op
      straight ==
        CASE op = "const" -> Materialize(i)
          [] op = "fconst" -> MaterializeFloat(i)
          [] op \in {"load", "fload"} -> LoadOp(i)
          [] op \in {"store", "fstore"} -> StoreOp(i)
          [] op \in {"alu", "falu"} -> TwoAddress(i)
          [] op = "fneg" -> FNeg(i)
          [] op = "bitcast" -> Bitcast(i)
          [] op = "itof" -> IntToFloat(i)
          [] op = "ftoi" -> FloatToInt(i)
          [] op = "div" -> Divide(i)
          [] op = "shift" -> Shift(i)
          [] op = "stackalloc" -> StackAlloc(i)
          [] op = "icmp" -> ICmp(i)
          [] op = "fcmp" -> FCmp(i)
          [] op = "select" -> Select(i)
          [] op \in {"call", "callind"} -> Call(i)
          [] op = "mem" -> LibraryCall(i, <<RDI, RSI, RDX>>)
          [] op = "frem" -> LibraryCall(i, <<XMM(0), XMM(1)>>)
          [] op = "asm" -> InlineAsm(i)
  IN  CASE op = "jump" -> Jump(i)
        [] op = "branch" -> Branch(i)
        [] op = "switch" -> Switch(i)
        [] op = "return" -> Return(i)
        [] op = "unreachable" -> {<<<<"trap">>>>}
        [] OTHER -> {steps \o Goto(i + 1) : steps \in straight}

\* emit: save the callee-saved registers the assignment uses, park every incoming argument in
\* memory, and only then load the parameters that live in registers.
Incoming(k) ==
  LET place == ArgPlace(fn.params[1], {}, k)
  IN  IF place[1] = 0 THEN place ELSE InArg(k)

Prologue ==
  LET ps == fn.params[1]
      parkIn(p) == IF asg[p].spilled THEN Home(p) ELSE Staging(p)
      park(k) == IF Incoming(k)[1] = 0 THEN Mov(parkIn(ps[k]), Incoming(k))
                 ELSE Mov(R(RAX), Incoming(k)) \o Mov(parkIn(ps[k]), R(RAX))
      load(k) == IF asg[ps[k]].spilled THEN <<>> ELSE Mov(Home(ps[k]), Staging(ps[k]))
  IN  Movs({<<CalleeSlot(r), R(r)>> : r \in used})
        \o InTurn([k \in DOMAIN ps |-> park(k)])
        \o InTurn([k \in DOMAIN ps |-> load(k)])

-----------------------------------------------------------------------------
(* The machine.                                                            *)

Init ==
  /\ AllocInit
  /\ ip = -1 /\ code = <<>> /\ holds = {} /\ stack = <<>>

Allocate == AllocNext /\ UNCHANGED emitVars

\* generate: a verified assignment is emitted, and the function is called; a finding of the
\* verifier aborts the compile instead.
Enter ==
  /\ phase = "done" /\ errors = {} /\ ip = -1 /\ code = <<>>
  /\ code' = Prologue \o Goto(0)
  /\ holds' = {<<fn.params[1][k], Incoming(k)>> : k \in DOMAIN fn.params[1]}
                \cup {<<Caller(r), R(r)>> : r \in CalleeSaved}
  /\ UNCHANGED <<allocVars, ip, stack>>

Running(step) == code # <<>> /\ code[1][1] = step
Continue == code' = Tail(code) /\ UNCHANGED <<allocVars, ip>>

Move ==
  /\ Running("movs") /\ Continue
  /\ LET moves == code[1][2]
         written == {m[1] : m \in moves}
     IN  holds' = {h \in holds : h[2] \notin written}
                    \cup UNION {{<<h[1], m[1]>> : h \in {g \in holds : g[2] = m[2]}} : m \in moves}
  /\ UNCHANGED stack

\* An operand read changes nothing; EveryReadFindsItsValue says what it must find.
Read == Running("use") /\ Continue /\ UNCHANGED <<holds, stack>>

Define ==
  /\ Running("def") /\ Continue
  /\ holds' = {h \in holds : h[1] # code[1][2] /\ h[2] # code[1][3]} \cup {<<code[1][2], code[1][3]>>}
  /\ UNCHANGED stack

Overwrite ==
  /\ Running("clobber") /\ Continue
  /\ holds' = {h \in holds : h[2] \notin code[1][2]}
  /\ UNCHANGED stack

PushVictim ==
  /\ Running("push") /\ Continue
  /\ stack' = <<{h[1] : h \in {g \in holds : g[2] = R(code[1][2])}}>> \o stack
  /\ UNCHANGED holds

PopVictim ==
  /\ Running("pop") /\ Continue
  /\ stack' = Tail(stack)
  /\ holds' = {h \in holds : h[2] # R(code[1][2])} \cup {<<v, R(code[1][2])>> : v \in Head(stack)}

\* A jump gives its target's parameters the arguments' current instances.
BindParams ==
  /\ Running("bind") /\ Continue
  /\ LET ps == fn.params[code[1][2]]
     IN  holds' = {h \in holds : h[1] \notin {ps[k] : k \in DOMAIN ps}}
                    \cup UNION {{<<ps[k], h[2]>> : h \in {g \in holds : g[1] = Arg(ip, k)}} : k \in DOMAIN ps}
  /\ UNCHANGED stack

GoOn ==
  /\ Running("goto")
  /\ ip' = code[1][2]
  /\ code' \in Template(code[1][2])
  /\ UNCHANGED <<allocVars, holds, stack>>

Finished ==
  \/ Running("ret")
  \/ Running("trap")
  \/ phase = "done" /\ errors # {}

Next ==
  \/ Allocate
  \/ Enter
  \/ Move \/ Read \/ Define \/ Overwrite \/ PushVictim \/ PopVictim \/ BindParams \/ GoOn
  \/ Finished /\ UNCHANGED vars

Spec == Init /\ [][Next]_vars

-----------------------------------------------------------------------------
(* Properties.                                                             *)

\* Whatever path control takes, each template finds each operand where it reads it: no register
\* was handed to another value, clobbered by a call or a fixed-register template, overwritten by
\* an earlier move of the same template, restored stale, or lost with the flags.
EveryReadFindsItsValue == Running("use") => <<code[1][2], code[1][3]>> \in holds

\* A function returns with the caller's value in each callee-saved register that its allocation
\* homes a value in: used_callee_saved names it, the prologue saves it before anything overwrites
\* it, nothing reuses its slot, and every return restores it.
AssignedCalleeSavedPreserved ==
  Running("ret") => \A v \in Values(fn) :
    ~ asg[v].spilled /\ asg[v].reg \in CalleeSaved =>
      <<Caller(asg[v].reg), R(asg[v].reg)>> \in holds

\* Scratch registers taken by push are popped before control leaves the template, so that every
\* path reaches an instruction with the same stack depth.
StackBalanced == Running("goto") \/ Running("ret") => stack = <<>>
=============================================================================
