---------------------------- MODULE X86RegAlloc ----------------------------
(***************************************************************************)
(* The linear-scan register allocator (compiler/x86_regalloc.cpp): block   *)
(* liveness by iteration, one conservative interval per value, the         *)
(* registers each instruction template owns by name, the scan, and the     *)
(* machine verifier that re-checks the finished assignment.                *)
(***************************************************************************)
EXTENDS Mir

VARIABLES
  fn,         \* the function being compiled
  mode,       \* "linear", or "trivial": every value in memory
  phase,      \* "liveness", "intervals", "scan", "verify" or "done"
  cursor,     \* the block the liveness sweep visits next
  changed,    \* did this sweep change a set?
  liveIn, liveOut,
  iv,         \* value -> [start, end], once built
  todo,       \* the values the scan has not reached
  active,     \* the scan's Active list: [end, reg]
  asg,        \* value -> its Assignment
  areas,      \* spill_area_count
  used,       \* used_callee_saved
  errors      \* the verifier's findings

allocVars == <<fn, mode, phase, cursor, changed, liveIn, liveOut, iv, todo, active, asg, areas,
               used, errors>>

\* One register namespace: 0-15 the GPRs in encoding order, 16-31 the XMMs; rsp (4) and rbp (5)
\* are reserved.
RAX == 0
RCX == 1
RDX == 2
RBX == 3
RSI == 6
RDI == 7
R8 == 8
R9 == 9
R10 == 10
R11 == 11
R12 == 12
R13 == 13
R14 == 14
R15 == 15
XMM(n) == 16 + n
NoReg == 255

IsXmm(r) == r >= 16
CalleeSaved == {RBX, R12, R13, R14, R15}
CallerSaved == {RAX, RCX, RDX, RSI, RDI, R8, R9, R10, R11}
Xmms == 16 .. 31
Registers == CalleeSaved \cup CallerSaved \cup Xmms

\* Register preference orders.
PreferScratchy == <<R10, R11, RSI, RDI, R8, R9, RCX, RDX, RAX, RBX, R12, R13, R14, R15>>
PreferCallee == <<RBX, R12, R13, R14, R15, R10, R11, RSI, RDI, R8, R9, RCX, RDX, RAX>>
XmmOrder == [k \in 1 .. 16 |-> IF k <= 14 THEN XMM(k + 1) ELSE XMM(16 - k)]

-----------------------------------------------------------------------------
(* The four positions of instruction i: before it, its operand reads and   *)
(* early results, the end of its clobbers, and its late writes.            *)

PosE(i) == 4 * i
PosU(i) == 4 * i + 1
PosD(i) == 4 * i + 2
PosL(i) == 4 * i + 3

IsCallLike(f, i) == InstAt(f, i).op \in CallLike
LateResult(f, i) == IsCallLike(f, i) \/ InstAt(f, i).op = "asm"

-----------------------------------------------------------------------------
(* Kill ranges: the registers the template of instruction i writes by      *)
(* name, over [PosE(i), KillEnd(f, i)].                                    *)

\* A mutant: the count register of a variable shift is not reserved.
MutKilled(f, i) ==
  LET inst == InstAt(f, i)
  IN  CASE inst.op = "div" -> {RAX, RDX}
        [] inst.op = "stackalloc" -> {RAX}
        [] inst.op = "switch" -> {RAX, RCX}
        [] inst.op \in CallLike -> CallerSaved \cup Xmms
        [] inst.op = "asm" -> inst.regs
        [] OTHER -> {}

Killed(f, i) ==
  LET inst == InstAt(f, i)
  IN  CASE inst.op = "div" -> {RAX, RDX}
        [] inst.op = "shift" -> {RCX}
        [] inst.op = "stackalloc" -> {RAX}
        [] inst.op = "switch" -> {RAX, RCX}
        [] inst.op \in CallLike -> CallerSaved \cup Xmms
        [] inst.op = "asm" -> inst.regs
        [] OTHER -> {}

KillEnd(f, i) == IF InstAt(f, i).op \in {"switch", "asm"} THEN PosL(i) ELSE PosD(i)

-----------------------------------------------------------------------------
(* Liveness.                                                               *)

\* Block-local sets: defined here, and used before being defined here.
Def(f, b) == ParamsOf(f, b) \cup ({InstAt(f, i).res : i \in InBlock(f, b)} \ {NoValue})
Gen(f, b) ==
  UNION {Uses(f, i) \ (ParamsOf(f, b) \cup {InstAt(f, j).res : j \in f.first[b] .. i - 1}) :
         i \in InBlock(f, b)}

\* A mutant: only the first successor is merged.
MutOutOf(f, b) ==
  LET last == InstAt(f, f.last[b])
  IN  liveOut[b] \cup (IF last.to = <<>> THEN {} ELSE liveIn[last.to[1]])

\* One visit of the sweep: live_out(b) takes every successor's live_in, then
\* live_in(b) = gen(b) \cup (live_out(b) \ def(b)).
OutOf(f, b) == liveOut[b] \cup UNION {liveIn[s] : s \in Successors(f, b)}

\* A mutant: a single sweep, no iteration.
MutResweep(again) == FALSE

Resweep(again) == again

-----------------------------------------------------------------------------
(* Intervals.                                                              *)

\* Every position build_intervals extends v to.
LivePositions(f, v) ==
  LET through == {b \in Blocks(f) : v \in liveOut[b] /\ v \notin Def(f, b)}
  IN  {PosE(f.first[b]) : b \in {c \in Blocks(f) : v \in liveIn[c]}}
        \cup {PosE(f.first[b]) : b \in through}
        \cup {PosL(f.last[b]) : b \in {c \in Blocks(f) : v \in liveOut[c]}}
        \cup {PosE(f.first[b]) : b \in {c \in Blocks(f) : v \in ParamsOf(f, c)}}
        \cup {PosU(i) : i \in {j \in Indices(f) : v \in Uses(f, j)}}
        \cup {IF LateResult(f, i) THEN PosL(i) ELSE PosU(i) :
                i \in {j \in Indices(f) : InstAt(f, j).res = v}}
        \cup {PosL(i) : i \in {j \in Indices(f) :
                /\ InstAt(f, j).op = "jump"
                /\ v \in ParamsOf(f, InstAt(f, j).to[1])}}

Least(S) == CHOOSE x \in S : \A y \in S : x <= y
Greatest(S) == CHOOSE x \in S : \A y \in S : x >= y

Crosses(r, i) == r.start < PosU(i) /\ r.end > PosL(i)
CrossesCall(f, r) == \E i \in Indices(f) : IsCallLike(f, i) /\ Crosses(r, i)

-----------------------------------------------------------------------------
(* The scan.                                                               *)

Overlaps(f, r, i) == PosE(i) <= r.end /\ KillEnd(f, i) >= r.start

Clashes(f, r, reg) == {i \in Indices(f) : reg \in Killed(f, i) /\ Overlaps(f, r, i)}

\* A mutant: an interval that merely reaches the call is taken to cross it.
MutTolerated(f, r, reg, i) == IsCallLike(f, i) /\ reg \notin CalleeSaved

\* overlapping_kill_ok: a call's clobber is tolerable only where the interval is live across it.
Tolerated(f, r, reg, i) == IsCallLike(f, i) /\ reg \notin CalleeSaved /\ Crosses(r, i)
KillOk(f, r, reg) == \A i \in Clashes(f, r, reg) : Tolerated(f, r, reg, i)
NeedsSave(f, r, reg) == Clashes(f, r, reg) # {}

Order(f, v) ==
  IF v \in f.float THEN XmmOrder
  ELSE IF CrossesCall(f, iv[v]) THEN PreferCallee ELSE PreferScratchy

\* Intervals by start, then by value.
Before(v, w) == iv[v].start < iv[w].start \/ (iv[v].start = iv[w].start /\ v <= w)

\* A mutant: an interval ending where the next one starts is retired.
MutExpire(acts, start) == {a \in acts : a.end > start}

Expire(acts, start) == {a \in acts : a.end >= start}

\* The first register of the order that no active interval holds and whose kill ranges allow v:
\* one that needs no saving, or else one that does.
Free(f, v, acts, k) ==
  LET reg == Order(f, v)[k]
  IN  (\A a \in acts : a.reg # reg) /\ KillOk(f, iv[v], reg)
FreeUnsaved(f, v, acts, k) == Free(f, v, acts, k) /\ ~ NeedsSave(f, iv[v], Order(f, v)[k])

FreeRegs(f, v, acts) ==
  LET dom == DOMAIN Order(f, v)
      first == {k \in dom : FreeUnsaved(f, v, acts, k)}
      second == {k \in dom : Free(f, v, acts, k)}
  IN  IF first # {} THEN first ELSE second

\* The assignment of a value no register is free for, of one that gets a register, and of one not
\* reached yet.
Spilled(area) == [spilled |-> TRUE, reg |-> NoReg, save |-> FALSE, spillIx |-> area, saveIx |-> -1]
Homed(reg, save, area) ==
  [spilled |-> FALSE, reg |-> reg, save |-> save, spillIx |-> -1,
   saveIx |-> IF save THEN area ELSE -1]
Unassigned == [spilled |-> TRUE, reg |-> NoReg, save |-> FALSE, spillIx |-> -1, saveIx |-> -1]

\* A mutant: the prologue's save set is never filled in.
MutRecordUsed(regs, reg) == regs

RecordUsed(regs, reg) == IF reg \in CalleeSaved THEN regs \cup {reg} ELSE regs

-----------------------------------------------------------------------------
AllocInit ==
  /\ fn \in Programs
  /\ mode \in {"linear", "trivial"}
  /\ phase = "liveness"
  /\ cursor = Len(fn.first)
  /\ changed = FALSE
  /\ liveIn = [b \in Blocks(fn) |-> {}]
  /\ liveOut = [b \in Blocks(fn) |-> {}]
  /\ iv = <<>> /\ todo = {} /\ active = {}
  /\ asg = [v \in Values(fn) |-> Unassigned]
  /\ areas = 0 /\ used = {} /\ errors = {}

\* One block of the backward sweep; at the first block the sweep starts over if it changed a set.
LivenessBlock ==
  LET out == OutOf(fn, cursor)
      in == liveIn[cursor] \cup Gen(fn, cursor) \cup (out \ Def(fn, cursor))
      any == changed \/ out # liveOut[cursor] \/ in # liveIn[cursor]
      over == cursor = 1
  IN  /\ phase = "liveness"
      /\ liveOut' = [liveOut EXCEPT ![cursor] = out]
      /\ liveIn' = [liveIn EXCEPT ![cursor] = in]
      /\ cursor' = IF over THEN Len(fn.first) ELSE cursor - 1
      /\ changed' = (~ over /\ any)
      /\ phase' = IF over /\ ~ Resweep(any) THEN "intervals" ELSE "liveness"
      /\ UNCHANGED <<fn, mode, iv, todo, active, asg, areas, used, errors>>

\* build_intervals' last part: one interval per value that has a position.
BuildIntervals ==
  LET live == {v \in Values(fn) : LivePositions(fn, v) # {}}
  IN  /\ phase = "intervals"
      /\ iv' = [v \in live |-> [start |-> Least(LivePositions(fn, v)),
                               end |-> Greatest(LivePositions(fn, v))]]
      /\ todo' = live
      /\ phase' = "scan"
      /\ UNCHANGED <<fn, mode, cursor, changed, liveIn, liveOut, active, asg, areas, used, errors>>

\* Trivial mode: the next interval gets a memory area.
SpillNext(v) ==
  /\ asg' = [asg EXCEPT ![v] = Spilled(areas)]
  /\ areas' = areas + 1
  /\ UNCHANGED <<active, used>>

\* Linear mode: a register if one is free, with a save area if it must be parked around calls.
AssignNext(v) ==
  LET acts == Expire(active, iv[v].start)
      ks == FreeRegs(fn, v, acts)
      reg == Order(fn, v)[Least(ks)]
      save == NeedsSave(fn, iv[v], reg)
  IN  IF ks = {}
      THEN /\ asg' = [asg EXCEPT ![v] = Spilled(areas)]
           /\ areas' = areas + 1
           /\ active' = acts
           /\ UNCHANGED used
      ELSE /\ asg' = [asg EXCEPT ![v] = Homed(reg, save, areas)]
           /\ areas' = IF save THEN areas + 1 ELSE areas
           /\ active' = acts \cup {[end |-> iv[v].end, reg |-> reg]}
           /\ used' = RecordUsed(used, reg)

Scan ==
  /\ phase = "scan"
  /\ \E v \in todo :
       /\ \A w \in todo : Before(v, w)
       /\ IF mode = "trivial" THEN SpillNext(v) ELSE AssignNext(v)
       /\ todo' = todo \ {v}
  /\ UNCHANGED <<fn, mode, phase, cursor, changed, liveIn, liveOut, iv, errors>>

ScanDone ==
  /\ phase = "scan" /\ todo = {}
  /\ phase' = IF mode = "linear" THEN "verify" ELSE "done"
  /\ UNCHANGED <<fn, mode, cursor, changed, liveIn, liveOut, iv, todo, active, asg, areas, used,
                 errors>>

InReg(v) == v \in DOMAIN iv /\ ~ asg[v].spilled

\* The verifier: neighbours by start in one register must not overlap, a register's kill ranges
\* must be tolerated, and a spilled value must have an area.
NextInReg(v, w) ==
  /\ InReg(v) /\ InReg(w) /\ v # w /\ asg[v].reg = asg[w].reg
  /\ Before(v, w)
  /\ \A u \in DOMAIN iv : InReg(u) /\ asg[u].reg = asg[v].reg /\ u # v /\ Before(v, u) => Before(w, u)

Interfering ==
  {p \in (DOMAIN iv) \X (DOMAIN iv) :
     NextInReg(p[1], p[2]) /\ iv[p[1]].end >= iv[p[2]].start}
KillViolations ==
  {p \in (DOMAIN iv) \X Indices(fn) :
     /\ InReg(p[1]) /\ p[2] \in Clashes(fn, iv[p[1]], asg[p[1]].reg)
     /\ ~ (IsCallLike(fn, p[2]) /\ asg[p[1]].save /\ Crosses(iv[p[1]], p[2]))}
Unplaced == {v \in DOMAIN iv : asg[v].spilled /\ asg[v].spillIx = -1}

Verify ==
  /\ phase = "verify"
  /\ errors' = Interfering \cup KillViolations \cup {<<v, v>> : v \in Unplaced}
  /\ phase' = "done"
  /\ UNCHANGED <<fn, mode, cursor, changed, liveIn, liveOut, iv, todo, active, asg, areas, used>>

AllocNext == LivenessBlock \/ BuildIntervals \/ Scan \/ ScanDone \/ Verify

\* The allocator on its own: AllocInit and then its steps.
AllocSpec == AllocInit /\ [][AllocNext]_allocVars

-----------------------------------------------------------------------------
(* Properties.                                                             *)

\* When the sweep of build_intervals stops, live_in is the least solution of the dataflow
\* equations, neither missing a value some path still reads nor keeping a dead one.
LivenessIsExact ==
  phase = "intervals" =>
    LET gen == UNION {{b} \X Gen(fn, b) : b \in Blocks(fn)}
        def == UNION {{b} \X Def(fn, b) : b \in Blocks(fn)}
        edge == UNION {{b} \X Successors(fn, b) : b \in Blocks(fn)}
        closed(X, v) == \A b \in Blocks(fn) :
          <<b, v>> \in gen \/ (<<b, v>> \notin def /\ \E s \in X : <<b, s>> \in edge) => b \in X
    IN  \A v \in Values(fn), b \in Blocks(fn) :
          v \in liveIn[b] <=> \A X \in SUBSET Blocks(fn) : closed(X, v) => b \in X

\* The machine verifier of x86_regalloc.cpp never finds anything: neither two overlapping
\* intervals in one register nor an interval over a register its instructions own.
VerifierFindsNothing == errors = {}
=============================================================================
