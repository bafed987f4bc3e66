---------------------------- MODULE LangMeaning ----------------------------
(***************************************************************************)
(* What a function body means, independently of how it is lowered: the     *)
(* reference the compile pipeline is held against (docs/spec.md).          *)
(*                                                                         *)
(* Values are trees: a scalar is a number of its type's width, a struct or *)
(* an array a sequence, a union <<variant, payload>>, an error <<0>> or    *)
(* <<member, payload>>, a pointer a place [loc, path] and a slice          *)
(* [at, lo, len] over the array at a place.  Names are lexically scoped,   *)
(* a deferred statement keeps the names of the point where it was written, *)
(* operands are evaluated left to right.  The functions a body calls are   *)
(* the environment: a call is logged and answered by the oracle.           *)
(***************************************************************************)
EXTENDS MirGen, Bitwise
LOCAL SL == INSTANCE SequencesExt

CONSTANTS
    MaxTurns  \* loop turns before a run counts as diverging

BitsOf(ty) == type_bits(scalar_type(ty))
ToBits(n, ty) == n % 2^BitsOf(ty)
Number(n, ty) == IF signed_type(ty) /\ n >= 2^(BitsOf(ty) - 1) THEN n - 2^BitsOf(ty) ELSE n
Truncated(x, y) == LET q == (IF x < 0 THEN -x ELSE x) \div (IF y < 0 THEN -y ELSE y)
                   IN  IF (x < 0) = (y < 0) THEN q ELSE -q

Nil == [loc |-> 0, path |-> <<>>]

\* The value "default" stands for: zeros and the declared field defaults.
RECURSIVE DefaultOf(_), Constant(_)
Constant(x) == IF x.e = "int" THEN ToBits(x.n, x.ty) ELSE DefaultOf(x.ty)
DefaultOf(ty) ==
    CASE is_scalar(ty) -> IF pointer_like(ty) THEN Nil ELSE 0
      [] ty.k = "struct" -> [n \in DOMAIN ty.fields |->
                               IF ty.fields[n].init = <<>> THEN DefaultOf(ty.fields[n].type)
                               ELSE Constant(ty.fields[n].init[1])]
      [] ty.k = "array" -> [n \in 1 .. ty.count |-> DefaultOf(ty.elem)]
      [] ty.k = "slice" -> [at |-> Nil, lo |-> 0, len |-> 0]
      [] ty.k = "error" -> <<0>>
      [] ty.k = "union" -> <<1, DefaultOf(ty.variants[1])>>
      [] ty.k = "void" -> <<>>

\* All zeros.
RECURSIVE ZeroOf(_)
ZeroOf(ty) ==
    CASE ty.k = "struct" -> [n \in DOMAIN ty.fields |-> ZeroOf(ty.fields[n].type)]
      [] ty.k = "array" -> [n \in 1 .. ty.count |-> ZeroOf(ty.elem)]
      [] ty.k = "union" -> <<1, ZeroOf(ty.variants[1])>>
      [] OTHER -> DefaultOf(ty)

\* The answer of a call, drawn from the oracle: <<value, rest of the oracle>>.
RECURSIVE Answer(_, _)
Answer(ty, oracle) ==
    LET sequence(types) ==
          SL!FoldLeft(LAMBDA acc, t : LET a == Answer(t, acc[2]) IN <<Append(acc[1], a[1]), a[2]>>,
                      <<<<>>, oracle>>, types)
        tagged(n, payload) == LET a == Answer(payload, Tail(oracle)) IN <<<<n, a[1]>>, a[2]>>
        pick(n) == (Head(oracle) % n)
    IN  CASE ty.k = "void" -> <<<<>>, oracle>>
          [] ty.k = "struct" -> sequence([n \in DOMAIN ty.fields |-> ty.fields[n].type])
          [] ty.k = "array" -> sequence([n \in 1 .. ty.count |-> ty.elem])
          [] oracle = <<>> -> <<DefaultOf(ty), <<>>>>
          [] ty.k = "enum" -> <<pick(ty.count), Tail(oracle)>>
          [] ty.k = "union" -> tagged(pick(Len(ty.variants)) + 1,
                                      ty.variants[pick(Len(ty.variants)) + 1])
          [] ty.k = "error" -> LET n == pick(Len(ty.members) + 1)
                               IN  IF n = 0 THEN <<<<0>>, Tail(oracle)>> ELSE tagged(n, ty.members[n])
          [] OTHER -> <<ToBits(Head(oracle), ty), Tail(oracle)>>

(***************************************************************************)
(* Places.                                                                 *)
(***************************************************************************)
RECURSIVE At(_, _), Put(_, _, _)
At(value, path) == IF path = <<>> THEN value ELSE At(value[Head(path)], Tail(path))
Put(value, path, new) ==
    IF path = <<>> THEN new ELSE [value EXCEPT ![Head(path)] = Put(@, Tail(path), new)]

Under(place, n) == [place EXCEPT !.path = Append(@, n)]
Moved(place, n) == IF n = 0 THEN place ELSE [place EXCEPT !.path[Len(place.path)] = @ + n]
ReadAt(m, place) == At(m.store[place.loc], place.path)
WriteAt(m, place, value) == [m EXCEPT !.store[place.loc] = Put(@, place.path, value)]
Result(m, value) == [m EXCEPT !.v = value]
Fresh(m, value) ==
    [m EXCEPT !.store = Append(@, value), !.v = [loc |-> Len(m.store) + 1, path |-> <<>>]]
ElementOf(slice, n) == Under(slice.at, slice.lo + n)

\* A value as a callee sees it: pointers and slices by what they refer to.
RECURSIVE Seen(_, _, _)
Seen(m, value, ty) ==
    CASE ty.k = "ptr" -> Seen(m, ReadAt(m, value), ty.to)
      [] ty.k = "slice" -> [n \in 1 .. value.len |-> Seen(m, ReadAt(m, ElementOf(value, n)), ty.elem)]
      [] ty.k = "struct" -> [n \in DOMAIN ty.fields |-> Seen(m, value[n], ty.fields[n].type)]
      [] ty.k = "array" -> [n \in 1 .. ty.count |-> Seen(m, value[n], ty.elem)]
      [] ty.k = "union" -> <<value[1], Seen(m, value[2], ty.variants[value[1]])>>
      [] ty.k = "error" /\ value[1] # 0 -> <<value[1], Seen(m, value[2], ty.members[value[1]])>>
      [] OTHER -> value

(***************************************************************************)
(* Expressions.  "m" holds env (name -> place), store, the last value v,   *)
(* sig ("run" while control goes on), the log, the oracle, the deferred    *)
(* statements of the open block and the values returned.                   *)
(***************************************************************************)
Running(m) == m.sig = "run"
Stop(m, sig) == [m EXCEPT !.sig = sig]
\* What the language gives no meaning to, and a compiler must not accept.
Wrong(m) == Stop(m, "wrong")

RECURSIVE Eval(_, _), PlaceOf(_, _), EvalTo(_, _, _), Exec(_, _)

IsPlace(x) == x.e \in {"ident", "member", "index"} \/ (x.e = "unary" /\ x.op = "deref")

Truth(value, ty) == IF is_error_union(ty) THEN value[1] # 0
                    ELSE IF pointer_like(ty) THEN value.loc # 0 ELSE value # 0
Bit(b) == IF b THEN 1 ELSE 0

\* Member k of one error type is a member of another: the value seen at that type.
AsError(value, from, to) ==
    IF value[1] = 0 THEN value ELSE <<IndexIn(to.members, from.members[value[1]]), value[2]>>

Operate(m, op, ty, x, y, amount) ==
    LET l == Number(x, ty)
        r == Number(y, amount)
        by == 2^(y % WordBits)
        int(n) == Result(m, ToBits(n, ty))
        yes(b) == Result(m, Bit(b))
    IN  CASE op \in {"/", "%"} /\ (r = 0 \/ (r = -1 /\ l = -(2^(WordBits - 1)))) -> Stop(m, "trapped")
          [] pointer_like(ty) /\ op = "+" -> Result(m, Moved(x, r))
          [] pointer_like(ty) /\ op = "-" -> Result(m, Moved(x, -r))
          [] ty.k = "bitset" /\ op = "+" -> int(x | y)
          [] ty.k = "bitset" /\ op = "-" -> int(x - (x & y))
          [] op = "in" -> yes((x & y) = x)
          [] op = "==" -> yes(x = y)  [] op = "!=" -> yes(x # y)
          [] op = "<" -> yes(l < r)   [] op = "<=" -> yes(l <= r)
          [] op = ">" -> yes(l > r)   [] op = ">=" -> yes(l >= r)
          [] op = "+" -> int(l + r)   [] op = "-" -> int(l - r)
          [] op = "*" -> int(MulBits(x, y, BitsOf(ty)))
          [] op = "/" -> int(Truncated(l, r))
          [] op = "%" -> int(l - r * Truncated(l, r))
          [] op = "&" -> int((x & y)) [] op = "|" -> int(x | y) [] op = "^" -> int(x ^^ y)
          [] op = "<<" -> int(MulBits(x, by, BitsOf(ty)))
          [] op = ">>" -> int(l \div by)

\* A value of one type where another is expected.
Convert(m, value, from, to) ==
    CASE from = to \/ (~is_scalar(to) /\ from.k = to.k) -> Result(m, value)
      [] to.k = "array" /\ from.k = "slice" ->
           Result(m, [n \in 1 .. to.count |-> IF n <= value.len THEN ReadAt(m, ElementOf(value, n))
                                              ELSE DefaultOf(to.elem)])
      [] to.k = "ptr" /\ from.k = "slice" -> Result(m, ElementOf(value, 1))
      [] pointer_like(to) -> Result(m, value)
      [] is_scalar(to) -> Result(m, ToBits(Number(value, from), to))

EvalTo(m, x, ty) ==
    LET place == IF IsPlace(x) THEN PlaceOf(m, x) ELSE LET y == Eval(m, x) IN IF Running(y) THEN Fresh(y, y.v) ELSE y
        value == Eval(m, x)
    IN  IF x.ty.k = "array" /\ ty.k = "slice"
        THEN IF Running(place) THEN Result(place, [at |-> place.v, lo |-> 0, len |-> x.ty.count]) ELSE place
        ELSE IF x.e = "nil" THEN Result(m, DefaultOf(ty))
        ELSE IF Running(value) THEN Convert(value, value.v, x.ty, ty) ELSE value

PlaceOf(m, x) ==
    LET base == IF x.obj.ty.k \notin {"ptr", "slice"} /\ IsPlace(x.obj) THEN PlaceOf(m, x.obj)
                ELSE Eval(m, x.obj)
        temp == IF x.obj.ty.k \in {"ptr", "slice"} \/ IsPlace(x.obj) THEN base ELSE Fresh(base, base.v)
        index == Eval(base, x.idx)
        n == Number(index.v, x.idx.ty)
    IN  CASE x.e = "ident" -> IF x.name \in DOMAIN m.env THEN Result(m, m.env[x.name]) ELSE Wrong(m)
          [] x.e = "unary" -> Eval(m, x.x)
          [] x.e # "ident" /\ x.e # "unary" /\ ~Running(base) -> base
          [] x.e = "member" /\ Running(base) -> Result(temp, Under(temp.v, x.n))
          [] x.e = "index" /\ Running(base) -> IF ~Running(index) THEN index ELSE
                               Result(index, CASE x.obj.ty.k = "slice" -> ElementOf(base.v, n + 1)
                                              [] x.obj.ty.k = "ptr" -> Moved(base.v, n)
                                              [] x.obj.ty.k = "array" -> Under(base.v, n + 1))

\* Arguments in order, each at its parameter's type; a missing one takes its default.
Arguments(m, fn, args) ==
    LET fixed == IF fn.variadic THEN Len(fn.params) - 1 ELSE Len(fn.params)
        add(acc, n) ==
          LET r == IF n <= Len(args) THEN EvalTo(acc, args[n], fn.params[n])
                   ELSE Result(acc, Constant(fn.defaults[n]))
          IN  IF Running(r) THEN Result(r, Append(acc.v, Seen(r, r.v, fn.params[n]))) ELSE r
        more(acc, n) == LET r == EvalTo(acc, args[n], fn.params[fixed + 1].elem)
                        IN  IF Running(r) THEN Result(r, Append(acc.v, r.v)) ELSE r
        own == SL!FoldLeft(add, Result(m, <<>>), [n \in 1 .. fixed |-> n])
        rest == SL!FoldLeft(more, Result(own, <<>>), [n \in 1 .. Len(args) - fixed |-> fixed + n])
    IN  IF fn.variadic /\ Running(rest) THEN Result(rest, Append(own.v, rest.v))
        ELSE IF fn.variadic THEN rest ELSE own

\* A callee that writes adds one to what its argument points to.
Written(m, fn, x, called) ==
    LET place == Eval(m, x.args[1]).v
    IN  IF fn.writes /\ Running(called)
        THEN WriteAt(called, place, ToBits(ReadAt(called, place) + 1, fn.params[1].to)) ELSE called

\* A call's value is the list of what the callee returns.
Call(m, x) ==
    LET fn == Functions[x.fn]
        ready == Arguments(m, fn, x.args)
        logged == Written(m, fn, x, [ready EXCEPT !.trace = Append(@, <<x.fn, ready.v>>)])
        take(acc, ty) == LET a == Answer(ty, acc[2]) IN <<Append(acc[1], a[1]), a[2]>>
    IN  CASE ~Running(ready) -> ready
          [] Running(ready) /\ fn.returns # <<>> /\ ready.oracle = <<>> -> Stop(logged, "stopped")
          [] OTHER -> LET got == SL!FoldLeft(take, <<<<>>, ready.oracle>>, fn.returns)
                      IN  [logged EXCEPT !.v = got[1], !.oracle = got[2]]

\* The error a call ends with, when it is not bound: it panics or is propagated.
Panic(m) == [m EXCEPT !.trace = Append(@, <<PanicHelper, <<>>>>), !.sig = "unreachable"]
CanFail(m, members) ==
    LET n == Len(m.returns)
    IN  n > 0 /\ is_error_union(m.returns[n]) /\ members \subseteq SL!ToSet(m.returns[n].members)
Propagate(m, error, from) ==
    LET n == Len(m.returns)
    IN  IF ~CanFail(m, {from.members[error[1]]}) THEN Wrong(m)
        ELSE [m EXCEPT !.sig = "return",
                       !.ret = [k \in 1 .. n |-> IF k < n THEN ZeroOf(m.returns[k])
                                                 ELSE AsError(error, from, m.returns[n])]]
Settle(m, x, mode) ==
    LET called == Call(m, x)
        error == SL!Last(called.v)
    IN  IF ~Running(called) \/ mode = "all" \/ error[1] = 0 THEN called
        ELSE IF mode = "drop" THEN Panic(called)
        ELSE Propagate(called, error, SL!Last(Functions[x.fn].returns))
FirstValue(m) == IF Running(m) /\ m.v # <<>> THEN Result(m, Head(m.v)) ELSE m

(***************************************************************************)
(* Forms.                                                                  *)
(***************************************************************************)
EvalLogical(m, x) ==
    LET l == Eval(m, x.l)
        left == Truth(l.v, x.l.ty)
        r == Eval(l, x.r)
    IN  IF ~Running(l) THEN l
        ELSE IF left = (x.op = "||") THEN Result(l, Bit(left))
        ELSE IF Running(r) THEN Result(r, Bit(Truth(r.v, x.r.ty))) ELSE r

EvalBinary(m, x) ==
    LET l == Eval(m, x.l)
        r == Eval(l, x.r)
    IN  CASE x.op \in {"&&", "||"} -> EvalLogical(m, x)
          [] x.op \notin {"&&", "||"} /\ ~Running(r) -> r
          [] OTHER -> IF pointer_like(x.r.ty) /\ ~pointer_like(x.l.ty)
                      THEN Operate(r, x.op, x.r.ty, r.v, l.v, x.l.ty)
                      ELSE Operate(r, x.op, x.l.ty, l.v, r.v, x.r.ty)

EvalUnary(m, x) ==
    LET y == Eval(m, x.x)
    IN  CASE x.op = "addr" -> PlaceOf(m, x.x)
          [] x.op # "addr" /\ ~Running(y) -> y
          [] x.op = "deref" /\ Running(y) -> Result(y, ReadAt(y, y.v))
          [] x.op = "!" /\ Running(y) -> Result(y, Bit(~Truth(y.v, x.x.ty)))
          [] x.op = "-" /\ Running(y) -> Result(y, ToBits(-y.v, x.ty))
          [] x.op = "~" /\ Running(y) -> Result(y, ToBits(-y.v - 1, x.ty))

\* The place, then the value, then the old value of a compound assignment.
EvalAssign(m, x) ==
    LET place == PlaceOf(m, x.l)
        value == IF x.op = "=" THEN EvalTo(place, x.r, x.l.ty) ELSE Eval(place, x.r)
        new == IF x.op = "=" THEN value
               ELSE Operate(value, x.op, x.l.ty, ReadAt(value, place.v), value.v, x.r.ty)
    IN  IF ~Running(value) THEN value ELSE IF Running(new) THEN WriteAt(new, place.v, new.v) ELSE new

EvalIncr(m, x) ==
    LET place == PlaceOf(m, x.x)
        old == ReadAt(place, place.v)
        by == IF x.inc THEN 1 ELSE -1
        new == IF pointer_like(x.x.ty) THEN Moved(old, by) ELSE ToBits(old + by, x.x.ty)
    IN  IF Running(place) THEN Result(WriteAt(place, place.v, new), IF x.prefix THEN new ELSE old)
        ELSE place

EvalCast(m, x) ==
    LET y == Eval(m, x.x)
        n == Eval(y, x.len[1])
        len == IF x.len = <<>> THEN y ELSE n
        whole == EvalTo(m, x.x, x.ty)
        slice == IF x.ty.k = "slice" /\ x.x.ty.k = "ptr"
                 THEN [at |-> [y.v EXCEPT !.path = SL!Front(@)], lo |-> SL!Last(y.v.path) - 1, len |-> 0]
                 ELSE whole.v
    IN  IF ~Running(len) THEN len
        ELSE IF x.len = <<>> THEN Result(whole, slice)
        ELSE Result(len, [slice EXCEPT !.len = n.v])

EvalSlice(m, x) ==
    LET whole == EvalTo(m, x.obj, [k |-> "slice", elem |-> x.obj.ty.elem])
        lo == IF x.lo = <<>> THEN Result(whole, 0) ELSE Eval(whole, x.lo[1])
        hi == IF x.hi = <<>> THEN Result(lo, whole.v.len) ELSE Eval(lo, x.hi[1])
    IN  IF ~Running(hi) THEN hi
        ELSE Result(hi, [at |-> whole.v.at, lo |-> whole.v.lo + lo.v, len |-> hi.v - lo.v])

\* Items of a literal over the defaults of its type (the zeros of an array).
EvalBraced(m, x) ==
    LET type(n) == IF x.ty.k = "array" THEN x.ty.elem ELSE x.ty.fields[n].type
        item(acc, k) ==
          LET it == x.items[k]
              y == CASE it.x.e = "default" -> Result(acc, DefaultOf(type(it.n)))
                     [] it.x.e # "default" -> EvalTo(acc, it.x, type(it.n))
          IN  IF Running(y) THEN Result(y, [acc.v EXCEPT ![it.n] = y.v]) ELSE y
        base == IF x.ty.k = "array" THEN ZeroOf(x.ty) ELSE DefaultOf(x.ty)
        done == SL!FoldLeft(LAMBDA acc, k : IF Running(acc) THEN item(acc, k) ELSE acc,
                            Result(m, base), [k \in DOMAIN x.items |-> k])
        fill == EvalTo(done, x.fill[1], x.ty.elem)
    IN  IF ~Running(done) \/ x.fill = <<>> THEN done
        ELSE IF ~Running(fill) THEN fill ELSE Result(fill, [n \in 1 .. x.ty.count |-> IF n <= Len(x.items) THEN done.v[n] ELSE fill.v])

EvalVariant(m, x) ==
    LET payload == x.ty.variants[x.n]
        body == EvalBraced(m, [ty |-> payload, items |-> x.items, fill |-> <<>>])
        bare == EvalTo(m, x.items[1].x, payload)
        y == CASE payload = Void -> Result(m, <<>>)
               [] payload.k = "struct" -> body
               [] OTHER -> bare
    IN  IF Running(y) THEN Result(y, <<x.n, y.v>>) ELSE y

\* The arm a value selects, with its capture bound; errors are dispatched on what failed.
Chosen(m, x, arms) ==
    LET y == Eval(m, x)
        ty == IF is_error_union(x.ty) THEN FailedPayload(x.ty) ELSE x.ty
        value == IF is_error_union(x.ty) /\ Len(x.ty.members) = 1 THEN y.v[2] ELSE y.v
        hits(arm) == arm.pat # <<>> /\ arm.pat[1] = (IF ty.k = "union" THEN value[1] ELSE value)
        cased == SelectSeq(arms, hits)
        others == SelectSeq(arms, LAMBDA arm : arm.pat = <<>>)
        arm == Head(cased)
        payload == Fresh(y, value[2])
        held == IF arm.ref THEN Fresh(payload, payload.v) ELSE payload
    IN  CASE ~Running(y) -> [m |-> y, arm |-> <<>>]
          [] Running(y) /\ is_error_union(x.ty) /\ y.v[1] = 0 -> [m |-> Wrong(y), arm |-> <<>>]
          [] Running(y) /\ cased # <<>> /\ arm.cap = <<>> -> [m |-> y, arm |-> <<arm>>]
          [] Running(y) /\ cased # <<>> /\ arm.cap # <<>> ->
               [m |-> [held EXCEPT !.env = (arm.cap[1] :> held.v) @@ @], arm |-> <<arm>>]
          [] OTHER -> [m |-> y, arm |-> others]

EvalMatch(m, x) ==
    LET c == Chosen(m, x.x, x.arms)
        y == EvalTo(c.m, c.arm[1].body, x.ty)
    IN  IF ~Running(c.m) THEN c.m ELSE IF c.arm = <<>> THEN Wrong(c.m) ELSE [y EXCEPT !.env = m.env]

Eval(m, x) ==
    LET place == PlaceOf(m, x)
        cond == Eval(m, x.c)
        inner == Eval(m, x.x)
        called == Settle(m, x, IF x.drop THEN "drop" ELSE "all")
        tried == Settle(m, x.call, "try")
    IN  IF ~Running(m) THEN m
        ELSE CASE x.e = "int" -> Result(m, ToBits(x.n, x.ty))
          [] x.e \in {"nil", "default"} -> Result(m, DefaultOf(x.ty))
          [] x.e \in {"ident", "member", "index"} ->
               IF Running(place) THEN Result(place, ReadAt(place, place.v)) ELSE place
          [] x.e = "binary" -> EvalBinary(m, x)
          [] x.e = "unary" -> EvalUnary(m, x)
          [] x.e = "assign" -> EvalAssign(m, x)
          [] x.e = "incr" -> EvalIncr(m, x)
          [] x.e = "call" -> FirstValue(called)
          [] x.e = "try" -> FirstValue(tried)
          [] x.e = "cast" -> EvalCast(m, x)
          [] x.e = "len" -> IF x.x.ty.k = "array" THEN Result(m, x.x.ty.count)
                            ELSE IF Running(inner) THEN Result(inner, inner.v.len) ELSE inner
          [] x.e = "slice" -> EvalSlice(m, x)
          [] x.e = "sizeof" -> Result(m, size_of(x.of))
          [] x.e = "ternary" -> IF ~Running(cond) THEN cond
                                ELSE EvalTo(cond, IF Truth(cond.v, x.c.ty) THEN x.x ELSE x.y, x.ty)
          [] x.e = "when" -> EvalTo(m, IF x.sel THEN x.x ELSE x.y, x.ty)
          [] x.e = "braced" -> EvalBraced(m, x)
          [] x.e = "variant" -> EvalVariant(m, x)
          [] x.e = "wrapped" -> IF Running(inner) THEN Result(inner, <<x.n, inner.v>>) ELSE inner
          [] x.e = "match" -> EvalMatch(m, x)

(***************************************************************************)
(* Statements.                                                             *)
(***************************************************************************)
Declare(m, name, value) ==
    LET held == Fresh(m, value) IN IF name = "_" THEN m ELSE [held EXCEPT !.env = (name :> held.v) @@ @]

\* A block's deferred statements run in reverse however control leaves it, each with the names of
\* the point where it was deferred, before whoever is waiting for the signal sees it.
Leaves(sig) == sig \in {"run", "return", "break", "continue"}
RunDeferred(m, d) ==
    LET done == Exec([m EXCEPT !.sig = "run", !.env = d.env], d.stmt)
    IN  IF ~Leaves(m.sig) THEN m
        ELSE IF Running(done) THEN [done EXCEPT !.sig = m.sig, !.env = m.env]
        ELSE IF Leaves(done.sig) THEN Wrong(done) ELSE done

Block(m, stmts) ==
    LET body == SL!FoldLeft(Exec, [m EXCEPT !.deferred = <<>>], stmts)
        done == SL!FoldLeft(RunDeferred, body, SL!Reverse(body.deferred))
    IN  [done EXCEPT !.env = m.env, !.deferred = m.deferred]

\* One turn of a loop's body: break ends the loop, continue the turn.
Turn(m, stmt) ==
    LET done == Exec([m EXCEPT !.fuel = @ - 1], stmt)
    IN  CASE m.fuel = 0 -> Stop(m, "diverged")
          [] m.fuel > 0 /\ done.sig = "continue" -> Stop(done, "run")
          [] OTHER -> done
LoopDone(m) == IF m.sig = "break" THEN Stop(m, "run") ELSE m

RECURSIVE While(_, _)
While(m, s) ==
    LET cond == Eval(m, s.c)
        turn == Turn(cond, s.body)
    IN  IF ~Running(cond) \/ ~Truth(cond.v, s.c.ty) THEN cond
        ELSE IF Running(turn) THEN While(turn, s) ELSE LoopDone(turn)

\* Turn(m, i) is one turn of a for loop over i, from lo to just below hi.
Count(m, lo, hi, OneTurn(_, _)) ==
    LET turns == IF hi - lo > MaxTurns THEN MaxTurns + 1 ELSE hi - lo
        step(n, i) == IF Running(n) THEN [OneTurn(n, lo + i - 1) EXCEPT !.env = m.env] ELSE n
    IN  LoopDone(SL!FoldLeft(step, m, [i \in 1 .. turns |-> i]))

ForIn(m, s) ==
    LET over == EvalTo(m, s.x, [k |-> "slice", elem |-> s.x.ty.elem])
        turn(n, i) ==
          LET at == ElementOf(over.v, i + 1)
          IN  Turn(Declare(Declare(n, s.index, i), s.name, IF s.ref THEN at ELSE ReadAt(n, at)), s.body)
    IN  IF Running(over) THEN Count(over, 0, over.v.len, turn) ELSE over

ForRange(m, s) ==
    LET lo == IF s.lo = <<>> THEN Result(m, 0) ELSE Eval(m, s.lo[1])
        hi == Eval(lo, s.hi)
        turn(n, i) == Turn(Declare(Declare(n, s.index, ToBits(i, Scalar("usize"))),
                                   s.name, ToBits(i, s.hi.ty)), s.body)
    IN  IF Running(hi) THEN Count(hi, Number(lo.v, s.hi.ty), Number(hi.v, s.hi.ty), turn) ELSE hi

\* return: the values, evaluated in order at the declared types.
ReturnValue(m, x, ty) ==
    LET y == Eval(m, x)
    IN  IF ~is_error_union(ty) THEN EvalTo(m, x, ty)
        ELSE IF ~Running(y) THEN y
        ELSE IF is_error_union(x.ty) THEN Result(y, AsError(y.v, x.ty, ty))
        ELSE Result(y, <<IndexIn(ty.members, x.ty), y.v>>)

Values(m, xs) ==
    SL!FoldLeft(LAMBDA acc, n : LET y == ReturnValue(acc, xs[n], m.returns[n])
                                IN  IF Running(y) THEN Result(y, Append(acc.v, y.v)) ELSE y,
                Result(m, <<>>), [n \in DOMAIN xs |-> n])
Return(m, values) ==
    CASE ~Running(m) -> m
      [] Running(m) /\ Len(values) # Len(m.returns) -> Wrong(m)
      [] OTHER -> [m EXCEPT !.sig = "return", !.ret = values]
Forwarded(m, x) ==
    LET called == Settle(m, x, IF x.drop THEN "drop" ELSE "all")
        from == Functions[x.fn].returns
    IN  IF ~Running(called) THEN called
        ELSE IF Len(from) < Len(m.returns) THEN Wrong(called)
        ELSE Return(called, [n \in DOMAIN m.returns |->
                          Convert(called, called.v[n], from[n], m.returns[n]).v])

Group(m, s) ==
    LET called == Settle(m, s.call, s.mode)
        bound == Len(s.names) + (IF s.mode = "all" THEN 0 ELSE 1)
    IN  IF ~Running(called) THEN called
        ELSE IF Len(called.v) # bound THEN Wrong(called)
        ELSE SL!FoldLeft(LAMBDA acc, n : Declare(acc, s.names[n], called.v[n]), called,
                         [n \in DOMAIN s.names |-> n])

\* An error nobody looks at.
Ignored(x, value) == is_error_union(x.ty) /\ x.e \notin {"try", "assign"} /\ value[1] # 0

Exec(m, s) ==
    LET init == IF s.init = <<>> \/ s.init[1].e \in {"undefined", "default"}
                THEN Result(m, DefaultOf(s.ty)) ELSE EvalTo(m, s.init[1], s.ty)
        cond == Eval(m, s.c)
        value == Eval(m, s.x)
        values == Values(m, s.values)
        n == Len(m.returns)
        failed == ReturnValue(m, s.x, m.returns[n])
        zeros == [k \in 1 .. n |-> ZeroOf(m.returns[k])]
        chosen == Chosen(m, s.x, s.arms)
    IN  IF ~Running(m) THEN m
        ELSE CASE s.s = "block" -> Block(m, s.body)
          [] s.s = "when" -> Block(m, IF s.sel THEN s.then ELSE s.else)
          [] s.s = "var" -> IF Running(init) THEN Declare(init, s.name, init.v) ELSE init
          [] s.s = "group" -> Group(m, s)
          [] s.s = "expr" -> IF Running(value) /\ Ignored(s.x, value.v) THEN Wrong(value) ELSE value
          [] s.s = "return" -> IF n > 1 /\ Len(s.values) = 1 /\ s.values[1].e = "call"
                               THEN Forwarded(m, s.values[1])
                               ELSE IF Len(s.values) # n THEN Wrong(m) ELSE Return(values, values.v)
          [] s.s = "return_ok" -> IF ~CanFail(m, {}) \/ Len(s.values) # n - 1 THEN Wrong(m)
                                  ELSE Return(values, Append(values.v, <<0>>))
          [] s.s = "return_err" -> IF ~CanFail(m, IF is_error_union(s.x.ty) THEN {} ELSE {s.x.ty}) THEN Wrong(m)
                                   ELSE IF ~Running(failed) THEN failed
                                   ELSE Return(failed, [zeros EXCEPT ![n] = failed.v])
          [] s.s = "if" -> IF ~Running(cond) THEN cond
                           ELSE IF Truth(cond.v, s.c.ty) THEN Block(cond, <<s.then>>)
                           ELSE Block(cond, s.else)
          [] s.s = "while" -> LoopDone(While(m, s))
          [] s.s = "for" -> ForIn(m, s)
          [] s.s = "range" -> ForRange(m, s)
          [] s.s \in {"break", "continue"} -> Stop(m, s.s)
          [] s.s = "defer" -> [m EXCEPT !.deferred = Append(@, [stmt |-> s.body, env |-> m.env])]
          [] s.s = "switch" -> IF chosen.arm = <<>> THEN [chosen.m EXCEPT !.env = m.env]
                               ELSE [Block(chosen.m, <<chosen.arm[1].body>>) EXCEPT !.env = m.env]

\* What calling fn with these arguments does: the calls it makes, how it ends, what it returns.
Meaning(fn, args, oracle) ==
    LET start == [env |-> <<>>, store |-> <<>>, v |-> <<>>, sig |-> "run", trace |-> <<>>,
                  oracle |-> oracle, deferred |-> <<>>, fuel |-> MaxTurns, ret |-> <<>>,
                  returns |-> fn.returns]
        bound == SL!FoldLeft(LAMBDA m, n : Declare(m, fn.names[n], args[n]), start,
                             [n \in DOMAIN args |-> n])
        m == Exec(bound, fn.body)
        end == CASE m.sig = "return" \/ (m.sig = "run" /\ fn.returns = <<>>) -> "returned"
                 [] m.sig \in {"break", "continue"} -> "wrong"
                 [] OTHER -> m.sig
    IN  [trace |-> m.trace, status |-> end, result |-> IF end = "returned" THEN m.ret ELSE <<>>]
=============================================================================
