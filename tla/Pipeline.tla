------------------------------ MODULE Pipeline ------------------------------
(***************************************************************************)
(* One function on its way through the compiler (main.cpp): the parsed     *)
(* body is checked, lowered to MIR, its slots are promoted, the            *)
(* peephole pass runs, the verifier looks at the result, and the           *)
(* WebAssembly backend emits its code.                                     *)
(***************************************************************************)
EXTENDS MirExec, SemaCheck

CONSTANTS
    Programs,  \* the functions: [names, params, returns, body, args, oracles], the last the
               \* environments it is run in: what the calls answer, in order
    Junk,      \* what a byte or a value nobody has written may hold
    \* The stages of the compiler, given by the model:
    CheckBody(_),      \* check_body of SemaCheck
    EmitBody(_),       \* emit_body of MirGen
    PromoteIn(_),      \* promote_function of MirPasses
    PeepholeIn(_),     \* peephole of MirPasses
    Verifies(_),       \* verify of MirFunc
    EmitFunction(_),   \* emit_function of WasmEmit
    EmitDispatch(_),   \* FunctionCode of WasmEmit, made to take the dispatch loop
    Reducible(_),      \* build_cfg of WasmStructure: whether the graph is reducible
    \* What a body means, and what its MIR and its WebAssembly code do:
    MeaningOf(_, _),           \* Meaning of LangMeaning, on the program's arguments
    MirRun(_, _, _, _),        \* Behaviour of MirExec
    WasmRun(_, _, _, _, _)     \* WasmBehaviour of MirExec

VARIABLES
    stage,  \* how far the driver has come
    prog,   \* the function being compiled
    mir,    \* its MIR, <<>> before it is lowered
    code,   \* its WebAssembly code, <<>> before the backend ran
    meant   \* what it means in each of its environments, once it is accepted

vars == <<stage, prog, mir, code, meant>>

Init ==
    /\ stage = "parsed"
    /\ prog \in Programs
    /\ mir = <<>>
    /\ code = <<>>
    /\ meant = <<>>

\* The driver stops on whatever sema reports.
Check ==
    /\ stage = "parsed"
    /\ stage' = IF CheckBody(prog) THEN "checked" ELSE "refused"
    /\ meant' = IF CheckBody(prog) THEN [oracle \in prog.oracles |-> MeaningOf(prog, oracle)] ELSE <<>>
    /\ UNCHANGED <<prog, mir, code>>

Generate ==
    /\ stage = "checked"
    /\ mir' = <<EmitBody(prog)>>
    /\ stage' = "lowered"
    /\ UNCHANGED <<prog, code, meant>>

PromoteSlots ==
    /\ stage = "lowered"
    /\ mir' = <<PromoteIn(mir[1])>>
    /\ stage' = "promoted"
    /\ UNCHANGED <<prog, code, meant>>

Peephole ==
    /\ stage = "promoted"
    /\ mir' = <<PeepholeIn(mir[1])>>
    /\ stage' = "simplified"
    /\ UNCHANGED <<prog, code, meant>>

\* The driver stops on whatever the verifier reports.
Verify ==
    /\ stage = "simplified"
    /\ stage' = IF Verifies(mir[1]) THEN "verified" ELSE "rejected"
    /\ UNCHANGED <<prog, mir, code, meant>>

\* The WebAssembly backend, for a target with 32-bit pointers; the dispatch loop is for graphs that
\* are not reducible.
EmitWasm ==
    /\ stage = "verified"
    /\ PointerBytes = store_size("i32")
    /\ code' = <<EmitFunction(mir[1])>>
    /\ stage' = IF Reducible(mir[1]) THEN "structured" ELSE "dispatched"
    /\ UNCHANGED <<prog, mir, meant>>

Next == Check \/ Generate \/ PromoteSlots \/ Peephole \/ Verify \/ EmitWasm

Spec == Init /\ [][Next]_vars

(***************************************************************************)
(* Properties.                                                             *)
(***************************************************************************)
Faithful(Observe(_, _)) ==
    \A oracle \in prog.oracles, junk \in Junk : Observe(oracle, junk) = meant[oracle]
MirIsFaithful == Faithful(LAMBDA oracle, junk : MirRun(mir[1], prog, oracle, junk))
WasmIsFaithful(emitted) ==
    Faithful(LAMBDA oracle, junk : WasmRun(mir[1], emitted, prog, oracle, junk))

NeverGoesWrong == \A oracle \in prog.oracles : meant[oracle].status # "wrong"

\* What sema accepts means something, whatever the callees answer: an error is taken apart only
\* where it has failed and never dropped unseen, a match finds an arm, control leaves only what it
\* is in and never a deferred statement, what is returned or propagated is what the signature says,
\* and every name is in scope.
CheckedNeverGoesWrong == stage = "checked" => NeverGoesWrong

\* spec.md: "Reassigning a `mut` error-tracked variable, or taking its address with `&`, resets its
\* state to `Unknown`", and matching "requires it to be known `Failed` at the match site".
\* (check_stmt drops the states of the scope it copies for a nested block.)
MatchedErrorsHaveFailed == stage = "checked" => NeverGoesWrong

\* Lowering keeps the meaning of the body: whatever its callees answer, the MIR mirgen emits makes
\* the calls the source makes, in that order with those arguments, ends the way it ends and returns
\* what it returns, and none of it depends on memory nobody wrote.
LoweringPreservesMeaning == stage = "lowered" => MirIsFaithful

\* promote_slots and peephole change nothing that can be observed.
PassesPreserveMeaning == stage \in {"promoted", "simplified"} => MirIsFaithful

\* A function that sema accepted is never refused by the verifier, at any stage.
AlwaysVerifies == mir # <<>> => Verifies(mir[1])

\* The WebAssembly code runs the way the source says: every branch finds its label at the depth it
\* names, block parameters are copied in parallel, a narrow number is canonical wherever it is
\* used, though callees answer with anything above a narrow result, and the shadow stack pointer
\* comes back.
WasmPreservesMeaning == stage \in {"structured", "dispatched"} => WasmIsFaithful(code[1])

\* So does the dispatch loop the backend keeps for irreducible graphs, on any graph.
DispatchPreservesMeaning ==
    stage \in {"structured", "dispatched"} => LET loop == EmitDispatch(mir[1]) IN WasmIsFaithful(loop)

\* Nothing the front end lowers is irreducible: the dispatch loop is never taken.
AlwaysStructured == stage # "dispatched"
=============================================================================
