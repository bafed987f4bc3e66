# Verification of the Mirage compiler and language server

This directory models the Mirage compiler (`mirage`) from the text of a file to WebAssembly code
and x86-64 register allocation and emission, and the language server (`mirage-lsp`) built on its
front end. TLC checks the models on small instances; TLAPS proves the main results for every
value of the constants. Source paths are relative to the repository's `src/`; line numbers are
those of the revision the modules were written from. `PROJECT.json` maps every definition to its
lines and lists runs, mutants, findings, hazards and theorems.

## 1. The system

`mirage` is a whole-program compiler, one stage after the other:

    module resolver -> lexer, parser -> type resolution -> check of bodies -> MIR generation
      -> MIR passes -> x86-64: register allocation, emission, encoder, ELF writer, linker
                    -> wasm:   structuring of control flow, emission, encoder

`mirage-lsp` runs the front end (up to semantic analysis) on a worker thread. The main thread
reads JSON-RPC messages and dispatches them. The worker owns the open buffers, a cache of
analyses, and the diagnostics last published. The threads share a FIFO of tasks, one atomic
flag per request and the list of completed ids.

### Inventory

| Part | Source | State here |
|---|---|---|
| Request dispatch and worker | `lsp/server.cpp`, `lsp/task_queue.hpp` | `LspServer`, shown to implement `LspContract`; both proved |
| Analysis cache | `lsp/analysis.cpp` | `DocumentStore`, modelled and proved |
| Diagnostics rounds | `lsp/server.cpp`, `lsp/analysis.cpp` | `LspDiagnostics`, composed with `DocumentStore`; safety proved |
| Transport, URIs, positions | `lsp/transport.cpp`, `lsp/uri.cpp`, `lsp/position_encoding.cpp` | not modelled |
| Query handlers, type printer | `lsp/handlers/*`, `lsp/type_printer.cpp` | not modelled |
| Module resolver | `compiler/module_resolver.cpp` | `ModuleSearch`, `ModuleResolver`; safety proved |
| Lexer, parser | `compiler/lexer.cpp`, `compiler/ast.cpp`, `compiler/ast_parser.cpp` | `Lexer`, `Parser`, `Frontend` |
| Inline assembly | `compiler/asm_*.cpp` | not modelled |
| Type resolution and layout | `compiler/type_resolver.cpp`, `compiler/sema_declare.cpp` | `TypeResolver` against `TypeMeaning` |
| Constant evaluation | `compiler/value_resolver.cpp` | not modelled |
| Check of bodies | `compiler/sema_check.cpp` | `SemaCheck` against `LangMeaning` |
| MIR generation | `compiler/mirgen.cpp` | `MirGen`, `TypeLayout` against `LangMeaning` |
| MIR, its builder and verifier | `compiler/mir.cpp` | `MirFunc`, `MirExec`; `Mir` for the x86 side |
| MIR passes | `compiler/mir_passes.cpp` | `MirPasses` |
| WebAssembly back end | `compiler/backend_wasm.cpp` | `WasmStructure`, `WasmEmit` |
| x86-64 register allocation | `compiler/x86_regalloc.cpp` | `X86RegAlloc`, modelled and proved |
| x86-64 emission | `compiler/backend_x86.cpp` | `X86Emit`, most of it; stack and callee-saved registers proved |
| Encoders, ELF writer | `compiler/*_encoder.cpp`, `compiler/elf_writer.cpp` | not modelled: byte layouts |
| Diagnostic engine | `compiler/diagnostic_engine.cpp` | duplicates and the error cap, in `Frontend` |
| Driver | `main.cpp` | the order of the stages, in `Pipeline` |

## 2. Modules

| Module | Extends | Role |
|---|---|---|
| `LspServer` | | the two threads |
| `LspContract` | | what a client may rely on: the abstract specification |
| `ModuleSearch` | | one import looked up through the search roots |
| `ModuleResolver` | `ModuleSearch` | the walk over the import graph |
| `DocumentStore` | `ModuleSearch` | buffers, cached analyses, reverse index |
| `LspDiagnostics` | `DocumentStore` | publishing rounds, what the editor shows |
| `Lexer`, `Parser` | | text to tokens, tokens to a tree |
| `Frontend` | both | a file on its way through them |
| `TypeResolver` | | declarations and layouts, in any order |
| `TypeMeaning` | `TypeResolver` | what those types are, with no order |
| `MirFunc` | | MIR functions with their values, builder, verifier |
| `TypeLayout` | `MirFunc` | sizes and offsets |
| `MirGen` | `TypeLayout` | lowering of a body |
| `SemaCheck` | `MirGen` | check of a body |
| `MirPasses` | `MirFunc` | `promote_slots`, `peephole` |
| `WasmEmit` | `MirFunc` | instructions to WebAssembly code |
| `WasmStructure` | `WasmEmit` | control flow to nested blocks and loops |
| `LangMeaning` | `MirGen` (its syntax and types) | what a body means |
| `MirExec` | `MirPasses`, `LangMeaning`, instance of `WasmStructure` | how MIR and WebAssembly code run |
| `Pipeline` | `MirExec`, `SemaCheck` | one function from check to code |
| `Mir` | | operand shapes of MIR, as the allocator reads them |
| `X86RegAlloc` | `Mir` | liveness, intervals, scan, verifier |
| `X86Emit` | `X86RegAlloc` | templates, and a machine that executes them |
| `*Proofs` | its component, the proofs of what that extends, `TLAPS` | theorems |
| `MC_*` | its component, `TLC` | instances |

Operators named `Mut...` are altered forms of the definition that follows them. Each property
has one that breaks it, which shows that the property depends on the code it is about.

### LspServer, LspContract

`mpc` alternates between draining completed ids and the blocking read; `wpc` is the worker's
place between sweep, pop, the cancellation tests, the computation, the answer and the
completion mark. `in_flight`, `queue`, `cancelled`, `completed` and `stop` are the shared
objects of the same names. One action reads one message of a class (`Initialize`, `Shutdown`,
`Exit`, `CancelRequest`, `Notify`, `Enqueue`, or one answered at once or ignored). A request
that found room in the queue is pushed in a step of its own, `Push`, since `full()` and `push()`
lock the queue's mutex each for itself; `incoming` is the request in between. Each of the worker's
actions is a piece of `run_worker_loop` or `run_cancellable_request` that touches
shared state once. What a request computes is the number of buffer updates applied when it
runs. `answers`, `asked`, `arrivedAt`, `computedAt` and `dropped` are history for the
properties. Ids may repeat (`IdOf`), and a computation may throw at any time.

`LspContract` knows neither threads nor queue: updates arrive, requests are accepted or refused
on receipt, cancelled while they wait, and finished; a reply carries a code and the updates its
result was computed on. `ImplementsContract` is its specification under the refinement mapping
at the end of `LspServer`, which reads the contract's state off the history variables.

### ModuleSearch, ModuleResolver

`Join[d][n]` is the directory that path `n` names under `d`, or `NoDir`, and `Within[d]` is what
lies below `d`. `resolve_import_path` tries the importer, then the root module and the fixed roots
in order; a path that leads out of where it was searched counts only for the importer. The resolver
keeps the C++ call stack of `visit` as an explicit stack: `Start`, `Import` (one import of the
top module), `Return`, `ForceLoad` (modules loaded by option) and `Finish` (the `ok` flag). The
import lists and the broken modules are chosen in the initial state, so a run covers every
graph over its directories.

### DocumentStore, LspDiagnostics

A store is a record with the fields of the class; each method is an operator from store to
store, so that `LspDiagnostics` composes them exactly as the tasks of `server.cpp` do.
`access_clock_` is abstracted to the order it induces (`older`). `analyse` is the front end as
the cache sees it: the closure it reached, the texts it read, the files with errors. Files may
change on disk before the client reports it (`unnotified`). `LspDiagnostics` adds the tracking
set, the pending deadlines and `shown`, the client's squiggles. The store's tasks run one at a
time on the worker in arrival order, which is part of what `LspContract` promises of
`LspServer`, so a notification and its task are one step here.

### Lexer, Parser, Frontend

A text is a sequence of symbols: a run of letters is one symbol, everything else one symbol per
character. `LexToken` is one turn of `tokenize()`, with its virtual semicolons, literals,
comments, template strings and raw asm captures. The parser is one operator per `parse_*`
function from parser record to parser record, with the look-aheads, the error recovery, the
suppression of repeated diagnostics and the cap on errors. A loop that comes round without
having consumed a token is marked `stuck`: the program would spin.

### TypeResolver, TypeMeaning

The unordered maps of modules and symbols are walked in an order chosen in the initial state
(an unordered map's order is arbitrary but fixed). `TypeResolver` follows `declare_module`, the
resolution of names and type expressions, the layout of each aggregate and the three guards
against cycles, as operators that call each other like the functions they are named after; one
step forces one symbol. `TypeMeaning` says
what the same declarations denote without any order: types as values, sizes by recursion on
finite ones.

### SemaCheck, MirGen, MirPasses, WasmStructure, WasmEmit, Pipeline

A program is one function body with the signatures of its callees. `SemaCheck` threads the
scope (names, types, error typestate) through the body as `check_stmt` does. `MirGen` emits
MIR through the builder of `MirFunc`: slots, scopes of defers, loops, hidden result pointers,
errors. `MirPasses` has `promote_slots` with its on-demand reaching definitions, and `peephole`
with its rounds. `WasmEmit` and `WasmStructure` produce nested code as the back end does, and
the dispatch loop it falls back to. `Pipeline` runs the stages in the driver's order.

The reference is `LangMeaning`, written from `docs/spec.md`: values are trees, places are paths,
names are lexical, there are no bytes and no control flow graph. A call is logged and answered
by an oracle, so a body means, for each oracle, a log, an ending and results. `MirExec` runs MIR
and WebAssembly code over bytes with the same oracles, with junk in unwritten memory and in the
upper bits of narrow results. Checking a stage is comparing the two for every oracle.
`LangMeaning` also says when a body goes *wrong*: it does something that semantic analysis is
there to exclude.

The verdicts of `SemaCheck` were compared with those of the compiler itself, by writing two
thousand of the run's bodies out as source files: they agree on all but 26, of which 22 come from
how they were written out (untyped literals, an ambiguous variant name) and four are departure
9 below.

### Mir, X86RegAlloc, X86Emit

A function is a list of instructions with block boundaries, as `index_blocks` lays it out; an
operation is a class of operations with the same emission template. `X86RegAlloc` has the
backwards liveness sweep block by block, `build_intervals`, call crossing and save areas, the
scan one interval per step, and the verifier with its two rules. `mode` is `--regalloc`. `AllocSpec`
is the allocator on its own; the specification of `X86Emit` is the allocator, then the machine.

`X86Emit` turns an instruction into the list of micro-steps its template performs: parallel or
ordered moves, reads of an operand at a place, a definition, clobbers, pushes and pops. The
machine state `holds` relates values to the places (registers, spill and save areas, staging
and argument slots) that contain their current instance. So "the code computes the right
thing" is the single statement that a template reading operand `v` at place `p` finds `v`
there. Branches and switches go either way.

## 3. Runs

| Run | Result | Question |
|---|---|---|
| `lsp_server` | holds | the two threads with a reused id, a full queue, cancels, exceptions: safety, answers and joining, refinement of `LspContract` |
| `module_resolution` | holds | all import graphs over three directories |
| `document_cache` | holds | index, freshness and lifetime of what the cache returns |
| `diagnostics_rounds` | holds | two documents, one cached bundle: rounds are accurate |
| `diagnostics_liveness` | holds | squiggles come to be right and stay right |
| `front_end` | holds | trees written out are parsed back; no text hangs the parser or loses tokens |
| `type_layout` | holds | every order of the tables accepts the finite types and lays them out alike |
| `type_order` | refuted | does acceptance of a finite type never depend on the order? (departure 10) |
| `compile` | holds | accepted bodies never go wrong; MIR, passes and both kinds of wasm code keep the meaning |
| `error_state_forgotten` | refuted | is an error matched only where it has failed? (departure 1) |
| `x86_backend` | holds | 188 functions, both modes, every path |
| `x86_call_result_lost` | refuted | the counted loop's layout (departure 2) |

### Bounds, and why they are enough

* `LspServer`: three requests, one of which initialises, leave two that meet in the queue, the
  worker and a cancel; two of the three share an id, so that a request is met alone under its id
  and with another. A queue of two is filled by one request and one update. Two updates (`MaxNotes`)
  can lie on either side of a request.
* `ModuleResolver`: three directories, two names and up to two imports each give self-imports,
  cycles of two and three, repeated imports, every search root, a path that leads out of a root,
  and at most one broken module and one forced one.
* `DocumentStore`: a ring of three modules has closures of every size and overlap; room for two
  makes the third analysis evict. Every directory exists from the start (departure 4).
* `LspDiagnostics`: two modules that may import each other. A capacity of one makes rounds evict
  each other's bundle; the liveness run has one open document and a dependency on disk.
* `Frontend`: every form of the grammar with every form in each of its operand positions (depth
  two, so that each precedence meets each other), in a tight and in a loose layout; all texts of
  four symbols over those the literal rules turn on; declarations with one token struck out,
  replaced, put in or cut off. The cap of twenty errors is the code's. A float literal is
  out of range beyond six decades (`FloatExpMax`) in place of 308.
* `TypeResolver`: programs of two to four declarations over one to three modules, in every order
  of both tables. Sizes stop at nesting depth 5 (`Depth`), deeper than any finite program here.
  `MaxArrayBytes` is 1000 in place of the largest 32-bit number; lengths lie on both sides of it for
  elements of 0, 8 and 16 bytes.
* `Pipeline`: numbers are scaled, a byte has 4 bits, an i32 two bytes, an i64 four, a pointer
  two, so that every carry, sign and width boundary is met by small numbers. The bodies are
  families, each placing every form of statement or expression where its code interacts with
  another: what leaves (return, break, continue, try, return_err) under what must run (defers,
  nested scopes, loops), joins that permute variables, narrow arithmetic on its edges, memory
  through pointers, slices, unions and results, and `Wild` bodies of which most are refused.
  Oracles give each call up to four answers. `MaxTurns` and `MaxSteps` only cut runs that
  diverge; loops of the families ask the oracle and end when it has no more. One junk value,
  13 (binary 1101), suffices to make a read of unwritten memory visible.
* `X86Emit`: each function puts one template or shape under 0, 4, 7 or 15 live integers and 0, 4
  or 17 live floats: no pressure, scratch registers taken, callee-saved registers reached, and
  every register occupied so that leases push and values spill. The shapes are a join with
  parameters, a loop that permutes its parameters around a call, and a switch in a loop.
  Float comparisons and float selects are not put under more than four floats: with every
  XMM register occupied the release of a lease overwrites the flags (a listed hazard).

### Fairness

`LspServer` assumes weak fairness of the worker, of the join, of draining and of pushing what was
accepted: the operating system runs a runnable thread. Nothing makes the client send.
`LspDiagnostics` assumes that a deadline that has passed is swept, because the worker's wait is
timed, and that the client reports disk changes it watches, as it registered for.
`ModuleResolver` is sequential, so its one process is weakly fair. The other runs check no
liveness. That the parser ends is the safety property `ParserProgresses`, since each turn of its
loops is recorded.

`CHECK_DEADLOCK FALSE` is said of `Frontend`, `TypeResolver` and `Pipeline` only: each follows
one file or function to its end and stops.

## 4. Where the code departs from what it says

Three departures are runs of their own; the others were met while modelling. Where a passing run
would meet one, its programs leave the case out, as said with each.

1. **An error's state is lost in nested blocks** (`compiler/sema_check.cpp:6023`). Nested
   statements are checked in a copy of the scope, so reassigning an error inside a block, an arm
   or a `for` loop leaves it known `Failed` outside, though `docs/spec.md:2635` says the assignment
   resets it. A `match` on an `Ok` error is accepted. For the same reason, and because a loop
   body is checked once from the state before the loop, a `while` body that matches an error and
   then assigns it is accepted.
2. **A call result is restored over by its own call** (`compiler/x86_regalloc.cpp:352`). A value
   defined by a call and read in a block laid out earlier, as in a `for` loop with an `if` and a
   call in its body, has an interval that starts before the call. It counts as crossing, is
   parked, and the parked value is restored over the result. The verifier sees nothing.
   Reproduced by compiling such a function. The passing x86 run leaves the shape out.
3. **An exception in a debounced round ends the process** (`lsp/server.cpp:299`). The sweep runs
   outside the worker's `try`; `lsp/analysis.cpp:41` says an escaping exception fails one
   request. The step is part of `LspServer`.
4. **A directory created after a failed import stays unresolved** (`lsp/analysis.cpp:138`).
   Invalidation goes by closure membership, and the new directory is in no closure. With
   `Absent` not empty `BundlesCurrent` fails.
5. **A removed import leaves its squiggles** (`lsp/analysis.cpp:255`). Files outside the new
   closure are skipped, though `lsp/server.cpp:246` promises them an empty entry.
6. **A leased callee-saved register is not saved** (`compiler/backend_x86.cpp:232`). Only
   registers the scan assigned are in `used_callee_saved`. Reproduced: a narrow division under
   pressure overwrites r13. `AssignedCalleeSavedPreserved` states the part that holds.
7. **Narrow signed comparisons are unsigned** (`compiler/backend_wasm.cpp:501`,
   `compiler/backend_x86.cpp:632`). Operands are kept zero-extended and not extended here, though
   `compiler/backend_x86.cpp:15` says templates that need the sign re-extend: `i8` -1 < 0 is
   false. A negative case of a `switch` over `i8` is missed for the same reason
   (`compiler/backend_x86.cpp:1303`). The run orders no `i8` values.
8. **`return_err` of a smaller error union fails an `Ok` value** (`compiler/mirgen.cpp:2481`).
   The value is re-tagged `Failed` without a look at its tag; `docs/spec.md:1033` says it is
   propagated as it is, `Ok` or `Failed` alike.
9. **A signature is used after its table may have moved** (`compiler/mirgen.cpp:4451`, and 6170,
   6292, 6598, 7167). An argument that drops an optional error interns the panic helper's
   signature while the call holds a reference into the table. `f(g())` with such a `g` is then
   refused with "cannot compile a call with defaulted arguments".
10. **Acceptance of a type can depend on the order of an unordered map**
    (`compiler/type_resolver.cpp:716`). An alias of a struct stored by value, a generic type that
    stores its argument, an array behind a pointer in an inline struct, a trait whose method takes
    what stores the trait, and types of modules that import each other are accepted, refused or
    end the compiler with an exception, by order, though the comment at line 1871 counts such an
    outcome as spurious. `type_order` has these five, `type_layout` none. In neither:
    `G[T] = struct { x: *G[*T] }`, which is instantiated without end; a trait composed while its own
    methods are being resolved, which hands on none of them; and an array behind a pointer whose
    element is not laid out yet, which passes the test of the largest size with size 0.
11. **Names of deferred statements** (`compiler/mirgen.cpp:1618`) are looked up at the point of
    exit, not where the `defer` stands: a later declaration of the same name is taken instead
    (`docs/spec.md:1104`). `emit_var_decl` binds a name before its initializer is evaluated. The
    run's bodies declare each name once on a path.
12. Smaller ones: a `defer` as the whole body of an `if`, or in a `when`, belongs to the enclosing
    scope; `remove_dead` deletes an `asm` with an unused result register; a missing return is a
    warning; a group declaration of a call that returns nothing passes the check and is refused
    in lowering; `mut y := try f()` of an error-only call declares a `void` local; a `bool` match
    accepts any integer constant as a pattern; `docs/grammar.md:615` and `compiler/ast.cpp:2149` say
    that `when` binds looser than `?:`, but the branches of a ternary are full expressions
    (`docs/grammar.md:555`), so that `a ? b : c when d else e` takes the `when` into its last branch.
    The texts of `front_end` put a `when` inside a ternary in parentheses.

## 5. Proofs

A theorem whose conclusion is a property of a run shows for every value of the constants what the
run shows for one. "Hyp." names what the theorem assumes beyond the modules' `ASSUME`s.

| Theorem | Hyp. | Statement |
|---|---|---|
| `LspServerProofs!TypeCorrect` | | `TypeOK` |
| `LspServerProofs!AccountedFor` | | each request read is in exactly one place and answered at most once |
| `LspServerProofs!NotLeaked` | | an `in_flight_` entry is owned or about to be drained |
| `LspServerProofs!ShutdownStopsWork` | | nothing is queued after shutdown |
| `LspServerProofs!WaitingIsCancellable` | | a request the client waits for, alone under its id, has its own flag there |
| `LspServerProofs!QueuedCancelHonoured` | | a request cancelled in the queue, alone under its id, is never computed |
| `LspContractProofs!ServerImplementsContract` | | `Spec => Contract!Spec`: the threads implement the contract |
| `ModuleResolverProofs!ImportersAlwaysFirst` | | a module comes after one that imports it, unless it is the root or forced |
| `ModuleResolverProofs!ImportsAlwaysLead` | | a recorded import leads to a loaded module |
| `ModuleResolverProofs!WalkLoadsClosure` | | a finished walk has loaded exactly the import closure |
| `ModuleResolverProofs!OkIsComplete` | | an `ok` program has no error and no import unrecorded |
| `DocumentStoreProofs!IndexAlwaysExact` | | the reverse index is the inverse of the closures |
| `DocumentStoreProofs!BundlesAlwaysFresh` | | no cached analysis read outdated text |
| `DocumentStoreProofs!ReturnedAlwaysSurvives` | | what `ensure_analysed` returns is not what it evicts |
| `DocumentStoreProofs!BundlesAlwaysCurrent` | dirs | a cached bundle is what a new analysis would give |
| `LspDiagnosticsProofs!RoundsAlwaysAccurate` | dirs, roots | a publishing round never works from a stale bundle |
| `LspDiagnosticsProofs!OnlyTruthEverPublished` | dirs, roots | squiggles come and go only with the errors, or at `didClose` |
| `LspDiagnosticsProofs!OneDocumentAccurate` | dirs, roots, one | the open document is accurate whenever no round is due |
| `X86RegAllocProofs!LivenessAlwaysExact` | | the sweeps stop at the exact liveness |
| `X86RegAllocProofs!AllocationIsVerified` | | the verifier's abort is unreachable |
| `X86RegAllocProofs!AssignmentIsSound` | | overlapping intervals never share a register, kill ranges are tolerated only around calls a value is parked for, spilled values have areas |
| `X86EmitProofs!EmittedIsVerified`, `EmittedLivenessExact` | | the allocator's theorems hold of the code that runs |
| `X86EmitProofs!StackAlwaysBalanced` | | every pushed scratch register is popped before its template is left |
| `X86EmitProofs!CalleeSavedAlwaysPreserved` | | callee-saved registers given to values are restored at the return |

*Assumptions.* The named `ASSUME`s of the modules: ids of requests are ids, absent values are not
values, capacities are positive naturals, files and directories are finitely many, and the
functions given to the back end are what `mir::verify` accepts, laid out as `index_blocks` does.

*Hypotheses.* Each excludes a case in which the statement is false (TLC finds a counterexample when it
is dropped), and holds in the run that checks it.

* *dirs*: `Absent = {}`, no directory comes into being behind the server's back (departure 4).
* *roots*: `SameFromAnyRoot`, an import leads to the same directory whichever module is the root of
  the analysis. The root's own directory is one of the places searched, and a document may be
  served from the bundle of another root, so without this its errors depend on what was opened
  first. It is one of the hazards listed.
* *one*: the user has one document to open. With two, an edit of one changes the errors of the
  other, and nothing schedules a round for that one.

### Arguments

`LspServer`. `TypeOK` is inductive with `Phase`, what the worker holds at each control point.
`EveryRequestAccountedFor` is strengthened to all requests, not only those read: an unread request
is nowhere. `InFlightNotLeaked` rests on `Tracked`: an entry's request also carries the entry's
id, so the completion mark names the right entry. For cancellation, `ICancel` adds `Marked` (a
completion is reported only of a request that was answered, so a drain erases no flag that is
still wanted), `Uncomputed` (what is queued, or held before `compute()`, has not been computed) and
`Doomed` (a request cancelled in the queue carries its flag and is never at `compute()`).

`LspContract`. The refinement needs `ICon`, six facts on top of the places of requests. `Backlog`:
the updates applied and those still queued or held are the updates that arrived. `Order`: the
worker and the queue hold requests and updates in the order in which they arrived; with `Backlog`,
a request that reaches the worker is computed on exactly what arrived before it. `Flags`: a flag
is raised only for a request the client asked to cancel while it waited. `Verdict`: what the worker
is about to send was found that way. `JustRead`: nothing has arrived since
the request main is about to push, so it takes its place at the end of that order. `Unread`:
nothing is recorded of a request not read. Each
action of the two threads is then a step of the contract or leaves its state alone.

`ModuleResolver`. A finished walk must have loaded everything reachable and nothing else, but the
code only ever looks at the top of its stack. `IInv` says what is owed meanwhile: every import of
a loaded module is recorded, was refused with an error, or lies ahead in the module's frame, which
is on the stack (`NoneForgotten`); frames and recorded targets are loaded modules (`FramesKnown`,
`ImportsKnown`); and every loaded module is reachable (`OnlyReachable`). With an empty stack nothing
is owed.

`DocumentStore`. Each operator is shown to keep exactness and freshness of any store; freshness
needs exactness, since invalidation consults the index. That the bundle just touched outlives the
eviction needs `Ordered`: any set of cached bundles has an oldest one, so that evicting the oldest
terminates and meets the newest last. That fresh bundles are *current* needs `Computed`: a bundle's
closure and diagnostics are those its own texts describe. Freshness says these texts are the
present ones, inside the closure; the closure of the present texts cannot leave it, for every
step out of it would start at a text inside (`TextsDetermine`).

`LspDiagnostics`. `DiagInv` is those facts of the store, kept by every task; the loop of
`closure_diagnostics_for` over the open documents is an induction on the number of documents done.
`SameErrors` then compares two roots: a bundle that covers a file covers that file's own closure,
and reports an error for it exactly if an analysis of its own directory does. A round therefore
shows the truth for every file of its closure, and `files_that_became_clean` touches no other.

`X86RegAlloc`. `AllocInv` adds to the verifier's claim that the active list holds exactly the
scanned intervals that may still overlap later ones, that intervals are scanned in order of their
start, and that a register is picked only when no active interval has it and no kill range clashes.
The verifier compares neighbours only; the proof covers all pairs. It does not contradict
departure 2: the assignment is sound for the intervals, and it is the interval of a call result
that is too long. For liveness, `SweepInv` bounds the sets from both sides: nothing in them is not
live on some path (`NothingExtra`), and in a sweep that has changed nothing so far the blocks behind
the cursor satisfy their equation (`Stable`), so that when it ends all do.

`X86Emit`. The code of a template is characterised by what it does to the stack of leased
registers: `Passage(s, a, b)` takes depth `a` to depth `b`, never below zero, and writes no
callee-saved slot. Passages compose, and `TemplateShape` shows that every template is one from 0
to 0 followed by a jump, a return or a trap, whatever its leases had to push. `EmitInv` says
which of five stages the code that remains is in (`Entering`, `Executing`, `Leaving`, `Left`,
`Trapped`) and what holds there: from the prologue's moves to the epilogue's, the callers' values
lie in their slots. `UsedInv`, that `used_callee_saved` names every callee-saved home, links this
to the registers. Emission and the running code leave the allocator's variables alone
(`EmitterKeepsAllocation`), which carries the allocator's theorems over.

### Only model-checked

* Liveness and fairness: `EventuallyAnswered`, `ExitJoins`, `Terminates`, `EventuallyAccurate`.
* `EveryReadFindsItsValue`: false of all functions (departure 2), and of the ones it holds for
  there is no description but the run's list of shapes.
* The front end, the types and the compile pipeline. They are recursive over syntax; what a
  recursive definition computes for every input needs induction over data, which is out of the
  prover's reach here, and their modules use `RECURSIVE` operators.

## 6. Not modelled

* Emission for x86-64: by-value, two-word and struct-return shapes of a function's own C
  signature, the AL count of variadic calls, `@naked`, operand widths and canonicalisation,
  relocations, bytes.
* Registers an `asm` block clobbers beyond its template's declared ones; callee-saved registers
  clobbered only by `asm` are not in `used_callee_saved`. The inline assembly's own syntax.
* In bodies: floats, strings, globals, methods, traits, generics, function values, `any`,
  printing, `asm`, test runners and entry points; in the check, inference of omitted types,
  mutability and warnings. They have rules of their own, but meet the modelled ones only through
  the types, slots and calls that are modelled.
* Constant evaluation (`value_resolver.cpp`) and attributes: a program's array lengths, defaults
  and conditions are given; in the check of bodies only a literal length folds. Value parameters
  of generic types. `error(E)` and `?error(E)` are one type to `SemaCheck`; `TypeResolver` tells
  them apart.
* Analyses that depend on which module is the root, and the cap of twenty errors over several
  files of one analysis; both are listed as hazards.
* Query handlers, transport, URIs, position encoding, encoders, the ELF writer: sequential
  functions from data to bytes or text, without state, whose cases the unit tests and the
  differential tests against GNU as reach.
* The driver's options, temporary files and child processes.
